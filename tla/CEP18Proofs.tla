---- MODULE CEP18Proofs ----
(***************************************************************************)
(* Theorems about the CEP-18 contract, for every set of accounts and       *)
(* packages and every width of the counters.                               *)
(***************************************************************************)
EXTENDS CEP18, FiniteSetTheorems, TLAPS

(***************************************************************************)
(* How writing one balance changes the number of tokens.                   *)
(***************************************************************************)
\* There are finitely many keys.
LEMMA KeyFinite == IsFiniteSet(Key)
  BY FS_Union, CasperAssumption DEF Key

\* The tokens of one key: n of them, as many as its balance says.
Pile(k, n) == {k} \X (1..n)

LEMMA PileSize ==
  ASSUME NEW k, NEW n \in Nat
  PROVE  IsFiniteSet(Pile(k, n)) /\ Cardinality(Pile(k, n)) = n
<1>1. IsFiniteSet({k}) /\ Cardinality({k}) = 1
  BY FS_Singleton
<1>2. IsFiniteSet(1..n) /\ Cardinality(1..n) = n
  BY FS_Interval
<1>3. /\ IsFiniteSet({k} \X (1..n))
      /\ Cardinality({k} \X (1..n)) = Cardinality({k}) * Cardinality(1..n)
  BY <1>1, <1>2, FS_Product
<1>4. QED
  BY <1>1, <1>2, <1>3 DEF Pile

\* The number of tokens is a natural number.
LEMMA UnitsFinite ==
  ASSUME NEW b
  PROVE  IsFiniteSet(Units(b)) /\ Cardinality(Units(b)) \in Nat
<1>1. IsFiniteSet(1..MaxU256)
  BY FS_Interval, CasperAssumption
<1>2. IsFiniteSet(Key \X (1..MaxU256))
  BY <1>1, KeyFinite, FS_Product
<1>3. Units(b) \in SUBSET (Key \X (1..MaxU256))
  BY DEF Units
<1>4. QED
  BY <1>2, <1>3, FS_Subset, FS_CardinalityType

\* No tokens where every balance is zero.
LEMMA UnitsEmpty ==
  ASSUME NEW b, \A k \in Key : b[k] = 0
  PROVE  Cardinality(Units(b)) = 0
<1>1. Units(b) = {}
  BY CasperAssumption DEF Units
<1>2. QED
  BY <1>1, FS_EmptySet

\* Writing v over the balance of k adds v tokens and removes those k had.
LEMMA UnitsWrite ==
  ASSUME NEW b \in [Key -> U256], NEW k \in Key, NEW v \in U256
  PROVE  Cardinality(Units([b EXCEPT ![k] = v])) = Cardinality(Units(b)) - b[k] + v
<1> DEFINE c    == [b EXCEPT ![k] = v]
           Rest == {unit \in Units(b) : unit[1] # k}
<1>1. /\ b[k] \in Nat /\ b[k] <= MaxU256 /\ v \in Nat /\ v <= MaxU256
      /\ MaxU256 \in Nat
  BY CasperAssumption DEF U256
<1>2. IsFiniteSet(Rest) /\ Cardinality(Rest) \in Nat
  <2>1. Rest \in SUBSET Units(b)
    OBVIOUS
  <2>2. QED
    BY <2>1, UnitsFinite, FS_Subset, FS_CardinalityType
<1>3. ASSUME NEW n \in Nat
      PROVE  Cardinality(Rest \cup Pile(k, n)) = Cardinality(Rest) + n
  <2>1. Rest \cap Pile(k, n) = {}
    BY DEF Pile
  <2>2. Cardinality(Rest \cap Pile(k, n)) = 0
    BY <2>1, FS_EmptySet
  <2>3. IsFiniteSet(Pile(k, n)) /\ Cardinality(Pile(k, n)) = n
    BY PileSize
  <2>4. Cardinality(Rest \cup Pile(k, n))
          = Cardinality(Rest) + Cardinality(Pile(k, n)) - Cardinality(Rest \cap Pile(k, n))
    BY <1>2, <2>3, FS_Union
  <2>5. QED
    BY <1>2, <2>2, <2>3, <2>4
<1>4. Units(b) = Rest \cup Pile(k, b[k])
  BY <1>1 DEF Units, Pile
<1>5. Units(c) = Rest \cup Pile(k, v)
  BY <1>1 DEF Units, Pile
<1>6. Cardinality(Units(b)) = Cardinality(Rest) + b[k]
  BY <1>1, <1>3, <1>4
<1>7. Cardinality(Units(c)) = Cardinality(Rest) + v
  BY <1>1, <1>3, <1>5
<1>8. QED
  BY <1>1, <1>2, <1>6, <1>7

\* No balance, and no sum of two balances, exceeds the number of tokens.
LEMMA UnitsBound ==
  ASSUME NEW b \in [Key -> U256], NEW i \in Key, NEW j \in Key
  PROVE  /\ b[i] <= Cardinality(Units(b))
         /\ i # j => b[i] + b[j] <= Cardinality(Units(b))
<1> DEFINE c == [b EXCEPT ![i] = 0]
           d == [c EXCEPT ![j] = 0]
<1>1. 0 \in U256 /\ b[i] \in Nat /\ b[j] \in Nat
  BY CasperAssumption DEF U256
<1>2. c \in [Key -> U256]
  BY <1>1
<1>3. Cardinality(Units(c)) = Cardinality(Units(b)) - b[i]
  <2>1. Cardinality(Units(c)) = Cardinality(Units(b)) - b[i] + 0
    BY <1>1, UnitsWrite
  <2>2. QED
    BY <1>1, <2>1, UnitsFinite
<1>4. i # j => Cardinality(Units(d)) = Cardinality(Units(c)) - b[j]
  <2>1. HAVE i # j
  <2>2. c[j] = b[j]
    BY <2>1
  <2>3. Cardinality(Units(d)) = Cardinality(Units(c)) - c[j] + 0
    BY <1>1, <1>2, UnitsWrite
  <2>4. QED
    BY <1>1, <2>2, <2>3, UnitsFinite
<1>5. QED
  BY <1>1, <1>3, <1>4, UnitsFinite

\* n tokens of key i given to key j.
Moved(b, i, j, n) == [b EXCEPT ![i] = b[i] - n, ![j] = b[j] + n]

\* Moving n tokens from one key to another creates and destroys none.
LEMMA UnitsMove ==
  ASSUME NEW b \in [Key -> U256], NEW i \in Key, NEW j \in Key, i # j,
         NEW n \in Nat, n <= b[i], b[j] + n <= MaxU256
  PROVE  /\ Moved(b, i, j, n) \in [Key -> U256]
         /\ Cardinality(Units(Moved(b, i, j, n))) = Cardinality(Units(b))
<1> DEFINE c == [b EXCEPT ![i] = b[i] - n]
           d == [c EXCEPT ![j] = b[j] + n]
<1>1. /\ b[i] \in Nat /\ b[j] \in Nat
      /\ b[i] - n \in U256 /\ b[j] + n \in U256
  BY CasperAssumption DEF U256
<1>2. c \in [Key -> U256] /\ d \in [Key -> U256] /\ c[j] = b[j]
  BY <1>1
<1>3. Cardinality(Units(c)) = Cardinality(Units(b)) - b[i] + (b[i] - n)
  BY <1>1, UnitsWrite
<1>4. Cardinality(Units(d)) = Cardinality(Units(c)) - c[j] + (b[j] + n)
  BY <1>1, <1>2, UnitsWrite
<1>5. Cardinality(Units(d)) = Cardinality(Units(b))
  BY <1>1, <1>2, <1>3, <1>4, UnitsFinite
<1>6. d = Moved(b, i, j, n)
  BY DEF Moved
<1>7. QED
  BY <1>2, <1>5, <1>6

(***************************************************************************)
(* The call stack                                                          *)
(***************************************************************************)

\* The address the contract takes for its caller is a key, and it is the key the call acts
\* for in the sense of the properties.
LEMMA CallerActs ==
  ASSUME NEW stack \in CallStack
  PROVE  /\ get_immediate_caller_address(stack) \in Key
         /\ ActsFor(stack, get_immediate_caller_address(stack))
<1> USE DEF Session, StoredSession, StoredContract, Key, Caller, ActsFor,
            get_immediate_caller_address, call_stack_element_to_address
<1>1. ASSUME NEW a \in Account, stack = <<Session(a), StoredContract(Token)>>
      PROVE  /\ get_immediate_caller_address(stack) \in Key
             /\ ActsFor(stack, get_immediate_caller_address(stack))
  BY <1>1
<1>2. ASSUME NEW a \in Account, NEW p \in Caller,
             stack = <<Session(a), StoredSession(a, p), StoredContract(Token)>>
      PROVE  /\ get_immediate_caller_address(stack) \in Key
             /\ ActsFor(stack, get_immediate_caller_address(stack))
  BY <1>2
<1>3. ASSUME NEW a \in Account, NEW p \in Caller,
             stack = <<Session(a), StoredContract(p), StoredContract(Token)>>
      PROVE  /\ get_immediate_caller_address(stack) \in Key
             /\ ActsFor(stack, get_immediate_caller_address(stack))
  BY <1>3
<1>4. ASSUME NEW a \in Account, NEW p \in Caller, NEW q \in Caller,
             stack = <<Session(a), StoredSession(a, q), StoredContract(p), StoredContract(Token)>>
      PROVE  /\ get_immediate_caller_address(stack) \in Key
             /\ ActsFor(stack, get_immediate_caller_address(stack))
  BY <1>4
<1>5. ASSUME NEW a \in Account, NEW p \in Caller, NEW q \in Caller,
             stack = <<Session(a), StoredContract(q), StoredContract(p), StoredContract(Token)>>
      PROVE  /\ get_immediate_caller_address(stack) \in Key
             /\ ActsFor(stack, get_immediate_caller_address(stack))
  BY <1>5
<1>6. QED
  BY <1>1, <1>2, <1>3, <1>4, <1>5 DEF CallStack

\* The stack init runs on is one of the stacks of a deploy, and its signer is a key.
LEMMA InstallStack ==
  ASSUME NEW a \in Account
  PROVE  /\ <<Session(a), StoredContract(Token)>> \in CallStack
         /\ get_caller(<<Session(a), StoredContract(Token)>>) = a
         /\ a \in Key
BY DEF CallStack, Session, get_caller, Key

(***************************************************************************)
(* Type correctness                                                        *)
(***************************************************************************)

\* What holds of every call: its stack is a possible one and its caller is a key.
LEMMA RevertTyped ==
  ASSUME TypeOK, NEW stack \in CallStack, NEW entry_point, NEW error \in Cep18Error \cup {Ok},
         Revert(entry_point, stack, error)
  PROVE  TypeOK'
<1>1. DeployTypeOK'
  BY DEF Revert, DeployTypeOK, Event
<1>2. QED
  BY <1>1 DEF TypeOK, Revert, state, config

LEMMA EmitTyped ==
  ASSUME NEW stack \in CallStack, NEW entry_point, NEW event \in Event, NEW mode,
         Return(entry_point, stack, record_event_dictionary(mode, event))
  PROVE  DeployTypeOK'
<1>1. record_event_dictionary(mode, event) \in Event
  BY DEF record_event_dictionary, Event
<1>2. QED
  BY <1>1 DEF Return, DeployTypeOK

LEMMA AllowanceTyped ==
  ASSUME TypeOK, NEW owner \in Key, NEW spender \in Key, NEW amount \in U256,
         write_allowance_to(owner, spender, amount)
  PROVE  allowances' \in [Key \X Key -> U256]
BY DEF TypeOK, write_allowance_to

LEMMA SaturatingTyped ==
  ASSUME NEW a \in U256, NEW b \in U256
  PROVE  saturating_add(a, b) \in U256 /\ saturating_sub(a, b) \in U256
BY CasperAssumption DEF U256, saturating_add, saturating_sub, AddOverflows, SubUnderflows

LEMMA InstallTyped ==
  ASSUME TypeOK, Install
  PROVE  TypeOK'
<1>1. PICK caller \in Account, supply \in InstallSupplies, mode \in InstallEventsModes,
           mint_burn \in InstallMintBurn, admin_list \in InstallLists,
           minter_list \in InstallLists :
        install_contract(caller, supply, mode, mint_burn, admin_list, minter_list)
  BY DEF Install
<1> DEFINE stack == <<Session(caller), StoredContract(Token)>>
<1>2. /\ stack \in CallStack /\ get_caller(stack) = caller /\ caller \in Key
      /\ supply \in U256 /\ mint_burn \in 0..255
  BY InstallStack, CEP18Assumption
<1>3. CASE Revert("call", stack, init_events_error(mode))
  <2>1. init_events_error(mode) \in Cep18Error \cup {Ok}
    BY DEF init_events_error, Cep18Error
  <2>2. QED
    BY <1>2, <1>3, <2>1, RevertTyped
<1>4. CASE /\ init_events_error(mode) = Ok
           /\ initialized' = TRUE
           /\ events_mode' = mode
           /\ enable_mint_burn' = mint_burn
           /\ total_supply' = supply
           /\ balances' = [balances EXCEPT ![get_caller(stack)] = supply]
           /\ security_badges' = init_badges(get_caller(stack), admin_list, minter_list)
           /\ Return("call", stack,
                     record_event_dictionary(mode, Mint(get_caller(stack), supply)))
           /\ UNCHANGED allowances
  <2>1. mode \in {0, 1}
    BY <1>4 DEF init_events_error, Ok
  <2>2. balances' \in [Key -> U256]
    BY <1>2, <1>4 DEF TypeOK
  <2>3. security_badges' \in [Key -> SecurityBadge \cup {Absent}]
    BY <1>4 DEF init_badges, SecurityBadge
  <2>4. Mint(get_caller(stack), supply) \in Event
    BY <1>2 DEF Event
  <2>5. DeployTypeOK'
    BY <1>2, <1>4, <2>4, EmitTyped
  <2>6. QED
    BY <1>2, <1>4, <2>1, <2>2, <2>3, <2>5 DEF TypeOK
<1>5. QED
  BY <1>1, <1>3, <1>4 DEF install_contract

LEMMA ApproveTyped ==
  ASSUME TypeOK, NEW stack \in CallStack, NEW spender \in Key, NEW amount \in U256,
         \/ approve(stack, spender, amount)
         \/ decrease_allowance(stack, spender, amount)
         \/ increase_allowance(stack, spender, amount)
  PROVE  TypeOK'
<1> DEFINE owner == get_immediate_caller_address(stack)
<1>1. owner \in Key
  BY CallerActs
<1>2. spender_error(owner, spender) \in Cep18Error \cup {Ok}
  BY DEF spender_error, Cep18Error
<1>3. allowances[<<owner, spender>>] \in U256
  BY <1>1 DEF TypeOK
<1>4. ASSUME NEW n \in U256, NEW entry_point, NEW event \in Event,
             write_allowance_to(owner, spender, n),
             Emit(entry_point, stack, event),
             UNCHANGED <<balances, total_supply, security_badges, config>>
      PROVE  TypeOK'
  <2>1. DeployTypeOK'
    BY <1>4, EmitTyped DEF Emit
  <2>2. allowances' \in [Key \X Key -> U256]
    BY <1>1, <1>4, AllowanceTyped
  <2>3. QED
    BY <1>4, <2>1, <2>2 DEF TypeOK, config
<1>5. CASE approve(stack, spender, amount)
  <2>1. SetAllowance(owner, spender, amount) \in Event
    BY <1>1 DEF Event
  <2>2. QED
    BY <1>2, <1>4, <1>5, <2>1, RevertTyped DEF approve
<1>6. CASE decrease_allowance(stack, spender, amount)
  <2> DEFINE n == saturating_sub(allowances[<<owner, spender>>], amount)
  <2>1. n \in U256
    BY <1>3, SaturatingTyped
  <2>2. DecreaseAllowance(owner, spender, n, amount) \in Event
    BY <1>1, <2>1 DEF Event
  <2>3. QED
    BY <1>2, <1>4, <1>6, <2>1, <2>2, RevertTyped DEF decrease_allowance
<1>7. CASE increase_allowance(stack, spender, amount)
  <2> DEFINE n == saturating_add(allowances[<<owner, spender>>], amount)
  <2>1. n \in U256
    BY <1>3, SaturatingTyped
  <2>2. IncreaseAllowance(owner, spender, n, amount) \in Event
    BY <1>1, <2>1 DEF Event
  <2>3. QED
    BY <1>2, <1>4, <1>7, <2>1, <2>2, RevertTyped DEF increase_allowance
<1>8. QED
  BY <1>5, <1>6, <1>7

\* A transfer that passes its checks keeps the balances in range and their sum unchanged,
\* including the early return.
LEMMA TransferBalance ==
  ASSUME TypeOK, NEW sender \in Key, NEW recipient \in Key, NEW amount \in U256,
         transfer_balance_error(sender, recipient, amount) = Ok,
         transfer_balance(sender, recipient, amount)
  PROVE  /\ balances' \in [Key -> U256]
         /\ Cardinality(Units(balances')) = Cardinality(Units(balances))
<1>1. balances \in [Key -> U256] /\ amount \in Nat
  BY CasperAssumption DEF TypeOK, U256
<1>2. CASE sender = recipient \/ amount = 0
  <2>1. balances' = balances
    BY <1>2 DEF transfer_balance
  <2>2. QED
    BY <1>1, <2>1
<1>3. CASE sender # recipient /\ amount # 0
  <2>1. /\ amount <= balances[sender]
        /\ balances[recipient] + amount <= MaxU256
    BY <1>1, <1>3, CasperAssumption
       DEF transfer_balance_error, Ok, SubUnderflows, AddOverflows, U256
  <2>2. balances' = Moved(balances, sender, recipient, amount)
    BY <1>1, <1>3 DEF transfer_balance, Moved
  <2>3. QED
    BY <1>1, <1>3, <2>1, <2>2, UnitsMove
<1>4. QED
  BY <1>2, <1>3

LEMMA TransferTyped ==
  ASSUME TypeOK, NEW stack \in CallStack, NEW recipient \in Key, NEW amount \in U256,
         transfer(stack, recipient, amount)
  PROVE  TypeOK'
<1> DEFINE sender == get_immediate_caller_address(stack)
           error  == transfer_error(sender, recipient, amount)
<1>1. sender \in Key
  BY CallerActs
<1>2. error \in Cep18Error \cup {Ok}
  BY DEF transfer_error, transfer_balance_error, Cep18Error
<1>3. CASE Revert("transfer", stack, error)
  BY <1>2, <1>3, RevertTyped
<1>4. CASE /\ error = Ok
           /\ transfer_balance(sender, recipient, amount)
           /\ Emit("transfer", stack, Transfer(sender, recipient, amount))
           /\ UNCHANGED <<allowances, total_supply, security_badges, config>>
  <2>1. transfer_balance_error(sender, recipient, amount) = Ok
    BY <1>4 DEF transfer_error, Ok
  <2>2. Transfer(sender, recipient, amount) \in Event
    BY <1>1 DEF Event
  <2>3. DeployTypeOK'
    BY <1>4, <2>2, EmitTyped DEF Emit
  <2>4. balances' \in [Key -> U256]
    BY <1>1, <1>4, <2>1, TransferBalance
  <2>5. QED
    BY <1>4, <2>3, <2>4 DEF TypeOK, config
<1>5. QED
  BY <1>3, <1>4 DEF transfer

LEMMA TransferFromTyped ==
  ASSUME TypeOK, NEW stack \in CallStack, NEW owner \in Key, NEW recipient \in Key,
         NEW amount \in U256, transfer_from(stack, owner, recipient, amount)
  PROVE  TypeOK'
<1> DEFINE spender == get_immediate_caller_address(stack)
           error   == transfer_from_error(spender, owner, recipient, amount)
<1>1. spender \in Key
  BY CallerActs
<1>2. error \in Cep18Error \cup {Ok}
  BY DEF transfer_from_error, transfer_balance_error, Cep18Error
<1>3. CASE Revert("transfer_from", stack, error)
  BY <1>2, <1>3, RevertTyped
<1>4. CASE /\ error = Ok
           /\ amount = 0
           /\ Return("transfer_from", stack, NoEvent)
           /\ UNCHANGED state
  <2>1. DeployTypeOK'
    BY <1>4 DEF Return, DeployTypeOK, Event
  <2>2. QED
    BY <1>4, <2>1 DEF TypeOK, state, config
<1>5. CASE /\ error = Ok
           /\ amount # 0
           /\ transfer_balance(owner, recipient, amount)
           /\ write_allowance_to(owner, spender, allowances[<<owner, spender>>] - amount)
           /\ Emit("transfer_from", stack, TransferFrom(spender, owner, recipient, amount))
           /\ UNCHANGED <<total_supply, security_badges, config>>
  <2>1. /\ transfer_balance_error(owner, recipient, amount) = Ok
        /\ ~SubUnderflows(allowances[<<owner, spender>>], amount)
    BY <1>5 DEF transfer_from_error, Ok
  <2>2. TransferFrom(spender, owner, recipient, amount) \in Event
    BY <1>1 DEF Event
  <2>3. DeployTypeOK'
    BY <1>5, <2>2, EmitTyped DEF Emit
  <2>4. balances' \in [Key -> U256]
    BY <1>5, <2>1, TransferBalance
  <2>5. allowances[<<owner, spender>>] \in U256
    BY <1>1 DEF TypeOK
  <2>6. allowances[<<owner, spender>>] - amount \in U256
    BY <2>1, <2>5, CasperAssumption DEF SubUnderflows, U256
  <2>7. allowances' \in [Key \X Key -> U256]
    BY <1>1, <1>5, <2>6, AllowanceTyped
  <2>8. QED
    BY <1>5, <2>3, <2>4, <2>7 DEF TypeOK, config
<1>6. QED
  BY <1>3, <1>4, <1>5 DEF transfer_from

LEMMA MintTyped ==
  ASSUME TypeOK, NEW stack \in CallStack, NEW owner \in Key, NEW amount \in U256,
         mint(stack, owner, amount)
  PROVE  TypeOK'
<1> DEFINE error == mint_error(get_immediate_caller_address(stack), owner, amount)
<1>1. error \in Cep18Error \cup {Ok}
  BY DEF mint_error, Cep18Error
<1>2. CASE Revert("mint", stack, error)
  BY <1>1, <1>2, RevertTyped
<1>3. CASE /\ error = Ok
           /\ balances' = [balances EXCEPT ![owner] = @ + amount]
           /\ total_supply' = total_supply + amount
           /\ Emit("mint", stack, Mint(owner, amount))
           /\ UNCHANGED <<allowances, security_badges, config>>
  <2>1. ~AddOverflows(balances[owner], amount) /\ ~AddOverflows(total_supply, amount)
    BY <1>3 DEF mint_error, Ok
  <2>2. /\ balances[owner] + amount \in U256
        /\ total_supply + amount \in U256
    BY <2>1, CasperAssumption DEF TypeOK, AddOverflows, U256
  <2>3. balances' \in [Key -> U256] /\ total_supply' \in U256
    BY <1>3, <2>2 DEF TypeOK
  <2>4. Mint(owner, amount) \in Event
    BY DEF Event
  <2>5. DeployTypeOK'
    BY <1>3, <2>4, EmitTyped DEF Emit
  <2>6. QED
    BY <1>3, <2>3, <2>5 DEF TypeOK, config
<1>4. QED
  BY <1>2, <1>3 DEF mint

LEMMA BurnTyped ==
  ASSUME TypeOK, NEW stack \in CallStack, NEW owner \in Key, NEW amount \in U256,
         burn(stack, owner, amount)
  PROVE  TypeOK'
<1> DEFINE error == burn_error(get_immediate_caller_address(stack), owner, amount)
<1>1. error \in Cep18Error \cup {Ok}
  BY DEF burn_error, Cep18Error
<1>2. CASE Revert("burn", stack, error)
  BY <1>1, <1>2, RevertTyped
<1>3. CASE /\ error = Ok
           /\ balances' = [balances EXCEPT ![owner] = @ - amount]
           /\ total_supply' = total_supply - amount
           /\ Emit("burn", stack, Burn(owner, amount))
           /\ UNCHANGED <<allowances, security_badges, config>>
  <2>1. ~SubUnderflows(balances[owner], amount) /\ ~SubUnderflows(total_supply, amount)
    BY <1>3 DEF burn_error, Ok
  <2>2. /\ balances[owner] - amount \in U256
        /\ total_supply - amount \in U256
    BY <2>1, CasperAssumption DEF TypeOK, SubUnderflows, U256
  <2>3. balances' \in [Key -> U256] /\ total_supply' \in U256
    BY <1>3, <2>2 DEF TypeOK
  <2>4. Burn(owner, amount) \in Event
    BY DEF Event
  <2>5. DeployTypeOK'
    BY <1>3, <2>4, EmitTyped DEF Emit
  <2>6. QED
    BY <1>3, <2>3, <2>5 DEF TypeOK, config
<1>4. QED
  BY <1>2, <1>3 DEF burn

LEMMA ChangeSecurityTyped ==
  ASSUME TypeOK, NEW stack \in CallStack, NEW admin_list \in SUBSET Key,
         NEW minter_list \in SUBSET Key, NEW none_list \in SUBSET Key,
         change_security(stack, admin_list, minter_list, none_list)
  PROVE  TypeOK'
<1> DEFINE caller == get_immediate_caller_address(stack)
           error  == change_security_error(caller)
           map    == badge_map(caller, admin_list, minter_list, none_list)
<1>1. error \in Cep18Error \cup {Ok}
  BY DEF change_security_error, Cep18Error
<1>2. CASE Revert("change_security", stack, error)
  BY <1>1, <1>2, RevertTyped
<1>3. CASE /\ error = Ok
           /\ change_sec_badge(map)
           /\ Emit("change_security", stack, ChangeSecurity(caller, map))
           /\ UNCHANGED <<balances, allowances, total_supply, config>>
  <2>1. caller \in Key
    BY CallerActs
  <2>2. \E D \in SUBSET Key : map \in [D -> SecurityBadge]
    <3> DEFINE D == (minter_list \cup admin_list \cup none_list) \ {caller}
    <3>1. D \in SUBSET Key
      OBVIOUS
    <3>2. map \in [D -> SecurityBadge]
      BY DEF badge_map, SecurityBadge
    <3>3. QED
      BY <3>1, <3>2
  <2> HIDE DEF caller, map
  <2>3. ChangeSecurity(caller, map) \in Event
    BY <2>1, <2>2 DEF Event
  <2>4. DeployTypeOK'
    BY <1>3, <2>3, EmitTyped DEF Emit
  <2>5. security_badges' \in [Key -> SecurityBadge \cup {Absent}]
    BY <1>3, <2>2 DEF change_sec_badge, TypeOK
  <2>6. QED
    BY <1>3, <2>4, <2>5 DEF TypeOK, config
<1>4. QED
  BY <1>2, <1>3 DEF change_security

\* A call is one of the entry points with arguments of their types.
LEMMA CallCases ==
  ASSUME NEW stack \in CallStack, Call(stack)
  PROVE  \/ init(stack)
         \/ \E spender \in Key, amount \in U256 :
              \/ approve(stack, spender, amount)
              \/ decrease_allowance(stack, spender, amount)
              \/ increase_allowance(stack, spender, amount)
         \/ \E recipient \in Key, amount \in U256 : transfer(stack, recipient, amount)
         \/ \E owner \in Key, recipient \in Key, amount \in U256 :
              transfer_from(stack, owner, recipient, amount)
         \/ \E owner \in Key, amount \in U256 : mint(stack, owner, amount)
         \/ \E owner \in Key, amount \in U256 : burn(stack, owner, amount)
         \/ \E admin_list \in SUBSET Key, minter_list \in SUBSET Key, none_list \in SUBSET Key :
              change_security(stack, admin_list, minter_list, none_list)
<1>1. CallAmounts \subseteq U256 /\ BadgeLists \subseteq SUBSET Key
  BY CEP18Assumption
<1>2. QED
  BY <1>1 DEF Call

LEMMA InitTyped == Init => TypeOK
<1> SUFFICES ASSUME Init PROVE TypeOK
  OBVIOUS
<1>1. 0 \in U256
  BY CasperAssumption DEF U256
<1>2. DeployTypeOK
  BY DEF Init, DeployTypeOK, Event, Ok
<1>3. initialized \in BOOLEAN
  BY DEF Init
<1>4. balances \in [Key -> U256] /\ allowances \in [Key \X Key -> U256]
  BY <1>1 DEF Init
<1>5. security_badges \in [Key -> SecurityBadge \cup {Absent}]
  BY DEF Init
<1>6. total_supply \in U256 /\ events_mode \in {0, 1} /\ enable_mint_burn \in 0..255
  BY <1>1 DEF Init
<1>7. QED
  BY <1>2, <1>3, <1>4, <1>5, <1>6 DEF TypeOK

LEMMA NextTyped == TypeOK /\ [Next]_vars => TypeOK'
<1> SUFFICES ASSUME TypeOK, [Next]_vars PROVE TypeOK'
  OBVIOUS
<1>1. CASE Install
  BY <1>1, InstallTyped
<1>2. ASSUME NEW stack \in CallStack, Call(stack) PROVE TypeOK'
  <2>1. CASE init(stack)
    <3>1. "AlreadyInitialized" \in Cep18Error \cup {Ok}
      BY DEF Cep18Error
    <3>2. QED
      BY <2>1, <3>1, RevertTyped DEF init
  <2>2. QED
    BY <1>2, <2>1, CallCases, ApproveTyped, TransferTyped, TransferFromTyped, MintTyped,
       BurnTyped, ChangeSecurityTyped
<1>3. CASE UNCHANGED vars
  BY <1>3 DEF vars, state, config, TypeOK, DeployTypeOK
<1>4. QED
  BY <1>1, <1>2, <1>3 DEF Next

\* No counter leaves its width and no dictionary holds a malformed value, whatever is
\* deployed in whatever order.
THEOREM TypeCorrect == Spec => []TypeOK
<1>1. QED
  BY InitTyped, NextTyped, PTL DEF Spec

(***************************************************************************)
(* The supply                                                              *)
(***************************************************************************)

\* The inductive invariant: besides the equality itself, that the ledger is empty until it
\* is installed, for init overwrites the installer's balance and the supply.
SupplyInv ==
    /\ TypeOK
    /\ SupplyIsSumOfBalances
    /\ ~initialized => total_supply = 0 /\ balances = [k \in Key |-> 0]

LEMMA InitSupply == Init => SupplyInv
<1> SUFFICES ASSUME Init PROVE SupplyInv
  OBVIOUS
<1>1. Cardinality(Units(balances)) = 0
  BY UnitsEmpty DEF Init
<1>2. QED
  BY <1>1, InitTyped DEF Init, SupplyInv, SupplyIsSumOfBalances

LEMMA SupplyKept ==
  ASSUME SupplyInv, TypeOK', UNCHANGED <<balances, total_supply, initialized>>
  PROVE  SupplyInv'
BY DEF SupplyInv, SupplyIsSumOfBalances

LEMMA InstallSupply ==
  ASSUME SupplyInv, Install
  PROVE  SupplyInv'
<1>1. TypeOK'
  BY InstallTyped DEF SupplyInv
<1>2. PICK caller \in Account, supply \in InstallSupplies, mode \in InstallEventsModes,
           mint_burn \in InstallMintBurn, admin_list \in InstallLists,
           minter_list \in InstallLists :
        install_contract(caller, supply, mode, mint_burn, admin_list, minter_list)
  BY DEF Install
<1> DEFINE stack == <<Session(caller), StoredContract(Token)>>
<1>3. get_caller(stack) = caller /\ caller \in Key /\ supply \in U256
  BY InstallStack, CEP18Assumption
<1>4. CASE Revert("call", stack, init_events_error(mode))
  BY <1>1, <1>4, SupplyKept DEF Revert, state, config
<1>5. CASE ~Revert("call", stack, init_events_error(mode))
  <2>1. /\ ~initialized /\ initialized'
        /\ total_supply' = supply
        /\ balances' = [balances EXCEPT ![caller] = supply]
    BY <1>2, <1>3, <1>5 DEF install_contract
  <2>2. /\ balances \in [Key -> U256] /\ balances[caller] = 0
        /\ Cardinality(Units(balances)) = 0
    BY <1>3, <2>1, UnitsEmpty DEF SupplyInv, TypeOK
  <2>3. Cardinality(Units([balances EXCEPT ![caller] = supply]))
          = Cardinality(Units(balances)) - balances[caller] + supply
    BY <1>3, <2>2, UnitsWrite
  <2>4. supply \in Nat
    BY <1>3, CasperAssumption DEF U256
  <2>5. Cardinality(Units(balances')) = supply
    BY <2>1, <2>2, <2>3, <2>4
  <2>6. QED
    BY <1>1, <2>1, <2>5 DEF SupplyInv, SupplyIsSumOfBalances
<1>6. QED
  BY <1>4, <1>5

LEMMA TransferSupply ==
  ASSUME SupplyInv, TypeOK', NEW stack \in CallStack, NEW recipient \in Key, NEW amount \in U256,
         transfer(stack, recipient, amount), initialized
  PROVE  SupplyInv'
<1> DEFINE sender == get_immediate_caller_address(stack)
           error  == transfer_error(sender, recipient, amount)
<1>1. CASE Revert("transfer", stack, error)
  BY <1>1, SupplyKept DEF Revert, state, config
<1>2. CASE ~Revert("transfer", stack, error)
  <2>1. /\ transfer_error(sender, recipient, amount) = Ok
        /\ transfer_balance(sender, recipient, amount)
        /\ UNCHANGED <<total_supply, config>>
    BY <1>2 DEF transfer
  <2>2. transfer_balance_error(sender, recipient, amount) = Ok
    BY <2>1 DEF transfer_error, Ok
  <2>3. Cardinality(Units(balances')) = Cardinality(Units(balances))
    BY <2>1, <2>2, CallerActs, TransferBalance DEF SupplyInv
  <2>4. QED
    BY <2>1, <2>3 DEF SupplyInv, SupplyIsSumOfBalances, config
<1>3. QED
  BY <1>1, <1>2

LEMMA TransferFromSupply ==
  ASSUME SupplyInv, TypeOK', NEW stack \in CallStack, NEW owner \in Key, NEW recipient \in Key,
         NEW amount \in U256, transfer_from(stack, owner, recipient, amount), initialized
  PROVE  SupplyInv'
<1> DEFINE spender == get_immediate_caller_address(stack)
           error   == transfer_from_error(spender, owner, recipient, amount)
<1>1. CASE UNCHANGED state
  BY <1>1, SupplyKept DEF state, config
<1>2. CASE ~UNCHANGED state
  <2>1. /\ transfer_from_error(spender, owner, recipient, amount) = Ok
        /\ amount # 0
        /\ transfer_balance(owner, recipient, amount)
        /\ UNCHANGED <<total_supply, config>>
    BY <1>2 DEF transfer_from, Revert
  <2>2. transfer_balance_error(owner, recipient, amount) = Ok
    BY <2>1 DEF transfer_from_error, Ok
  <2>3. Cardinality(Units(balances')) = Cardinality(Units(balances))
    BY <2>1, <2>2, TransferBalance DEF SupplyInv
  <2>4. QED
    BY <2>1, <2>3 DEF SupplyInv, SupplyIsSumOfBalances, config
<1>3. QED
  BY <1>1, <1>2

LEMMA MintSupply ==
  ASSUME SupplyInv, TypeOK', NEW stack \in CallStack, NEW owner \in Key, NEW amount \in U256,
         mint(stack, owner, amount), initialized
  PROVE  SupplyInv'
<1> DEFINE error == mint_error(get_immediate_caller_address(stack), owner, amount)
<1>1. CASE Revert("mint", stack, error)
  BY <1>1, SupplyKept DEF Revert, state, config
<1>2. CASE ~Revert("mint", stack, error)
  <2> DEFINE n == balances[owner] + amount
  <2>1. /\ balances \in [Key -> U256] /\ total_supply \in Nat
        /\ balances[owner] \in Nat /\ amount \in Nat
    BY CasperAssumption DEF SupplyInv, TypeOK, U256
  <2>2. /\ balances' = [balances EXCEPT ![owner] = n]
        /\ total_supply' = total_supply + amount
        /\ UNCHANGED config
    BY <1>2, <2>1 DEF mint
  <2>3. n \in U256
    BY <2>1, <2>2 DEF TypeOK
  <2>4. Cardinality(Units([balances EXCEPT ![owner] = n]))
          = Cardinality(Units(balances)) - balances[owner] + n
    BY <2>1, <2>3, UnitsWrite
  <2>5. Cardinality(Units(balances')) = Cardinality(Units(balances)) + amount
    BY <2>1, <2>2, <2>4, UnitsFinite
  <2>6. QED
    BY <2>2, <2>5 DEF SupplyInv, SupplyIsSumOfBalances, config
<1>3. QED
  BY <1>1, <1>2

LEMMA BurnSupply ==
  ASSUME SupplyInv, TypeOK', NEW stack \in CallStack, NEW owner \in Key, NEW amount \in U256,
         burn(stack, owner, amount), initialized
  PROVE  SupplyInv'
<1> DEFINE error == burn_error(get_immediate_caller_address(stack), owner, amount)
<1>1. CASE Revert("burn", stack, error)
  BY <1>1, SupplyKept DEF Revert, state, config
<1>2. CASE ~Revert("burn", stack, error)
  <2> DEFINE n == balances[owner] - amount
  <2>1. /\ balances \in [Key -> U256] /\ total_supply \in Nat
        /\ balances[owner] \in Nat /\ amount \in Nat
    BY CasperAssumption DEF SupplyInv, TypeOK, U256
  <2>2. /\ balances' = [balances EXCEPT ![owner] = n]
        /\ total_supply' = total_supply - amount
        /\ UNCHANGED config
    BY <1>2, <2>1 DEF burn
  <2>3. n \in U256
    BY <2>1, <2>2 DEF TypeOK
  <2>4. Cardinality(Units([balances EXCEPT ![owner] = n]))
          = Cardinality(Units(balances)) - balances[owner] + n
    BY <2>1, <2>3, UnitsWrite
  <2>5. Cardinality(Units(balances')) = Cardinality(Units(balances)) - amount
    BY <2>1, <2>2, <2>4, UnitsFinite
  <2>6. QED
    BY <2>2, <2>5 DEF SupplyInv, SupplyIsSumOfBalances, config
<1>3. QED
  BY <1>1, <1>2

LEMMA NextSupply == SupplyInv /\ [Next]_vars => SupplyInv'
<1> SUFFICES ASSUME SupplyInv, [Next]_vars PROVE SupplyInv'
  OBVIOUS
<1>1. TypeOK'
  BY NextTyped DEF SupplyInv
<1>2. CASE Install
  BY <1>2, InstallSupply
<1>3. ASSUME NEW stack \in CallStack, initialized, Call(stack) PROVE SupplyInv'
  <2>1. ASSUME init(stack) PROVE SupplyInv'
    BY <1>1, <2>1, SupplyKept DEF init, Revert, state, config
  <2>2. ASSUME NEW spender \in Key, NEW amount \in U256,
               \/ approve(stack, spender, amount)
               \/ decrease_allowance(stack, spender, amount)
               \/ increase_allowance(stack, spender, amount)
        PROVE  SupplyInv'
    <3>1. UNCHANGED <<balances, total_supply, initialized>>
      BY <2>2 DEF approve, decrease_allowance, increase_allowance, Revert, state, config
    <3>2. QED
      BY <1>1, <3>1, SupplyKept
  <2>3. ASSUME NEW admin_list \in SUBSET Key, NEW minter_list \in SUBSET Key,
               NEW none_list \in SUBSET Key,
               change_security(stack, admin_list, minter_list, none_list)
        PROVE  SupplyInv'
    <3>1. UNCHANGED <<balances, total_supply, initialized>>
      BY <2>3 DEF change_security, Revert, state, config
    <3>2. QED
      BY <1>1, <3>1, SupplyKept
  <2>4. QED
    BY <1>1, <1>3, <2>1, <2>2, <2>3, CallCases, TransferSupply, TransferFromSupply,
       MintSupply, BurnSupply
<1>4. CASE UNCHANGED vars
  BY <1>1, <1>4, SupplyKept DEF vars, state, config
<1>5. QED
  BY <1>2, <1>3, <1>4 DEF Next

\* mint, burn and the transfers keep the separately stored total_supply equal to the sum of
\* the balances.
THEOREM SupplyCorrect == Spec => []SupplyIsSumOfBalances
<1>1. SupplyInv => SupplyIsSumOfBalances
  BY DEF SupplyInv
<1>2. QED
  BY <1>1, InitSupply, NextSupply, PTL DEF Spec

-----------------------------------------------------------------------------
(***************************************************************************)
(* Who may change what: the steps of the contract                          *)
(***************************************************************************)
\* Every step of an installed contract, for the action properties below.
LEMMA SupplyInvariant == Spec => []SupplyInv
<1>1. QED
  BY InitSupply, NextSupply, PTL DEF Spec

(***************************************************************************)
(* Overflow                                                                *)
(***************************************************************************)

\* Two keys cannot hold more together than exists, so a recipient's balance never overflows.
LEMMA NoTransferOverflow ==
  ASSUME SupplyInv, NEW sender \in Key, NEW recipient \in Key, NEW amount \in U256
  PROVE  transfer_balance_error(sender, recipient, amount) # "Overflow"
<1>1. /\ balances \in [Key -> U256] /\ total_supply <= MaxU256
      /\ balances[sender] \in Nat /\ balances[recipient] \in Nat /\ amount \in Nat
      /\ total_supply \in Nat /\ MaxU256 \in Nat
  BY CasperAssumption DEF SupplyInv, TypeOK, U256
<1>2. sender # recipient => balances[sender] + balances[recipient] <= total_supply
  BY <1>1, UnitsBound DEF SupplyInv, SupplyIsSumOfBalances
<1>3. QED
  BY <1>1, <1>2 DEF transfer_balance_error, Ok, SubUnderflows, AddOverflows

\* Nor does the supply fall below what is burnt.
LEMMA NoBurnOverflow ==
  ASSUME SupplyInv, NEW caller, NEW owner \in Key, NEW amount \in U256
  PROVE  burn_error(caller, owner, amount) # "Overflow"
<1>1. /\ balances \in [Key -> U256]
      /\ balances[owner] \in Nat /\ amount \in Nat /\ total_supply \in Nat
  BY CasperAssumption DEF SupplyInv, TypeOK, U256
<1>2. balances[owner] <= total_supply
  BY <1>1, UnitsBound DEF SupplyInv, SupplyIsSumOfBalances
<1>3. QED
  BY <1>1, <1>2 DEF burn_error, Ok, SubUnderflows

LEMMA NextOverflow ==
  ASSUME SupplyInv, Next, deploy'.error = "Overflow"
  PROVE  deploy'.entry_point = "mint"
<1>1. ~Install
  <2>1. SUFFICES ASSUME NEW caller \in Account, NEW supply, NEW mode, NEW mint_burn,
                        NEW admin_list, NEW minter_list,
                        install_contract(caller, supply, mode, mint_burn, admin_list, minter_list)
                 PROVE  FALSE
    BY DEF Install
  <2>2. CASE init_events_error(mode) = Ok
    BY <2>1, <2>2 DEF install_contract, Revert, Return, Ok
  <2>3. CASE init_events_error(mode) = "InvalidEventsMode"
    BY <2>1, <2>3 DEF install_contract, Revert, Ok
  <2>4. QED
    BY <2>2, <2>3 DEF init_events_error
<1>2. PICK stack \in CallStack : Call(stack)
  BY <1>1 DEF Next
<1>3. get_immediate_caller_address(stack) \in Key
  BY CallerActs
<1>4. ASSUME init(stack) PROVE FALSE
  BY <1>4 DEF init, Revert
<1>5. ASSUME NEW spender \in Key, NEW amount \in U256,
             \/ approve(stack, spender, amount)
             \/ decrease_allowance(stack, spender, amount)
             \/ increase_allowance(stack, spender, amount)
      PROVE  FALSE
  BY <1>5 DEF approve, decrease_allowance, increase_allowance, spender_error, Revert, Emit,
              Return, Ok
<1>6. ASSUME NEW recipient \in Key, NEW amount \in U256, transfer(stack, recipient, amount)
      PROVE  FALSE
  BY <1>3, <1>6, NoTransferOverflow DEF transfer, transfer_error, Revert, Emit, Return, Ok
<1>7. ASSUME NEW owner \in Key, NEW recipient \in Key, NEW amount \in U256,
             transfer_from(stack, owner, recipient, amount)
      PROVE  FALSE
  BY <1>7, NoTransferOverflow
     DEF transfer_from, transfer_from_error, Revert, Emit, Return, Ok
<1>8. ASSUME NEW owner \in Key, NEW amount \in U256, burn(stack, owner, amount)
      PROVE  FALSE
  BY <1>8, NoBurnOverflow DEF burn, Revert, Emit, Return, Ok
<1>9. ASSUME NEW admin_list \in SUBSET Key, NEW minter_list \in SUBSET Key,
             NEW none_list \in SUBSET Key,
             change_security(stack, admin_list, minter_list, none_list)
      PROVE  FALSE
  BY <1>9 DEF change_security, change_security_error, Revert, Emit, Return, Ok
<1>10. ASSUME NEW owner \in Key, NEW amount \in U256, mint(stack, owner, amount)
       PROVE  deploy'.entry_point = "mint"
  BY <1>10 DEF mint, Revert, Emit, Return
<1>11. QED
  BY <1>2, <1>4, <1>5, <1>6, <1>7, <1>8, <1>9, <1>10, CallCases

\* Only mint can answer Overflow: in transfer, transfer_from and burn the check cannot fail.
THEOREM OverflowOnlyInMint == Spec => OnlyMintOverflows
<1>1. SupplyInv /\ [Next]_vars
        => [deploy'.error = "Overflow" => deploy'.entry_point = "mint"]_vars
  BY NextOverflow
<1>2. QED
  BY <1>1, SupplyInvariant, PTL DEF Spec, OnlyMintOverflows

(***************************************************************************)
(* Allowances from oneself                                                 *)
(***************************************************************************)

SelfInv == TypeOK /\ NoSelfAllowance

LEMMA SelfKept ==
  ASSUME SelfInv, TypeOK', NEW owner \in Key, NEW spender \in Key, NEW amount,
         write_allowance_to(owner, spender, amount), spender # owner
  PROVE  SelfInv'
BY DEF SelfInv, NoSelfAllowance, TypeOK, write_allowance_to

LEMMA NextSelf == SelfInv /\ [Next]_vars => SelfInv'
<1> SUFFICES ASSUME SelfInv, [Next]_vars PROVE SelfInv'
  OBVIOUS
<1>1. TypeOK'
  BY NextTyped DEF SelfInv
<1>2. ASSUME UNCHANGED allowances PROVE SelfInv'
  BY <1>1, <1>2 DEF SelfInv, NoSelfAllowance
<1>3. CASE Install
  BY <1>2, <1>3 DEF Install, install_contract, Revert, state
<1>4. ASSUME NEW stack \in CallStack, Call(stack) PROVE SelfInv'
  <2> DEFINE caller == get_immediate_caller_address(stack)
  <2>1. caller \in Key
    BY CallerActs
  <2>2. ASSUME NEW spender \in Key, NEW amount \in U256,
               \/ approve(stack, spender, amount)
               \/ decrease_allowance(stack, spender, amount)
               \/ increase_allowance(stack, spender, amount)
        PROVE  SelfInv'
    <3>1. CASE UNCHANGED allowances
      BY <1>2, <3>1
    <3>2. CASE ~UNCHANGED allowances
      <4>1. spender # caller
        BY <2>2, <3>2 DEF approve, decrease_allowance, increase_allowance, spender_error,
                          Revert, state, Ok
      <4>2. \E n : write_allowance_to(caller, spender, n)
        BY <2>2, <3>2 DEF approve, decrease_allowance, increase_allowance, Revert, state
      <4>3. QED
        BY <1>1, <2>1, <4>1, <4>2, SelfKept
    <3>3. QED
      BY <3>1, <3>2
  <2>3. ASSUME NEW owner \in Key, NEW recipient \in Key, NEW amount \in U256,
               transfer_from(stack, owner, recipient, amount)
        PROVE  SelfInv'
    <3>1. CASE UNCHANGED allowances
      BY <1>2, <3>1
    <3>2. CASE ~UNCHANGED allowances
      <4>1. /\ transfer_from_error(caller, owner, recipient, amount) = Ok
            /\ amount # 0
            /\ write_allowance_to(owner, caller, allowances[<<owner, caller>>] - amount)
        BY <2>3, <3>2 DEF transfer_from, Revert, state
      <4>2. ~SubUnderflows(allowances[<<owner, caller>>], amount)
        BY <4>1 DEF transfer_from_error, Ok
      <4>3. owner # caller
        BY <4>1, <4>2, CasperAssumption DEF SelfInv, NoSelfAllowance, SubUnderflows, U256
      <4>4. QED
        BY <1>1, <2>1, <4>1, <4>3, SelfKept
    <3>3. QED
      BY <3>1, <3>2
  <2>4. ASSUME NEW recipient \in Key, NEW amount \in U256, transfer(stack, recipient, amount)
        PROVE  SelfInv'
    BY <1>2, <2>4 DEF transfer, Revert, state
  <2>5. ASSUME NEW owner \in Key, NEW amount \in U256,
               mint(stack, owner, amount) \/ burn(stack, owner, amount)
        PROVE  SelfInv'
    BY <1>2, <2>5 DEF mint, burn, Revert, state
  <2>6. ASSUME NEW admin_list \in SUBSET Key, NEW minter_list \in SUBSET Key,
               NEW none_list \in SUBSET Key,
               change_security(stack, admin_list, minter_list, none_list)
        PROVE  SelfInv'
    BY <1>2, <2>6 DEF change_security, Revert, state
  <2>7. ASSUME init(stack) PROVE SelfInv'
    BY <1>2, <2>7 DEF init, Revert, state
  <2>8. QED
    BY <1>4, <2>2, <2>3, <2>4, <2>5, <2>6, <2>7, CallCases
<1>5. CASE UNCHANGED vars
  BY <1>2, <1>5 DEF vars, state
<1>6. QED
  BY <1>3, <1>4, <1>5 DEF Next

\* No key is ever its own spender.
THEOREM NoSelfSpender == Spec => []NoSelfAllowance
<1>1. Init => SelfInv
  <2>1. Init => NoSelfAllowance
    BY DEF Init, NoSelfAllowance
  <2>2. QED
    BY <2>1, InitTyped DEF SelfInv
<1>2. SelfInv => NoSelfAllowance
  BY DEF SelfInv
<1>3. QED
  BY <1>1, <1>2, NextSelf, PTL DEF Spec

(***************************************************************************)
(* Who may move tokens and spend allowances                                *)
(***************************************************************************)

\* What a transfer does to the balance of each key.
LEMMA TransferEffect ==
  ASSUME TypeOK, NEW sender \in Key, NEW recipient \in Key, NEW amount \in U256,
         sender # recipient, transfer_balance(sender, recipient, amount)
  PROVE  \A k \in Key : balances'[k] = IF k = sender THEN balances[k] - amount
                                       ELSE IF k = recipient THEN balances[k] + amount
                                       ELSE balances[k]
<1>1. /\ balances \in [Key -> U256] /\ amount \in Nat
      /\ \A k \in Key : balances[k] \in Nat
  BY CasperAssumption DEF TypeOK, U256
<1>2. CASE amount = 0
  BY <1>1, <1>2 DEF transfer_balance
<1>3. CASE amount # 0
  <2>1. balances' = [balances EXCEPT ![sender] = balances[sender] - amount,
                                     ![recipient] = balances[recipient] + amount]
    BY <1>1, <1>3 DEF transfer_balance
  <2>2. QED
    BY <1>1, <2>1
<1>4. QED
  BY <1>2, <1>3

\* The two action properties, as statements about one step.
Spent(k) ==
    balances'[k] < balances[k] =>
        \/ ActsFor(deploy'.stack, k)
        \/ \E s \in Key :
              /\ ActsFor(deploy'.stack, s)
              /\ allowances[<<k, s>>] - allowances'[<<k, s>>] = balances[k] - balances'[k]

Granted(o, s) ==
    allowances'[<<o, s>>] # allowances[<<o, s>>] =>
        \/ ActsFor(deploy'.stack, o)
        \/ /\ ActsFor(deploy'.stack, s)
           /\ allowances'[<<o, s>>] < allowances[<<o, s>>]
           /\ allowances[<<o, s>>] - allowances'[<<o, s>>] = balances[o] - balances'[o]

Accounted == (\A k \in Key : Spent(k)) /\ (\A o, s \in Key : Granted(o, s))

LEMMA StateKept ==
  ASSUME SupplyInv, UNCHANGED <<balances, allowances>>
  PROVE  Accounted
<1>1. \A k \in Key : balances[k] \in Nat
  BY CasperAssumption DEF SupplyInv, TypeOK, U256
<1>2. QED
  BY <1>1 DEF Accounted, Spent, Granted

LEMMA InstallAccounted ==
  ASSUME SupplyInv, Install
  PROVE  Accounted
<1>1. PICK caller \in Account, supply \in InstallSupplies, mode \in InstallEventsModes,
           mint_burn \in InstallMintBurn, admin_list \in InstallLists,
           minter_list \in InstallLists :
        install_contract(caller, supply, mode, mint_burn, admin_list, minter_list)
  BY DEF Install
<1>2. CASE UNCHANGED <<balances, allowances>>
  BY <1>2, StateKept
<1>3. CASE ~UNCHANGED <<balances, allowances>>
  <2>1. /\ ~initialized /\ UNCHANGED allowances
        /\ balances' = [balances EXCEPT ![get_caller(<<Session(caller), StoredContract(Token)>>)]
                                          = supply]
    BY <1>1, <1>3 DEF install_contract, Revert, state
  <2>2. \A k \in Key : balances[k] = 0 /\ (balances'[k] = 0 \/ balances'[k] = supply)
    BY <2>1 DEF SupplyInv
  <2>3. supply \in Nat
    BY CEP18Assumption, CasperAssumption DEF U256
  <2>4. QED
    BY <2>1, <2>2, <2>3 DEF Accounted, Spent, Granted
<1>4. QED
  BY <1>2, <1>3

LEMMA ApproveAccounted ==
  ASSUME SupplyInv, NEW stack \in CallStack, NEW spender \in Key, NEW amount \in U256,
         \/ approve(stack, spender, amount)
         \/ decrease_allowance(stack, spender, amount)
         \/ increase_allowance(stack, spender, amount)
  PROVE  Accounted
<1> DEFINE owner == get_immediate_caller_address(stack)
<1>1. owner \in Key /\ ActsFor(stack, owner)
  BY CallerActs
<1>2. CASE UNCHANGED <<balances, allowances>>
  BY <1>2, StateKept
<1>3. CASE ~UNCHANGED <<balances, allowances>>
  <2>1. /\ deploy'.stack = stack
        /\ UNCHANGED balances
        /\ \E n : write_allowance_to(owner, spender, n)
    BY <1>3 DEF approve, decrease_allowance, increase_allowance, Revert, Emit, Return, state
  <2>2. \A o, s \in Key : allowances'[<<o, s>>] # allowances[<<o, s>>] => o = owner
    BY <2>1 DEF SupplyInv, TypeOK, write_allowance_to
  <2>3. \A k \in Key : ~(balances'[k] < balances[k])
    BY <2>1, CasperAssumption DEF SupplyInv, TypeOK, U256
  <2>4. QED
    BY <1>1, <2>1, <2>2, <2>3 DEF Accounted, Spent, Granted
<1>4. QED
  BY <1>2, <1>3

LEMMA TransferAccounted ==
  ASSUME SupplyInv, NEW stack \in CallStack, NEW recipient \in Key, NEW amount \in U256,
         transfer(stack, recipient, amount)
  PROVE  Accounted
<1> DEFINE sender == get_immediate_caller_address(stack)
<1>1. sender \in Key /\ ActsFor(stack, sender)
  BY CallerActs
<1>2. CASE UNCHANGED <<balances, allowances>>
  BY <1>2, StateKept
<1>3. CASE ~UNCHANGED <<balances, allowances>>
  <2>1. /\ deploy'.stack = stack
        /\ UNCHANGED allowances
        /\ sender # recipient
        /\ transfer_balance(sender, recipient, amount)
    BY <1>3 DEF transfer, transfer_error, Revert, Emit, Return, state, Ok
  <2>2. \A k \in Key : balances'[k] < balances[k] => k = sender
    <3>1. \A k \in Key : balances[k] \in Nat /\ amount \in Nat
      BY CasperAssumption DEF SupplyInv, TypeOK, U256
    <3>2. QED
      BY <1>1, <2>1, <3>1, TransferEffect DEF SupplyInv
  <2>3. QED
    BY <1>1, <2>1, <2>2 DEF Accounted, Spent, Granted
<1>4. QED
  BY <1>2, <1>3

LEMMA TransferFromAccounted ==
  ASSUME SupplyInv, NEW stack \in CallStack, NEW owner \in Key, NEW recipient \in Key,
         NEW amount \in U256, transfer_from(stack, owner, recipient, amount)
  PROVE  Accounted
<1> DEFINE spender == get_immediate_caller_address(stack)
           granted == allowances[<<owner, spender>>]
<1>1. spender \in Key /\ ActsFor(stack, spender)
  BY CallerActs
<1>2. CASE UNCHANGED <<balances, allowances>>
  BY <1>2, StateKept
<1>3. CASE ~UNCHANGED <<balances, allowances>>
  <2>1. /\ deploy'.stack = stack
        /\ owner # recipient /\ amount # 0
        /\ transfer_balance(owner, recipient, amount)
        /\ write_allowance_to(owner, spender, granted - amount)
    BY <1>3 DEF transfer_from, transfer_from_error, Revert, Emit, Return, state, Ok
  <2>2. /\ \A k \in Key : balances[k] \in Nat
        /\ amount \in Nat /\ granted \in Nat
        /\ allowances \in [Key \X Key -> U256]
    BY <1>1, CasperAssumption DEF SupplyInv, TypeOK, U256
  <2>3. /\ balances'[owner] = balances[owner] - amount
        /\ \A k \in Key : balances'[k] < balances[k] => k = owner
    BY <2>1, <2>2, TransferEffect DEF SupplyInv
  <2>4. /\ allowances'[<<owner, spender>>] = granted - amount
        /\ \A o, s \in Key : allowances'[<<o, s>>] # allowances[<<o, s>>]
                               => o = owner /\ s = spender
    BY <1>1, <2>1, <2>2 DEF write_allowance_to
  <2>5. granted - (granted - amount) = balances[owner] - (balances[owner] - amount)
        /\ granted - amount < granted
    BY <2>1, <2>2
  <2>6. QED
    BY <1>1, <2>1, <2>3, <2>4, <2>5 DEF Accounted, Spent, Granted
<1>4. QED
  BY <1>2, <1>3

LEMMA MintBurnAccounted ==
  ASSUME SupplyInv, NEW stack \in CallStack, NEW owner \in Key, NEW amount \in U256,
         mint(stack, owner, amount) \/ burn(stack, owner, amount)
  PROVE  Accounted
<1>1. /\ balances \in [Key -> U256] /\ amount \in Nat
      /\ \A k \in Key : balances[k] \in Nat
  BY CasperAssumption DEF SupplyInv, TypeOK, U256
<1>2. CASE UNCHANGED <<balances, allowances>>
  BY <1>2, StateKept
<1>3. CASE mint(stack, owner, amount) /\ ~UNCHANGED <<balances, allowances>>
  <2>1. UNCHANGED allowances /\ balances' = [balances EXCEPT ![owner] = @ + amount]
    BY <1>3 DEF mint, Revert, state
  <2>2. \A k \in Key : ~(balances'[k] < balances[k])
    BY <1>1, <2>1
  <2>3. QED
    BY <2>1, <2>2 DEF Accounted, Spent, Granted
<1>4. CASE burn(stack, owner, amount) /\ ~UNCHANGED <<balances, allowances>>
  <2>1. /\ deploy'.stack = stack
        /\ owner = get_immediate_caller_address(stack)
        /\ UNCHANGED allowances
        /\ balances' = [balances EXCEPT ![owner] = @ - amount]
    BY <1>4 DEF burn, burn_error, Revert, Emit, Return, state, Ok
  <2>2. \A k \in Key : balances'[k] < balances[k] => k = owner
    BY <1>1, <2>1
  <2>3. ActsFor(stack, owner)
    BY <2>1, CallerActs
  <2>4. QED
    BY <2>1, <2>2, <2>3 DEF Accounted, Spent, Granted
<1>5. QED
  BY <1>2, <1>3, <1>4

LEMMA NextAccounted ==
  ASSUME SupplyInv, Next
  PROVE  Accounted
<1>1. CASE Install
  BY <1>1, InstallAccounted
<1>2. ASSUME NEW stack \in CallStack, Call(stack) PROVE Accounted
  <2>1. ASSUME init(stack) PROVE Accounted
    BY <2>1, StateKept DEF init, Revert, state
  <2>2. ASSUME NEW admin_list \in SUBSET Key, NEW minter_list \in SUBSET Key,
               NEW none_list \in SUBSET Key,
               change_security(stack, admin_list, minter_list, none_list)
        PROVE  Accounted
    BY <2>2, StateKept DEF change_security, Revert, state
  <2>3. QED
    BY <1>2, <2>1, <2>2, CallCases, ApproveAccounted, TransferAccounted,
       TransferFromAccounted, MintBurnAccounted
<1>3. QED
  BY <1>1, <1>2 DEF Next

\* Nobody acts for a user in the middle of a call stack: tokens leave a key only in its own
\* call or against an allowance of the caller.
THEOREM NoMiddlemanActs == Spec => NoMiddleman
<1>1. SupplyInv /\ [Next]_vars => [\A k \in Key : Spent(k)]_vars
  BY NextAccounted DEF Accounted
<1>2. QED
  BY <1>1, SupplyInvariant, PTL DEF Spec, NoMiddleman, Spent

\* An allowance changes only by its owner's grant or by being spent.
THEOREM AllowancesAccounted == Spec => AllowanceOnlyGrantedOrSpent
<1>1. SupplyInv /\ [Next]_vars => [\A o, s \in Key : Granted(o, s)]_vars
  BY NextAccounted DEF Accounted
<1>2. QED
  BY <1>1, SupplyInvariant, PTL DEF Spec, AllowanceOnlyGrantedOrSpent, Granted

(***************************************************************************)
(* Badges and the supply: the calls that read or write security badges.    *)
(***************************************************************************)
\* The badges are empty until installation writes them all.
RightsInv == TypeOK /\ (~initialized => security_badges = [k \in Key |-> Absent])

\* The three action properties, as statements about one step.
AdminKept ==
    (\E k \in Key : security_badges[k] = "Admin")
        => \E k \in Key : security_badges'[k] = "Admin"

ChangedByOther(k) ==
    initialized /\ security_badges'[k] # security_badges[k] =>
        \E admin \in Key \ {k} : /\ ActsFor(deploy'.stack, admin)
                                 /\ security_badges[admin] = "Admin"

SupplyAuthorised ==
    initialized /\ total_supply' # total_supply =>
        /\ enable_mint_burn # 0
        /\ \E k \in Key :
              /\ ActsFor(deploy'.stack, k)
              /\ \/ total_supply' > total_supply /\ security_badges[k] \in {"Admin", "Minter"}
                 \/ total_supply - total_supply' = balances[k] - balances'[k]

Rightful == AdminKept /\ (\A k \in Key : ChangedByOther(k)) /\ SupplyAuthorised

\* What every step does to the rights.
RightsStep == RightsInv' /\ Rightful

LEMMA RightsKept ==
  ASSUME RightsInv, TypeOK', UNCHANGED <<security_badges, initialized, total_supply>>
  PROVE  RightsStep
<1>1. RightsInv'
  BY DEF RightsInv
<1>2. AdminKept /\ SupplyAuthorised /\ \A k \in Key : ChangedByOther(k)
  BY DEF AdminKept, SupplyAuthorised, ChangedByOther
<1>3. QED
  BY <1>1, <1>2 DEF RightsStep, Rightful

LEMMA InstallRights ==
  ASSUME RightsInv, TypeOK', Install
  PROVE  RightsStep
<1>1. PICK caller \in Account, supply \in InstallSupplies, mode \in InstallEventsModes,
           mint_burn \in InstallMintBurn, admin_list \in InstallLists,
           minter_list \in InstallLists :
        install_contract(caller, supply, mode, mint_burn, admin_list, minter_list)
  BY DEF Install
<1>2. CASE UNCHANGED state
  BY <1>2, RightsKept DEF state, config
<1>3. CASE ~UNCHANGED state
  <2>1. ~initialized /\ initialized'
    BY <1>1, <1>3 DEF install_contract, Revert
  <2>2. ~\E k \in Key : security_badges[k] = "Admin"
    BY <2>1 DEF RightsInv, Absent
  <2>3. AdminKept /\ SupplyAuthorised /\ \A k \in Key : ChangedByOther(k)
    BY <2>1, <2>2 DEF AdminKept, SupplyAuthorised, ChangedByOther
  <2>4. RightsInv'
    BY <2>1 DEF RightsInv
  <2>5. QED
    BY <2>3, <2>4 DEF RightsStep, Rightful
<1>4. QED
  BY <1>2, <1>3

LEMMA MintRights ==
  ASSUME RightsInv, TypeOK', NEW stack \in CallStack, NEW owner \in Key, NEW amount \in U256,
         mint(stack, owner, amount)
  PROVE  RightsStep
<1> DEFINE caller == get_immediate_caller_address(stack)
<1>1. caller \in Key /\ ActsFor(stack, caller)
  BY CallerActs
<1>2. CASE UNCHANGED state
  BY <1>2, RightsKept DEF state, config
<1>3. CASE ~UNCHANGED state
  <2>1. /\ mint_error(caller, owner, amount) = Ok
        /\ total_supply' = total_supply + amount
        /\ deploy'.stack = stack
        /\ UNCHANGED <<security_badges, initialized>>
    BY <1>3 DEF mint, Revert, Emit, Return, config
  <2>2. enable_mint_burn # 0 /\ security_badges[caller] \in {"Admin", "Minter"}
    BY <2>1 DEF mint_error, sec_check, Ok
  <2>3. total_supply' # total_supply => total_supply' > total_supply
    BY <2>1, CasperAssumption DEF RightsInv, TypeOK, U256
  <2>4. SupplyAuthorised
    BY <1>1, <2>1, <2>2, <2>3 DEF SupplyAuthorised
  <2>5. AdminKept /\ \A k \in Key : ChangedByOther(k)
    BY <2>1 DEF AdminKept, ChangedByOther
  <2>6. RightsInv'
    BY <2>1 DEF RightsInv
  <2>7. QED
    BY <2>4, <2>5, <2>6 DEF RightsStep, Rightful
<1>4. QED
  BY <1>2, <1>3

LEMMA BurnRights ==
  ASSUME RightsInv, TypeOK', NEW stack \in CallStack, NEW owner \in Key, NEW amount \in U256,
         burn(stack, owner, amount)
  PROVE  RightsStep
<1> DEFINE caller == get_immediate_caller_address(stack)
<1>1. caller \in Key /\ ActsFor(stack, caller)
  BY CallerActs
<1>2. CASE UNCHANGED state
  BY <1>2, RightsKept DEF state, config
<1>3. CASE ~UNCHANGED state
  <2>1. /\ burn_error(caller, owner, amount) = Ok
        /\ total_supply' = total_supply - amount
        /\ balances' = [balances EXCEPT ![owner] = @ - amount]
        /\ deploy'.stack = stack
        /\ UNCHANGED <<security_badges, initialized>>
    BY <1>3 DEF burn, Revert, Emit, Return, config
  <2>2. enable_mint_burn # 0 /\ owner = caller
    BY <2>1 DEF burn_error, Ok
  <2>3. total_supply - total_supply' = balances[owner] - balances'[owner]
    <3>1. /\ balances \in [Key -> U256] /\ balances[owner] \in Nat
          /\ amount \in Nat /\ total_supply \in Nat
      BY CasperAssumption DEF RightsInv, TypeOK, U256
    <3>2. balances'[owner] = balances[owner] - amount
      BY <2>1, <3>1
    <3>3. QED
      BY <2>1, <3>1, <3>2
  <2>4. SupplyAuthorised
    BY <1>1, <2>1, <2>2, <2>3 DEF SupplyAuthorised
  <2>5. AdminKept /\ \A k \in Key : ChangedByOther(k)
    BY <2>1 DEF AdminKept, ChangedByOther
  <2>6. RightsInv'
    BY <2>1 DEF RightsInv
  <2>7. QED
    BY <2>4, <2>5, <2>6 DEF RightsStep, Rightful
<1>4. QED
  BY <1>2, <1>3

\* The Admin that changes badges is left out of the map, and so stays Admin.
LEMMA ChangeSecurityRights ==
  ASSUME RightsInv, TypeOK', NEW stack \in CallStack, NEW admin_list \in SUBSET Key,
         NEW minter_list \in SUBSET Key, NEW none_list \in SUBSET Key,
         change_security(stack, admin_list, minter_list, none_list)
  PROVE  RightsStep
<1> DEFINE caller == get_immediate_caller_address(stack)
           map    == badge_map(caller, admin_list, minter_list, none_list)
<1>1. caller \in Key /\ ActsFor(stack, caller)
  BY CallerActs
<1>2. CASE UNCHANGED state
  BY <1>2, RightsKept DEF state, config
<1>3. CASE ~UNCHANGED state
  <2>1. /\ change_security_error(caller) = Ok
        /\ change_sec_badge(map)
        /\ deploy'.stack = stack
        /\ UNCHANGED <<total_supply, initialized>>
    BY <1>3 DEF change_security, Revert, Emit, Return, config
  <2>2. enable_mint_burn # 0 /\ security_badges[caller] = "Admin"
    BY <2>1 DEF change_security_error, sec_check, Ok
  <2>3. caller \notin DOMAIN map
    BY DEF badge_map
  <2>4. security_badges'[caller] = security_badges[caller]
    BY <1>1, <2>1, <2>3 DEF change_sec_badge
  <2>5. AdminKept
    BY <1>1, <2>2, <2>4 DEF AdminKept
  <2>6. ASSUME NEW k \in Key PROVE ChangedByOther(k)
    BY <1>1, <2>1, <2>2, <2>4 DEF ChangedByOther
  <2>7. SupplyAuthorised
    BY <2>1 DEF SupplyAuthorised
  <2>8. initialized
    BY <2>2, <1>1 DEF RightsInv, Absent
  <2>9. RightsInv'
    BY <2>1, <2>8 DEF RightsInv
  <2>10. QED
    BY <2>5, <2>6, <2>7, <2>9 DEF RightsStep, Rightful
<1>4. QED
  BY <1>2, <1>3

LEMMA NextRights == RightsInv /\ Next => RightsStep
<1> SUFFICES ASSUME RightsInv, Next PROVE RightsStep
  OBVIOUS
<1>1. TypeOK'
  BY NextTyped DEF RightsInv
<1>2. CASE Install
  BY <1>1, <1>2, InstallRights
<1>3. ASSUME NEW stack \in CallStack, Call(stack) PROVE RightsStep
  <2>1. ASSUME UNCHANGED <<security_badges, config, total_supply>> PROVE RightsStep
    BY <1>1, <2>1, RightsKept DEF config
  <2>2. CASE init(stack)
    BY <2>1, <2>2 DEF init, Revert, state
  <2>3. ASSUME NEW spender \in Key, NEW amount \in U256,
               \/ approve(stack, spender, amount)
               \/ decrease_allowance(stack, spender, amount)
               \/ increase_allowance(stack, spender, amount)
        PROVE  RightsStep
    BY <2>1, <2>3 DEF approve, decrease_allowance, increase_allowance, Revert, state
  <2>4. ASSUME NEW recipient \in Key, NEW amount \in U256, transfer(stack, recipient, amount)
        PROVE  RightsStep
    BY <2>1, <2>4 DEF transfer, Revert, state
  <2>5. ASSUME NEW owner \in Key, NEW recipient \in Key, NEW amount \in U256,
               transfer_from(stack, owner, recipient, amount)
        PROVE  RightsStep
    BY <2>1, <2>5 DEF transfer_from, Revert, state
  <2>6. QED
    BY <1>1, <1>3, <2>2, <2>3, <2>4, <2>5, CallCases, MintRights, BurnRights,
       ChangeSecurityRights
<1>4. QED
  BY <1>2, <1>3 DEF Next

LEMMA StepRights == RightsInv /\ [Next]_vars => RightsInv' /\ [Rightful]_vars
<1>1. RightsInv /\ Next => RightsInv' /\ Rightful
  BY NextRights DEF RightsStep
<1>2. RightsInv /\ UNCHANGED vars => RightsInv'
  BY DEF RightsInv, TypeOK, DeployTypeOK, vars, state, config
<1>3. QED
  BY <1>1, <1>2

LEMMA InitRights == Init => RightsInv
BY InitTyped DEF Init, RightsInv

LEMMA AlwaysRightful == Spec => [][Rightful]_vars
BY InitRights, StepRights, PTL DEF Spec

\* Once there is an Admin there is one for ever.
THEOREM AdminsRemain == Spec => AdminRemains
<1>1. [Rightful]_vars => [AdminKept]_vars
  BY DEF Rightful
<1>2. QED
  BY <1>1, AlwaysRightful, PTL DEF AdminRemains, AdminKept

\* After installation a badge changes only in a call of an Admin, and never that Admin's own.
THEOREM BadgesChangedByOthers == Spec => BadgesChangedByOtherAdmin
<1>1. [Rightful]_vars => [\A k \in Key : ChangedByOther(k)]_vars
  BY DEF Rightful
<1>2. QED
  BY <1>1, AlwaysRightful, PTL DEF BadgesChangedByOtherAdmin, ChangedByOther

\* After installation the supply grows only in a call of an Admin or a Minter, shrinks only by
\* tokens of the caller, and stays as it is when minting is off.
THEOREM SupplyIsAuthorised == Spec => SupplyChangesAreAuthorised
<1>1. [Rightful]_vars => [SupplyAuthorised]_vars
  BY DEF Rightful
<1>2. QED
  BY <1>1, AlwaysRightful, PTL DEF SupplyChangesAreAuthorised, SupplyAuthorised
====
