---- MODULE EventReplayProofs ----
(***************************************************************************)
(* Events tell every change, proved for every set of accounts and packages *)
(* and every width of the counters.                                        *)
(***************************************************************************)
EXTENDS EventReplay, CEP18Proofs

\* What the events of one call tell, as a statement about one step.
Told ==
    LET e == deploy'.event
    IN  events_mode' = 1 =>
          /\ balances' = BalancesAfter(e)
          /\ allowances' = AllowancesAfter(e)
          /\ total_supply' = SupplyAfter(e)
          /\ initialized => security_badges' = BadgesAfter(e)

(***************************************************************************)
(* What an event leaves alone.                                             *)
(***************************************************************************)
LEMMA BalancesTold ==
  ASSUME TypeOK, NEW e, e.type \notin {"Mint", "Transfer", "TransferFrom", "Burn"}
  PROVE  BalancesAfter(e) = balances
<1>1. Credited(e) = {} /\ Debited(e) = {}
  BY DEF Credited, Debited
<1>2. balances \in [Key -> U256] /\ \A k \in Key : balances[k] \in Nat
  BY CasperAssumption DEF TypeOK, U256
<1>3. \A k \in Key : balances[k] + 0 - 0 = balances[k]
  BY <1>2
<1>4. QED
  BY <1>1, <1>2, <1>3 DEF BalancesAfter

LEMMA AllowancesTold ==
  ASSUME NEW e,
         e.type \notin {"SetAllowance", "IncreaseAllowance", "DecreaseAllowance", "TransferFrom"}
  PROVE  AllowancesAfter(e) = allowances
BY DEF AllowancesAfter

LEMMA SupplyTold ==
  ASSUME NEW e, e.type \notin {"Mint", "Burn"}
  PROVE  SupplyAfter(e) = total_supply
BY DEF SupplyAfter

LEMMA BadgesTold ==
  ASSUME TypeOK, NEW e, e.type # "ChangeSecurity"
  PROVE  BadgesAfter(e) = security_badges
BY DEF BadgesAfter, TypeOK

\* A call that changes nothing tells of nothing.
LEMMA NothingTold ==
  ASSUME TypeOK, UNCHANGED state, deploy'.event = NoEvent
  PROVE  Told
<1>1. NoEvent.type = "NoEvent"
  BY DEF NoEvent
<1>2. /\ BalancesAfter(NoEvent) = balances /\ AllowancesAfter(NoEvent) = allowances
      /\ SupplyAfter(NoEvent) = total_supply /\ BadgesAfter(NoEvent) = security_badges
  BY <1>1, BalancesTold, AllowancesTold, SupplyTold, BadgesTold
<1>3. QED
  BY <1>2 DEF Told, state

LEMMA RevertTold ==
  ASSUME TypeOK, NEW entry_point, NEW stack, NEW error, Revert(entry_point, stack, error)
  PROVE  Told
BY NothingTold DEF Revert

\* With CES the event of a call is there to be read.
LEMMA EventRecorded ==
  ASSUME NEW entry_point, NEW stack, NEW event, Emit(entry_point, stack, event),
         events_mode' = 1, events_mode' = events_mode
  PROVE  deploy'.event = event
BY DEF Emit, Return, record_event_dictionary

(***************************************************************************)
(* The entry points                                                        *)
(***************************************************************************)
LEMMA InstallTold ==
  ASSUME SupplyInv, Install
  PROVE  Told
<1>1. PICK caller \in Account, supply \in InstallSupplies, mode \in InstallEventsModes,
           mint_burn \in InstallMintBurn, admin_list \in InstallLists,
           minter_list \in InstallLists :
        install_contract(caller, supply, mode, mint_burn, admin_list, minter_list)
  BY DEF Install
<1> DEFINE stack == <<Session(caller), StoredContract(Token)>>
           by    == get_caller(stack)
           event == Mint(by, supply)
<1>2. CASE Revert("call", stack, init_events_error(mode))
  BY <1>2, RevertTold DEF SupplyInv
<1>3. CASE ~Revert("call", stack, init_events_error(mode))
  <2>1. /\ ~initialized
        /\ events_mode' = mode /\ total_supply' = supply
        /\ balances' = [balances EXCEPT ![by] = supply]
        /\ Return("call", stack, record_event_dictionary(mode, event))
        /\ allowances' = allowances
    BY <1>1, <1>3 DEF install_contract
  <2>2. events_mode' = 1 => deploy'.event = event
    BY <2>1 DEF Return, record_event_dictionary
  <2>3. event.type = "Mint" /\ event.recipient = by /\ event.amount = supply
    BY DEF Mint
  <2> HIDE DEF event, by
  <2>4. /\ TypeOK /\ total_supply = 0 /\ balances = [k \in Key |-> 0] /\ supply \in Nat
    BY <2>1, CEP18Assumption, CasperAssumption DEF SupplyInv, U256
  <2>5. Credited(event) = {by} /\ Debited(event) = {}
    BY <2>3 DEF Credited, Debited
  <2>6. balances' = BalancesAfter(event)
    <3>1. BalancesAfter(event) = [k \in Key |-> 0 + (IF k = by THEN supply ELSE 0) - 0]
      BY <2>3, <2>4, <2>5 DEF BalancesAfter
    <3>2. \A k \in Key : 0 + (IF k = by THEN supply ELSE 0) - 0 = IF k = by THEN supply ELSE 0
      BY <2>4
    <3>3. balances' = [k \in Key |-> IF k = by THEN supply ELSE 0]
      BY <2>1, <2>4
    <3>4. QED
      BY <3>1, <3>2, <3>3
  <2>7. total_supply' = SupplyAfter(event)
    BY <2>1, <2>3, <2>4 DEF SupplyAfter
  <2>8. allowances' = AllowancesAfter(event)
    BY <2>1, <2>3, AllowancesTold
  <2>9. QED
    BY <2>1, <2>2, <2>6, <2>7, <2>8 DEF Told
<1>4. QED
  BY <1>2, <1>3

LEMMA AllowanceTold ==
  ASSUME TypeOK, NEW entry_point, NEW stack \in CallStack, NEW spender \in Key,
         NEW amount, NEW event,
         event.type \in {"SetAllowance", "IncreaseAllowance", "DecreaseAllowance"},
         event.owner = get_immediate_caller_address(stack), event.spender = spender,
         event.allowance = amount,
         write_allowance_to(get_immediate_caller_address(stack), spender, amount),
         Emit(entry_point, stack, event),
         UNCHANGED <<balances, total_supply, security_badges, config>>
  PROVE  Told
<1>1. events_mode' = 1 => deploy'.event = event
  BY EventRecorded DEF config
<1>2. allowances' = AllowancesAfter(event)
  BY DEF write_allowance_to, AllowancesAfter
<1>3. /\ BalancesAfter(event) = balances /\ SupplyAfter(event) = total_supply
      /\ BadgesAfter(event) = security_badges
  BY BalancesTold, SupplyTold, BadgesTold
<1>4. QED
  BY <1>1, <1>2, <1>3 DEF Told

LEMMA ApproveTold ==
  ASSUME TypeOK, NEW stack \in CallStack, NEW spender \in Key, NEW amount \in U256,
         \/ approve(stack, spender, amount)
         \/ decrease_allowance(stack, spender, amount)
         \/ increase_allowance(stack, spender, amount)
  PROVE  Told
<1> DEFINE owner == get_immediate_caller_address(stack)
           error == spender_error(owner, spender)
           less  == saturating_sub(allowances[<<owner, spender>>], amount)
           more  == saturating_add(allowances[<<owner, spender>>], amount)
<1>1. /\ Revert("approve", stack, error) => Told
      /\ Revert("decrease_allowance", stack, error) => Told
      /\ Revert("increase_allowance", stack, error) => Told
  BY RevertTold
<1>2. ASSUME approve(stack, spender, amount), ~Revert("approve", stack, error)
      PROVE  Told
  <2>1. /\ write_allowance_to(owner, spender, amount)
        /\ Emit("approve", stack, SetAllowance(owner, spender, amount))
        /\ UNCHANGED <<balances, total_supply, security_badges, config>>
    BY <1>2 DEF approve
  <2>2. /\ SetAllowance(owner, spender, amount).type = "SetAllowance"
        /\ SetAllowance(owner, spender, amount).owner = owner
        /\ SetAllowance(owner, spender, amount).spender = spender
        /\ SetAllowance(owner, spender, amount).allowance = amount
    BY DEF SetAllowance
  <2>3. QED
    BY <2>1, <2>2, AllowanceTold
<1>3. ASSUME decrease_allowance(stack, spender, amount),
             ~Revert("decrease_allowance", stack, error)
      PROVE  Told
  <2> DEFINE event == DecreaseAllowance(owner, spender, less, amount)
  <2>1. /\ write_allowance_to(owner, spender, less)
        /\ Emit("decrease_allowance", stack, event)
        /\ UNCHANGED <<balances, total_supply, security_badges, config>>
    BY <1>3 DEF decrease_allowance
  <2>2. /\ event.type = "DecreaseAllowance" /\ event.owner = owner /\ event.spender = spender
        /\ event.allowance = less
    BY DEF DecreaseAllowance
  <2> HIDE DEF event
  <2>3. QED
    BY <2>1, <2>2, AllowanceTold
<1>4. ASSUME increase_allowance(stack, spender, amount),
             ~Revert("increase_allowance", stack, error)
      PROVE  Told
  <2> DEFINE event == IncreaseAllowance(owner, spender, more, amount)
  <2>1. /\ write_allowance_to(owner, spender, more)
        /\ Emit("increase_allowance", stack, event)
        /\ UNCHANGED <<balances, total_supply, security_badges, config>>
    BY <1>4 DEF increase_allowance
  <2>2. /\ event.type = "IncreaseAllowance" /\ event.owner = owner /\ event.spender = spender
        /\ event.allowance = more
    BY DEF IncreaseAllowance
  <2> HIDE DEF event
  <2>3. QED
    BY <2>1, <2>2, AllowanceTold
<1>5. QED
  BY <1>1, <1>2, <1>3, <1>4

\* The tokens moved between two different keys, as an event tells it.
LEMMA MoveTold ==
  ASSUME TypeOK, NEW sender \in Key, NEW recipient \in Key, NEW amount \in U256,
         sender # recipient, transfer_balance(sender, recipient, amount), NEW event,
         Credited(event) = {recipient}, Debited(event) = {sender}, event.amount = amount
  PROVE  balances' = BalancesAfter(event)
<1>1. balances \in [Key -> U256] /\ amount \in Nat /\ \A k \in Key : balances[k] \in Nat
  BY CasperAssumption DEF TypeOK, U256
<1>2. balances' = [k \in Key |-> IF k = sender THEN balances[k] - amount
                                ELSE IF k = recipient THEN balances[k] + amount
                                ELSE balances[k]]
  <2>1. CASE amount = 0
    <3>1. balances' = balances
      BY <2>1 DEF transfer_balance
    <3>2. \A k \in Key : balances[k] - amount = balances[k] /\ balances[k] + amount = balances[k]
      BY <1>1, <2>1
    <3>3. balances = [k \in Key |-> balances[k]]
      BY <1>1
    <3>4. QED
      BY <3>1, <3>2, <3>3
  <2>2. CASE amount # 0
    BY <1>1, <2>2 DEF transfer_balance
  <2>3. QED
    BY <2>1, <2>2
<1>3. BalancesAfter(event) = [k \in Key |-> balances[k] + (IF k = recipient THEN amount ELSE 0)
                                                        - (IF k = sender THEN amount ELSE 0)]
  BY DEF BalancesAfter
<1>4. \A k \in Key : balances[k] + (IF k = recipient THEN amount ELSE 0)
                                - (IF k = sender THEN amount ELSE 0)
                    = IF k = sender THEN balances[k] - amount
                      ELSE IF k = recipient THEN balances[k] + amount
                      ELSE balances[k]
  BY <1>1
<1>5. QED
  BY <1>2, <1>3, <1>4

LEMMA TransferTold ==
  ASSUME TypeOK, NEW stack \in CallStack, NEW recipient \in Key, NEW amount \in U256,
         transfer(stack, recipient, amount)
  PROVE  Told
<1> DEFINE sender == get_immediate_caller_address(stack)
           event  == Transfer(sender, recipient, amount)
<1>1. CASE Revert("transfer", stack, transfer_error(sender, recipient, amount))
  BY <1>1, RevertTold
<1>2. CASE ~Revert("transfer", stack, transfer_error(sender, recipient, amount))
  <2>1. /\ transfer_error(sender, recipient, amount) = Ok
        /\ transfer_balance(sender, recipient, amount)
        /\ Emit("transfer", stack, event)
        /\ UNCHANGED <<allowances, total_supply, security_badges, config>>
    BY <1>2 DEF transfer
  <2>2. sender \in Key /\ sender # recipient
    BY <2>1, CallerActs DEF transfer_error, Ok
  <2>3. /\ event.type = "Transfer" /\ event.sender = sender /\ event.recipient = recipient
        /\ event.amount = amount
    BY DEF Transfer
  <2>4. events_mode' = 1 => deploy'.event = event
    BY <2>1, EventRecorded DEF config
  <2> HIDE DEF event, sender
  <2>5. Credited(event) = {recipient} /\ Debited(event) = {sender}
    BY <2>3 DEF Credited, Debited
  <2>6. balances' = BalancesAfter(event)
    BY <2>1, <2>2, <2>3, <2>5, MoveTold
  <2>7. /\ AllowancesAfter(event) = allowances /\ SupplyAfter(event) = total_supply
        /\ BadgesAfter(event) = security_badges
    BY <2>3, AllowancesTold, SupplyTold, BadgesTold
  <2>8. QED
    BY <2>1, <2>4, <2>6, <2>7 DEF Told
<1>3. QED
  BY <1>1, <1>2

LEMMA TransferFromTold ==
  ASSUME TypeOK, NEW stack \in CallStack, NEW owner \in Key, NEW recipient \in Key,
         NEW amount \in U256, transfer_from(stack, owner, recipient, amount)
  PROVE  Told
<1> DEFINE spender == get_immediate_caller_address(stack)
           event   == TransferFrom(spender, owner, recipient, amount)
           error   == transfer_from_error(spender, owner, recipient, amount)
<1>1. CASE Revert("transfer_from", stack, error)
  BY <1>1, RevertTold
<1>2. CASE Return("transfer_from", stack, NoEvent) /\ UNCHANGED state
  BY <1>2, NothingTold DEF Return
<1>3. CASE ~Revert("transfer_from", stack, error) /\
           ~(Return("transfer_from", stack, NoEvent) /\ UNCHANGED state)
  <2>1. /\ error = Ok
        /\ transfer_balance(owner, recipient, amount)
        /\ write_allowance_to(owner, spender, allowances[<<owner, spender>>] - amount)
        /\ Emit("transfer_from", stack, event)
        /\ UNCHANGED <<total_supply, security_badges, config>>
    BY <1>3 DEF transfer_from
  <2>2. owner # recipient
    BY <2>1 DEF transfer_from_error, Ok
  <2>3. /\ event.type = "TransferFrom" /\ event.spender = spender /\ event.owner = owner
        /\ event.recipient = recipient /\ event.amount = amount
    BY DEF TransferFrom
  <2>4. events_mode' = 1 => deploy'.event = event
    BY <2>1, EventRecorded DEF config
  <2> HIDE DEF event, spender
  <2>5. Credited(event) = {recipient} /\ Debited(event) = {owner}
    BY <2>3 DEF Credited, Debited
  <2>6. balances' = BalancesAfter(event)
    BY <2>1, <2>2, <2>3, <2>5, MoveTold
  <2>7. allowances' = AllowancesAfter(event)
    BY <2>1, <2>3 DEF AllowancesAfter, write_allowance_to
  <2>8. SupplyAfter(event) = total_supply /\ BadgesAfter(event) = security_badges
    BY <2>3, SupplyTold, BadgesTold
  <2>9. QED
    BY <2>1, <2>4, <2>6, <2>7, <2>8 DEF Told
<1>4. QED
  BY <1>1, <1>2, <1>3

LEMMA MintTold ==
  ASSUME TypeOK, NEW stack \in CallStack, NEW owner \in Key, NEW amount \in U256,
         mint(stack, owner, amount)
  PROVE  Told
<1> DEFINE caller == get_immediate_caller_address(stack)
           event  == Mint(owner, amount)
<1>1. CASE Revert("mint", stack, mint_error(caller, owner, amount))
  BY <1>1, RevertTold
<1>2. CASE ~Revert("mint", stack, mint_error(caller, owner, amount))
  <2>1. /\ balances' = [balances EXCEPT ![owner] = @ + amount]
        /\ total_supply' = total_supply + amount
        /\ Emit("mint", stack, event)
        /\ UNCHANGED <<allowances, security_badges, config>>
    BY <1>2 DEF mint
  <2>2. event.type = "Mint" /\ event.recipient = owner /\ event.amount = amount
    BY DEF Mint
  <2>3. events_mode' = 1 => deploy'.event = event
    BY <2>1, EventRecorded DEF config
  <2> HIDE DEF event
  <2>4. Credited(event) = {owner} /\ Debited(event) = {}
    BY <2>2 DEF Credited, Debited
  <2>5. balances' = BalancesAfter(event)
    <3>1. balances \in [Key -> U256] /\ amount \in Nat /\ \A k \in Key : balances[k] \in Nat
      BY CasperAssumption DEF TypeOK, U256
    <3>2. BalancesAfter(event) = [k \in Key |-> balances[k] + (IF k = owner THEN amount ELSE 0) - 0]
      BY <2>2, <2>4 DEF BalancesAfter
    <3>3. \A k \in Key : balances[k] + (IF k = owner THEN amount ELSE 0) - 0
                        = IF k = owner THEN balances[k] + amount ELSE balances[k]
      BY <3>1
    <3>4. balances' = [k \in Key |-> IF k = owner THEN balances[k] + amount ELSE balances[k]]
      BY <2>1, <3>1
    <3>5. QED
      BY <3>2, <3>3, <3>4
  <2>6. total_supply' = SupplyAfter(event)
    BY <2>1, <2>2 DEF SupplyAfter
  <2>7. AllowancesAfter(event) = allowances /\ BadgesAfter(event) = security_badges
    BY <2>2, AllowancesTold, BadgesTold
  <2>8. QED
    BY <2>1, <2>3, <2>5, <2>6, <2>7 DEF Told
<1>3. QED
  BY <1>1, <1>2

LEMMA BurnTold ==
  ASSUME TypeOK, NEW stack \in CallStack, NEW owner \in Key, NEW amount \in U256,
         burn(stack, owner, amount)
  PROVE  Told
<1> DEFINE caller == get_immediate_caller_address(stack)
           event  == Burn(owner, amount)
<1>1. CASE Revert("burn", stack, burn_error(caller, owner, amount))
  BY <1>1, RevertTold
<1>2. CASE ~Revert("burn", stack, burn_error(caller, owner, amount))
  <2>1. /\ balances' = [balances EXCEPT ![owner] = @ - amount]
        /\ total_supply' = total_supply - amount
        /\ Emit("burn", stack, event)
        /\ UNCHANGED <<allowances, security_badges, config>>
    BY <1>2 DEF burn
  <2>2. event.type = "Burn" /\ event.owner = owner /\ event.amount = amount
    BY DEF Burn
  <2>3. events_mode' = 1 => deploy'.event = event
    BY <2>1, EventRecorded DEF config
  <2> HIDE DEF event
  <2>4. Credited(event) = {} /\ Debited(event) = {owner}
    BY <2>2 DEF Credited, Debited
  <2>5. balances' = BalancesAfter(event)
    <3>1. balances \in [Key -> U256] /\ amount \in Nat /\ \A k \in Key : balances[k] \in Nat
      BY CasperAssumption DEF TypeOK, U256
    <3>2. BalancesAfter(event) = [k \in Key |-> balances[k] + 0 - (IF k = owner THEN amount ELSE 0)]
      BY <2>2, <2>4 DEF BalancesAfter
    <3>3. \A k \in Key : balances[k] + 0 - (IF k = owner THEN amount ELSE 0)
                        = IF k = owner THEN balances[k] - amount ELSE balances[k]
      BY <3>1
    <3>4. balances' = [k \in Key |-> IF k = owner THEN balances[k] - amount ELSE balances[k]]
      BY <2>1, <3>1
    <3>5. QED
      BY <3>2, <3>3, <3>4
  <2>6. total_supply' = SupplyAfter(event)
    BY <2>1, <2>2 DEF SupplyAfter
  <2>7. AllowancesAfter(event) = allowances /\ BadgesAfter(event) = security_badges
    BY <2>2, AllowancesTold, BadgesTold
  <2>8. QED
    BY <2>1, <2>3, <2>5, <2>6, <2>7 DEF Told
<1>3. QED
  BY <1>1, <1>2

LEMMA ChangeSecurityTold ==
  ASSUME TypeOK, NEW stack \in CallStack, NEW admin_list \in SUBSET Key,
         NEW minter_list \in SUBSET Key, NEW none_list \in SUBSET Key,
         change_security(stack, admin_list, minter_list, none_list)
  PROVE  Told
<1> DEFINE caller == get_immediate_caller_address(stack)
           map    == badge_map(caller, admin_list, minter_list, none_list)
           event  == ChangeSecurity(caller, map)
<1>1. CASE Revert("change_security", stack, change_security_error(caller))
  BY <1>1, RevertTold
<1>2. CASE ~Revert("change_security", stack, change_security_error(caller))
  <2>1. /\ change_sec_badge(map)
        /\ Emit("change_security", stack, event)
        /\ UNCHANGED <<balances, allowances, total_supply, config>>
    BY <1>2 DEF change_security
  <2>2. event.type = "ChangeSecurity" /\ event.sec_change_map = map
    BY DEF ChangeSecurity
  <2>3. events_mode' = 1 => deploy'.event = event
    BY <2>1, EventRecorded DEF config
  <2> HIDE DEF event, map
  <2>4. security_badges' = BadgesAfter(event)
    BY <2>1, <2>2 DEF change_sec_badge, BadgesAfter
  <2>5. /\ BalancesAfter(event) = balances /\ AllowancesAfter(event) = allowances
        /\ SupplyAfter(event) = total_supply
    BY <2>2, BalancesTold, AllowancesTold, SupplyTold
  <2>6. QED
    BY <2>1, <2>3, <2>4, <2>5 DEF Told
<1>3. QED
  BY <1>1, <1>2

LEMMA NextTold == SupplyInv /\ Next => Told
<1> SUFFICES ASSUME SupplyInv, Next PROVE Told
  OBVIOUS
<1>1. TypeOK
  BY DEF SupplyInv
<1>2. ASSUME NEW stack \in CallStack, Call(stack) PROVE Told
  <2>1. init(stack) => Told
    BY <1>1, RevertTold DEF init
  <2>2. QED
    BY <1>1, <1>2, <2>1, CallCases, ApproveTold, TransferTold, TransferFromTold, MintTold,
       BurnTold, ChangeSecurityTold
<1>3. QED
  BY <1>2, InstallTold DEF Next

\* With events_mode CES an observer of the events alone knows every balance, every allowance, the
\* supply and, but for those init writes, every badge, whatever is called in whatever order.
THEOREM EventsSuffice == Spec => EventsTellEveryChange
<1>1. SupplyInv /\ [Next]_vars => [Told]_vars
  BY NextTold
<1>2. Spec => [][Told]_vars
  BY <1>1, InitSupply, NextSupply, PTL DEF Spec
<1>3. QED
  BY <1>2 DEF EventsTellEveryChange, Told
====
