---- MODULE CEP18 ----
(***************************************************************************)
(* The CEP-18 fungible token contract (cep18/src).  Every entry point is   *)
(* an action: one call made by a deploy, run from its first check to its   *)
(* last write.  A call that reverts undoes its deploy on the platform, so  *)
(* it leaves only the record of what it answered.                          *)
(***************************************************************************)
EXTENDS TokenUnits

CONSTANTS InstallSupplies,    \* values of total_supply offered to install_contract
          InstallEventsModes, \* values of events_mode (a u8 argument)
          InstallMintBurn,    \* values of enable_mint_burn (a u8 argument)
          InstallLists,       \* values of admin_list and minter_list at installation
          CallAmounts,        \* values of amount offered to the entry points
          BadgeLists          \* values of the three lists of change_security

ASSUME CEP18Assumption ==
    /\ InstallSupplies \subseteq U256
    /\ InstallEventsModes \subseteq 0..255
    /\ InstallMintBurn \subseteq 0..255
    /\ InstallLists \subseteq SUBSET Key
    /\ CallAmounts \subseteq U256
    /\ BadgeLists \subseteq SUBSET Key

VARIABLES
    initialized,      \* the ALLOWANCES key exists: init has run
    balances,         \* dictionary "balances", 0 where nothing is stored
    allowances,       \* dictionary "allowances", by <<owner, spender>>
    total_supply,     \* named key "total_supply"
    security_badges,  \* dictionary "security_badges"
    events_mode,      \* named key "events_mode"
    enable_mint_burn, \* named key "enable_mint_burn"
    deploy            \* the last call: entry point, call stack, answer, event

config == <<initialized, events_mode, enable_mint_burn>>
state  == <<balances, allowances, total_supply, security_badges, config>>
vars   == <<state, deploy>>

(***************************************************************************)
(* Errors, badges and events                                               *)
(***************************************************************************)
Ok == "Ok"

Cep18Error == {"InsufficientBalance", "InsufficientAllowance", "Overflow",
               "InvalidEventsMode", "InsufficientRights", "AlreadyInitialized",
               "MintBurnDisabled", "CannotTargetSelfUser", "InvalidBurnTarget"}

SecurityBadge == {"Admin", "Minter", "None"}
Absent == "Absent"  \* dictionary_get finds no badge for the key

Mint(recipient, amount) ==
    [type |-> "Mint", recipient |-> recipient, amount |-> amount]
Burn(owner, amount) ==
    [type |-> "Burn", owner |-> owner, amount |-> amount]
SetAllowance(owner, spender, allowance) ==
    [type |-> "SetAllowance", owner |-> owner, spender |-> spender,
     allowance |-> allowance]
\* Variant with a bug: the two amounts of the event are swapped.
IncreaseAllowance_swapped(owner, spender, allowance, inc_by) ==
    [type |-> "IncreaseAllowance", owner |-> owner, spender |-> spender,
     allowance |-> inc_by, inc_by |-> allowance]
IncreaseAllowance(owner, spender, allowance, inc_by) ==
    [type |-> "IncreaseAllowance", owner |-> owner, spender |-> spender,
     allowance |-> allowance, inc_by |-> inc_by]
DecreaseAllowance(owner, spender, allowance, decr_by) ==
    [type |-> "DecreaseAllowance", owner |-> owner, spender |-> spender,
     allowance |-> allowance, decr_by |-> decr_by]
Transfer(sender, recipient, amount) ==
    [type |-> "Transfer", sender |-> sender, recipient |-> recipient,
     amount |-> amount]
TransferFrom(spender, owner, recipient, amount) ==
    [type |-> "TransferFrom", spender |-> spender, owner |-> owner,
     recipient |-> recipient, amount |-> amount]
ChangeSecurity(admin, sec_change_map) ==
    [type |-> "ChangeSecurity", admin |-> admin, sec_change_map |-> sec_change_map]

NoEvent == [type |-> "NoEvent"]

\* Variant with a bug: the two modes are confused.
record_event_dictionary_inverted(mode, event) == IF mode = 0 THEN event ELSE NoEvent

\* The event a call leaves behind: none unless the contract was installed with CES.
record_event_dictionary(mode, event) == IF mode = 1 THEN event ELSE NoEvent

(***************************************************************************)
(* The caller: the frame just below the token's own.                       *)
(***************************************************************************)
call_stack_element_to_address(element) ==
    IF element.kind = "StoredContract"
    THEN element.contract_package_hash
    ELSE element.account_hash

\* Variant with a bug: the signer of the deploy is taken for the caller.
get_signer_address(stack) == call_stack_element_to_address(stack[1])

get_immediate_caller_address(stack) ==
    call_stack_element_to_address(stack[Len(stack) - 1])

\* Variant with a bug: a key without a badge passes.
sec_check_default_allow(caller, allowed_badge_list) ==
    security_badges[caller] \in allowed_badge_list \cup {Absent}

\* A badge that is absent or not on the list is refused.
sec_check(caller, allowed_badge_list) ==
    security_badges[caller] \in allowed_badge_list

(***************************************************************************)
(* What a call answers and what it leaves behind.                          *)
(***************************************************************************)
Revert(entry_point, stack, error) ==
    /\ error # Ok
    /\ deploy' = [entry_point |-> entry_point, stack |-> stack,
                  error |-> error, event |-> NoEvent]
    /\ UNCHANGED state

Return(entry_point, stack, event) ==
    deploy' = [entry_point |-> entry_point, stack |-> stack, error |-> Ok, event |-> event]

Emit(entry_point, stack, event) ==
    Return(entry_point, stack, record_event_dictionary(events_mode, event))

(***************************************************************************)
(* Installation: session code of the installing account creates the        *)
(* contract and calls its init in the same deploy.                         *)
(***************************************************************************)
\* Variant with a bug: the mode is not validated.
init_events_unchecked(mode) == Ok

init_events_error(mode) == IF mode \in {0, 1} THEN Ok ELSE "InvalidEventsMode"

\* The installer is made Admin first, then minters are written, then admins.
init_badges(caller, admin_list, minter_list) ==
    [k \in Key |-> CASE k \in admin_list  -> "Admin"
                     [] k \in minter_list \ admin_list -> "Minter"
                     [] k \notin admin_list \cup minter_list ->
                            IF k = caller THEN "Admin" ELSE Absent]

install_contract(caller, supply, mode, mint_burn, admin_list, minter_list) ==
    LET stack == <<Session(caller), StoredContract(Token)>>
        error == init_events_error(mode)
    IN  /\ ~initialized
        /\ \/ Revert("call", stack, error)
           \/ /\ error = Ok
              /\ initialized' = TRUE
              /\ events_mode' = mode
              /\ enable_mint_burn' = mint_burn
              /\ total_supply' = supply
              /\ balances' = [balances EXCEPT ![get_caller(stack)] = supply]
              /\ security_badges' = init_badges(get_caller(stack), admin_list, minter_list)
              /\ Return("call", stack,
                        record_event_dictionary(mode, Mint(get_caller(stack), supply)))
              /\ UNCHANGED allowances

\* init is public, but only its first call gets past its first check.
init(stack) ==
    /\ initialized
    /\ Revert("init", stack, "AlreadyInitialized")

(***************************************************************************)
(* Allowances.  The owner is always the immediate caller.                  *)
(***************************************************************************)
\* Variant with a bug: the owner may name itself.
spender_unchecked(owner, spender) == Ok

spender_error(owner, spender) ==
    IF spender = owner THEN "CannotTargetSelfUser" ELSE Ok

\* Variant with a bug: owner and spender are swapped in the dictionary key.
write_allowance_swapped(owner, spender, amount) ==
    allowances' = [allowances EXCEPT ![<<spender, owner>>] = amount]

write_allowance_to(owner, spender, amount) ==
    allowances' = [allowances EXCEPT ![<<owner, spender>>] = amount]

\* Variant with a bug: the amount is added to what the spender already has.
approve_accumulates(stack, spender, amount) ==
    LET owner == get_immediate_caller_address(stack)
    IN  /\ spender_error(owner, spender) = Ok
        /\ write_allowance_to(owner, spender, saturating_add(allowances[<<owner, spender>>], amount))
        /\ Emit("approve", stack, SetAllowance(owner, spender, amount))
        /\ UNCHANGED <<balances, total_supply, security_badges, config>>

approve(stack, spender, amount) ==
    LET owner == get_immediate_caller_address(stack)
        error == spender_error(owner, spender)
    IN  \/ Revert("approve", stack, error)
        \/ /\ error = Ok
           /\ write_allowance_to(owner, spender, amount)
           /\ Emit("approve", stack, SetAllowance(owner, spender, amount))
           /\ UNCHANGED <<balances, total_supply, security_badges, config>>

decrease_allowance(stack, spender, amount) ==
    LET owner == get_immediate_caller_address(stack)
        error == spender_error(owner, spender)
        new_allowance == saturating_sub(allowances[<<owner, spender>>], amount)
    IN  \/ Revert("decrease_allowance", stack, error)
        \/ /\ error = Ok
           /\ write_allowance_to(owner, spender, new_allowance)
           /\ Emit("decrease_allowance", stack,
                   DecreaseAllowance(owner, spender, new_allowance, amount))
           /\ UNCHANGED <<balances, total_supply, security_badges, config>>

increase_allowance(stack, spender, amount) ==
    LET owner == get_immediate_caller_address(stack)
        error == spender_error(owner, spender)
        new_allowance == saturating_add(allowances[<<owner, spender>>], amount)
    IN  \/ Revert("increase_allowance", stack, error)
        \/ /\ error = Ok
           /\ write_allowance_to(owner, spender, new_allowance)
           /\ Emit("increase_allowance", stack,
                   IncreaseAllowance(owner, spender, new_allowance, amount))
           /\ UNCHANGED <<balances, total_supply, security_badges, config>>

(***************************************************************************)
(* Transfers                                                               *)
(***************************************************************************)

\* Variant with a bug: the sender's balance is not checked.
transfer_balance_unchecked(sender, recipient, amount) ==
    IF sender # recipient /\ AddOverflows(balances[recipient], amount) THEN "Overflow" ELSE Ok

\* transfer_balance answers the first check that fails ...
transfer_balance_error(sender, recipient, amount) ==
    IF sender = recipient \/ amount = 0 THEN Ok
    ELSE IF SubUnderflows(balances[sender], amount) THEN "InsufficientBalance"
    ELSE IF AddOverflows(balances[recipient], amount) THEN "Overflow"
    ELSE Ok

\* Variant with a bug: the write of the sender's balance is lost.
transfer_balance_lost_debit(sender, recipient, amount) ==
    balances' = [balances EXCEPT ![recipient] = @ + amount]

\* ... and writes both balances only when none does.
transfer_balance(sender, recipient, amount) ==
    balances' = IF sender = recipient \/ amount = 0
                THEN balances
                ELSE [balances EXCEPT ![sender] = @ - amount,
                                      ![recipient] = @ + amount]

transfer_error(sender, recipient, amount) ==
    IF sender = recipient THEN "CannotTargetSelfUser"
    ELSE transfer_balance_error(sender, recipient, amount)

transfer(stack, recipient, amount) ==
    LET sender == get_immediate_caller_address(stack)
        error  == transfer_error(sender, recipient, amount)
    IN  \/ Revert("transfer", stack, error)
        \/ /\ error = Ok
           /\ transfer_balance(sender, recipient, amount)
           /\ Emit("transfer", stack, Transfer(sender, recipient, amount))
           /\ UNCHANGED <<allowances, total_supply, security_badges, config>>

\* Variant with a bug: spending an allowance is not bounded by it.
transfer_from_error_unbounded(spender, owner, recipient, amount) ==
    IF owner = recipient THEN "CannotTargetSelfUser"
    ELSE transfer_balance_error(owner, recipient, amount)

transfer_from_error(spender, owner, recipient, amount) ==
    IF owner = recipient THEN "CannotTargetSelfUser"
    ELSE IF amount = 0 THEN Ok
    ELSE IF SubUnderflows(allowances[<<owner, spender>>], amount) THEN "InsufficientAllowance"
    ELSE transfer_balance_error(owner, recipient, amount)

transfer_from(stack, owner, recipient, amount) ==
    LET spender == get_immediate_caller_address(stack)
        error   == transfer_from_error(spender, owner, recipient, amount)
    IN  \/ Revert("transfer_from", stack, error)
        \/ /\ error = Ok
           /\ amount = 0       \* the early return: nothing is written or emitted
           /\ Return("transfer_from", stack, NoEvent)
           /\ UNCHANGED state
        \/ /\ error = Ok
           /\ amount # 0
           /\ transfer_balance(owner, recipient, amount)
           /\ write_allowance_to(owner, spender, allowances[<<owner, spender>>] - amount)
           /\ Emit("transfer_from", stack,
                   TransferFrom(spender, owner, recipient, amount))
           /\ UNCHANGED <<total_supply, security_badges, config>>

(***************************************************************************)
(* Mint and burn                                                           *)
(***************************************************************************)
\* Variant with a bug: only the recipient's balance is checked.
mint_error_without_supply(caller, owner, amount) ==
    IF enable_mint_burn = 0 THEN "MintBurnDisabled"
    ELSE IF ~sec_check(caller, {"Admin", "Minter"}) THEN "InsufficientRights"
    ELSE IF AddOverflows(balances[owner], amount) THEN "Overflow"
    ELSE Ok

mint_error(caller, owner, amount) ==
    IF enable_mint_burn = 0 THEN "MintBurnDisabled"
    ELSE IF ~sec_check(caller, {"Admin", "Minter"}) THEN "InsufficientRights"
    ELSE IF AddOverflows(balances[owner], amount) THEN "Overflow"
    ELSE IF AddOverflows(total_supply, amount) THEN "Overflow"
    ELSE Ok

mint(stack, owner, amount) ==
    LET error == mint_error(get_immediate_caller_address(stack), owner, amount)
    IN  \/ Revert("mint", stack, error)
        \/ /\ error = Ok
           /\ balances' = [balances EXCEPT ![owner] = @ + amount]
           /\ total_supply' = total_supply + amount
           /\ Emit("mint", stack, Mint(owner, amount))
           /\ UNCHANGED <<allowances, security_badges, config>>

\* Variant with a bug: the supply is checked, the balance is not.
burn_error_unchecked(caller, owner, amount) ==
    IF enable_mint_burn = 0 THEN "MintBurnDisabled"
    ELSE IF owner # caller THEN "InvalidBurnTarget"
    ELSE IF SubUnderflows(total_supply, amount) THEN "Overflow"
    ELSE Ok

burn_error(caller, owner, amount) ==
    IF enable_mint_burn = 0 THEN "MintBurnDisabled"
    ELSE IF owner # caller THEN "InvalidBurnTarget"
    ELSE IF SubUnderflows(balances[owner], amount) THEN "InsufficientBalance"
    ELSE IF SubUnderflows(total_supply, amount) THEN "Overflow"
    ELSE Ok

burn(stack, owner, amount) ==
    LET error == burn_error(get_immediate_caller_address(stack), owner, amount)
    IN  \/ Revert("burn", stack, error)
        \/ /\ error = Ok
           /\ balances' = [balances EXCEPT ![owner] = @ - amount]
           /\ total_supply' = total_supply - amount
           /\ Emit("burn", stack, Burn(owner, amount))
           /\ UNCHANGED <<allowances, security_badges, config>>

(***************************************************************************)
(* Security badges                                                         *)
(***************************************************************************)
\* Variant with a bug: minters are let in as well.
change_security_error_minter(caller) ==
    IF enable_mint_burn = 0 THEN "MintBurnDisabled"
    ELSE IF ~sec_check(caller, {"Admin", "Minter"}) THEN "InsufficientRights"
    ELSE Ok

change_security_error(caller) ==
    IF enable_mint_burn = 0 THEN "MintBurnDisabled"
    ELSE IF ~sec_check(caller, {"Admin"}) THEN "InsufficientRights"
    ELSE Ok

\* Variant with a bug: the caller's entry stays in the map.
badge_map_with_caller(caller, admin_list, minter_list, none_list) ==
    [k \in minter_list \cup admin_list \cup none_list |->
        IF k \in none_list THEN "None" ELSE IF k \in admin_list THEN "Admin" ELSE "Minter"]

\* Minters are inserted first, admins over them, none over both; the caller's own entry is
\* removed at the end.
badge_map(caller, admin_list, minter_list, none_list) ==
    [k \in (minter_list \cup admin_list \cup none_list) \ {caller} |->
        IF k \in none_list THEN "None" ELSE IF k \in admin_list THEN "Admin" ELSE "Minter"]

change_sec_badge(map) ==
    security_badges' = [k \in Key |-> IF k \in DOMAIN map THEN map[k] ELSE security_badges[k]]

change_security(stack, admin_list, minter_list, none_list) ==
    LET caller == get_immediate_caller_address(stack)
        error  == change_security_error(caller)
        map    == badge_map(caller, admin_list, minter_list, none_list)
    IN  \/ Revert("change_security", stack, error)
        \/ /\ error = Ok
           /\ change_sec_badge(map)
           /\ Emit("change_security", stack, ChangeSecurity(caller, map))
           /\ UNCHANGED <<balances, allowances, total_supply, config>>

(***************************************************************************)
(* Deploys, in any order, from any account and through any contract.       *)
(***************************************************************************)
Init ==
    /\ initialized = FALSE
    /\ balances = [k \in Key |-> 0]
    /\ allowances = [pair \in Key \X Key |-> 0]
    /\ total_supply = 0
    /\ security_badges = [k \in Key |-> Absent]
    /\ events_mode = 0
    /\ enable_mint_burn = 0
    /\ deploy = [entry_point |-> "none", stack |-> <<>>, error |-> Ok, event |-> NoEvent]

Install ==
    \E caller \in Account, supply \in InstallSupplies, mode \in InstallEventsModes,
       mint_burn \in InstallMintBurn, admin_list, minter_list \in InstallLists :
        install_contract(caller, supply, mode, mint_burn, admin_list, minter_list)

Call(stack) ==
    \/ init(stack)
    \/ \E spender \in Key, amount \in CallAmounts :
        \/ approve(stack, spender, amount)
        \/ decrease_allowance(stack, spender, amount)
        \/ increase_allowance(stack, spender, amount)
    \/ \E recipient \in Key, amount \in CallAmounts : transfer(stack, recipient, amount)
    \/ \E owner, recipient \in Key, amount \in CallAmounts :
        transfer_from(stack, owner, recipient, amount)
    \/ \E owner \in Key, amount \in CallAmounts :
        mint(stack, owner, amount) \/ burn(stack, owner, amount)
    \/ \E admin_list, minter_list, none_list \in BadgeLists :
        change_security(stack, admin_list, minter_list, none_list)

Next == Install \/ \E stack \in CallStack : initialized /\ Call(stack)

Spec == Init /\ [][Next]_vars

-----------------------------------------------------------------------------
(***************************************************************************)
(* Type invariant                                                          *)
(***************************************************************************)
Event ==
    {NoEvent}
    \cup {Mint(k, n) : k \in Key, n \in U256}
    \cup {Burn(k, n) : k \in Key, n \in U256}
    \cup {SetAllowance(o, s, n) : o, s \in Key, n \in U256}
    \cup {IncreaseAllowance(o, s, n, d) : o, s \in Key, n, d \in U256}
    \cup {DecreaseAllowance(o, s, n, d) : o, s \in Key, n, d \in U256}
    \cup {Transfer(s, r, n) : s, r \in Key, n \in U256}
    \cup {TransferFrom(s, o, r, n) : s, o, r \in Key, n \in U256}
    \cup {ChangeSecurity(k, m) : k \in Key, m \in UNION {[D -> SecurityBadge] : D \in SUBSET Key}}

DeployTypeOK ==
    /\ deploy.stack \in CallStack \cup {<<>>}
    /\ deploy.error \in Cep18Error \cup {Ok}
    /\ deploy.event \in Event

\* Every stored number stays a U256, although no write checks it, and every dictionary holds
\* what its readers expect.
TypeOK ==
    /\ initialized \in BOOLEAN
    /\ balances \in [Key -> U256]
    /\ allowances \in [Key \X Key -> U256]
    /\ total_supply \in U256
    /\ security_badges \in [Key -> SecurityBadge \cup {Absent}]
    /\ events_mode \in {0, 1}
    /\ enable_mint_burn \in 0..255
    /\ DeployTypeOK

(***************************************************************************)
(* Safety                                                                  *)
(***************************************************************************)

\* The total_supply key, which mint and burn write separately from the balances dictionary,
\* always equals the sum of the balances it summarises.
SupplyIsSumOfBalances == total_supply = Cardinality(Units(balances))

\* Overflow is answered by mint only: the checked_add of a recipient's balance and the
\* checked_sub of the supply cannot fail in transfer, transfer_from and burn, because a
\* balance never exceeds what exists.
OnlyMintOverflows ==
    [][deploy'.error = "Overflow" => deploy'.entry_point = "mint"]_vars

\* Nobody ever holds an allowance from themselves: all three allowance entry points refuse
\* it, so transfer_from can never stand in for transfer or spend the caller's own tokens.
NoSelfAllowance == \A k \in Key : allowances[<<k, k>>] = 0

\* A call made on behalf of key k, told from the call stack alone: the signer acts only when
\* no contract stands between the session and the token; otherwise the last contract acts.
ActsFor(stack, k) ==
    LET between == 2..(Len(stack) - 1)
        last    == stack[Len(stack) - 1]
    IN  \/ /\ \A i \in between : stack[i].kind = "StoredSession"
           /\ k = stack[1].account_hash
        \/ /\ between # {}
           /\ last.kind = "StoredContract"
           /\ k = last.contract_package_hash

\* Tokens leave a key only in a call the key makes itself, or when an approved spender makes
\* the call and its allowance falls by just as much.  In particular a contract in the middle
\* never acts for the user who signed the deploy.
NoMiddleman ==
    [][\A k \in Key : balances'[k] < balances[k] =>
          \/ ActsFor(deploy'.stack, k)
          \/ \E s \in Key :
                /\ ActsFor(deploy'.stack, s)
                /\ allowances[<<k, s>>] - allowances'[<<k, s>>] = balances[k] - balances'[k]]_vars

\* An allowance changes only in a call of its owner, or falls in a call of its spender by the
\* amount that leaves the owner's balance: nothing else grants, restores or loses one.
AllowanceOnlyGrantedOrSpent ==
    [][\A o, s \in Key : allowances'[<<o, s>>] # allowances[<<o, s>>] =>
          \/ ActsFor(deploy'.stack, o)
          \/ /\ ActsFor(deploy'.stack, s)
             /\ allowances'[<<o, s>>] < allowances[<<o, s>>]
             /\ allowances[<<o, s>>] - allowances'[<<o, s>>] = balances[o] - balances'[o]]_vars

\* Once there is an Admin there is always an Admin: change_security drops the caller from
\* the map, so the last Admin cannot remove or demote itself.  (The documents say that it can,
\* see DocumentedNoneStrength.)
AdminRemains ==
    [][(\E k \in Key : security_badges[k] = "Admin")
          => \E k \in Key : security_badges'[k] = "Admin"]_vars

\* After installation a badge changes only in a call of an Admin, and never that Admin's own.
BadgesChangedByOtherAdmin ==
    [][\A k \in Key : initialized /\ security_badges'[k] # security_badges[k] =>
          \E admin \in Key \ {k} : /\ ActsFor(deploy'.stack, admin)
                                   /\ security_badges[admin] = "Admin"]_vars

\* After installation the supply grows only in a call of an Admin or a Minter and shrinks only
\* by tokens of the key that makes the call; with mint and burn disabled it is fixed forever.
SupplyChangesAreAuthorised ==
    [][initialized /\ total_supply' # total_supply =>
          /\ enable_mint_burn # 0
          /\ \E k \in Key :
                /\ ActsFor(deploy'.stack, k)
                /\ \/ total_supply' > total_supply /\ security_badges[k] \in {"Admin", "Minter"}
                   \/ total_supply - total_supply' = balances[k] - balances'[k]]_vars

(***************************************************************************)
(* What the documentation says and the code does not do                    *)
(***************************************************************************)

\* "This modality provides two options", 0 and 1: install_contract stores any u8.
DocumentedMintBurnModes == enable_mint_burn \in {0, 1}

\* "If a user is added to Admin and None, they will be removed from having access rights", and
\* "do NOT remove the last Admin, because that will lock out all admin functionality": after a
\* successful change_security nobody on both lists has a badge, and when everyone who was an Admin
\* is among them nobody is an Admin any more.
DocumentedNoneStrength ==
    [][\A stack \in CallStack, admin_list, minter_list, none_list \in BadgeLists :
          change_security(stack, admin_list, minter_list, none_list) /\ deploy'.error = Ok
              => /\ \A k \in admin_list \cap none_list : security_badges'[k] = "None"
                 /\ {k \in Key : security_badges[k] = "Admin"} \subseteq admin_list
                        /\ admin_list \subseteq none_list
                    => \A k \in Key : security_badges'[k] # "Admin"]_vars
====
