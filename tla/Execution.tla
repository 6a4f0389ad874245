---- MODULE Execution ----
(***************************************************************************)
(* One deploy at a time, one host call at a time.  A deploy of a session,  *)
(* of the JavaScript client or through the test contract reads arguments,  *)
(* reads and writes a tracking copy of the state, and commits it or, on a  *)
(* revert at any step, drops it.  CEP18, where an entry point is a single  *)
(* step, is what this module implements.                                   *)
(***************************************************************************)
EXTENDS Casper

CONSTANTS InstallSupplies, InstallEventsModes, InstallMintBurn, InstallLists,
          CallAmounts, BadgeLists, \* arguments offered, as in CEP18
          Relay,                   \* the package of the test contract
          Named,                   \* keys named in arguments
          Called                   \* the entry points deploys call

ASSUME ExecutionAssumption ==
    /\ Relay \in Caller /\ Named \subseteq Key
    /\ InstallSupplies \cup CallAmounts \subseteq U256
    /\ InstallLists \cup BadgeLists \subseteq SUBSET Key

VARIABLES
    ledger, \* what is committed: the token's state and the test contract's named key
    copy,   \* the tracking copy of the running deploy
    run,    \* where the running deploy stands, or Idle
    deploy  \* the last deploy that ended: entry point, call stack, answer, event

vars == <<ledger, copy, run, deploy>>

Contract == INSTANCE CEP18 WITH
    initialized <- ledger.initialized, balances <- ledger.balances,
    allowances <- ledger.allowances, total_supply <- ledger.total_supply,
    security_badges <- ledger.security_badges, events_mode <- ledger.events_mode,
    enable_mint_burn <- ledger.enable_mint_burn

Ok   == "Ok"
Idle == [steps |-> <<>>]

\* f over g, and g with one value set: @@ and :> of module TLC, which the prover cannot expand.
Over(f, g)         == [x \in DOMAIN f \cup DOMAIN g |-> IF x \in DOMAIN f THEN f[x] ELSE g[x]]
Bind(x, value, g)  == Over([y \in {x} |-> value], g)

(***************************************************************************)
(* What is declared, what is passed and what is read                       *)
(***************************************************************************)
\* The parameters the entry points of the token are declared with.
generate_entry_points == [
    init               |-> {},
    total_supply       |-> {},
    balance_of         |-> {"address"},
    transfer           |-> {"recipient", "amount"},
    approve            |-> {"spender", "amount"},
    allowance          |-> {"owner", "spender"},
    decrease_allowance |-> {"spender", "amount"},
    increase_allowance |-> {"spender", "amount"},
    transfer_from      |-> {"owner", "recipient", "amount"},
    change_security    |-> {},
    burn               |-> {"owner", "amount"},
    mint               |-> {"owner", "amount"}]

\* The parameters the entry points of the test contract are declared with.
test_entry_points == [
    check_total_supply               |-> {"token_contract"},
    check_balance_of                 |-> {"token_contract", "address"},
    check_allowance_of               |-> {"token_contract", "owner", "spender"},
    transfer_as_stored_contract      |-> {"token_contract", "recipient", "amount"},
    approve_as_stored_contract       |-> {"token_contract", "spender", "amount"},
    transfer_from_as_stored_contract |-> {"token_contract", "owner", "recipient", "amount"}]

Declared == Over(generate_entry_points, test_entry_points)

\* Variant with a bug: an argument is missing from the declarations.
Parameters_without_owner(entry_point) == Declared[entry_point] \ {"owner"}

Parameters(entry_point) == Declared[entry_point]

\* Arguments that "can be added or omitted when calling" change_security.
CommentedLists == {"admin_list", "mint_and_burn_list", "minter_list", "burner_list", "none_list"}

\* Read with get_optional_named_arg_with_user_errors, and what is answered when malformed.
Optional == [events_mode      |-> "InvalidEventsMode",
             enable_mint_burn |-> "InvalidEnableMBFlag",
             admin_list       |-> "InvalidAdminList",
             minter_list      |-> "InvalidMinterList",
             none_list        |-> "InvalidNoneList"]

ArgumentName == DOMAIN Optional \cup (UNION {Declared[e] : e \in DOMAIN Declared})
                \cup {"name", "symbol", "decimals", "total_supply", "package_hash"}

\* The arguments the JavaScript client puts into its deploys; its callers may leave out the
\* optional ones.  change_security needs one of its lists, which may be one nobody reads.
ClientPasses == [
    call               |-> {"name", "symbol", "decimals", "total_supply", "events_mode",
                            "enable_mint_burn"},
    transfer           |-> {"recipient", "amount"},
    transfer_from      |-> {"owner", "recipient", "amount"},
    approve            |-> {"spender", "amount"},
    increase_allowance |-> {"spender", "amount"},
    decrease_allowance |-> {"spender", "amount"},
    mint               |-> {"owner", "amount"},
    burn               |-> {"owner", "amount"},
    change_security    |-> CommentedLists]

\* Calls made by a contract or by the installing session, with the arguments passed on.
Calls == [
    call               |-> [callee |-> "init",
                            passes |-> {"total_supply", "package_hash", "admin_list", "minter_list"}],
    check_total_supply |-> [callee |-> "total_supply", passes |-> {}],
    check_balance_of   |-> [callee |-> "balance_of", passes |-> {"address"}],
    check_allowance_of |-> [callee |-> "allowance", passes |-> {"owner", "spender"}],
    transfer_as_stored_contract |-> [callee |-> "transfer", passes |-> {"recipient", "amount"}],
    approve_as_stored_contract  |-> [callee |-> "approve", passes |-> {"spender", "amount"}],
    transfer_from_as_stored_contract |->
        [callee |-> "transfer_from", passes |-> {"owner", "recipient", "amount"}]]

TestEntryPoint == DOMAIN Calls \ {"call"}
ReadOnly       == {"total_supply", "balance_of", "allowance"}

(***************************************************************************)
(* The steps of each entry point, in the order of the code.  A step named  *)
(* like an argument reads it.                                              *)
(***************************************************************************)

total_supply == <<"ret">>
balance_of   == <<"address", "ret">>
allowance    == <<"spender", "owner", "ret">>

\* Variant with a bug: the owner is an argument, which no caller passes.
approve_names_owner == <<"owner", "spender", "owner_is_not_spender", "amount", "new_allowance",
                         "write_allowance", "record_event">>
approve == <<"spender", "owner_is_not_spender", "amount", "new_allowance", "write_allowance",
             "record_event">>
decrease_allowance == <<"spender", "owner_is_not_spender", "amount", "new_allowance",
                        "write_allowance", "record_event">>
increase_allowance == <<"spender", "owner_is_not_spender", "amount", "new_allowance",
                        "write_allowance", "record_event">>

transfer == <<"recipient", "sender_is_not_recipient", "amount", "transfer_balance",
              "record_event">>

\* Variant with a bug: the reduced allowance is never written.
transfer_from_unspent == <<"recipient", "owner", "sender_is_not_recipient", "amount",
                           "return_if_zero", "new_allowance", "transfer_balance",
                           "record_event">>
\* Variant with a bug: the tokens are moved before the allowance is looked at.
transfer_from_moves_first == <<"recipient", "owner", "sender_is_not_recipient", "amount",
                               "return_if_zero", "transfer_balance", "new_allowance",
                               "write_allowance", "record_event">>
transfer_from == <<"recipient", "owner", "sender_is_not_recipient", "amount", "return_if_zero",
                   "new_allowance", "transfer_balance", "write_allowance", "record_event">>

transfer_balance == <<"new_sender_balance", "new_recipient_balance",
                      "write_sender_balance", "write_recipient_balance">>

\* Variant with a bug: the balance is written before the supply is checked.
mint_unordered == <<"enabled", "sec_check", "owner", "amount", "new_recipient_balance",
                    "write_recipient_balance", "new_supply", "write_supply", "record_event">>
mint == <<"enabled", "sec_check", "owner", "amount", "new_recipient_balance", "new_supply",
          "write_recipient_balance", "write_supply", "record_event">>
burn == <<"enabled", "owner", "owner_is_caller", "amount", "new_sender_balance", "new_supply",
          "write_sender_balance", "write_supply", "record_event">>

change_security == <<"enabled", "sec_check", "admin_list", "minter_list", "none_list",
                     "change_sec_badge", "record_event">>

\* Variant with a bug: the minters are written last.
init_minters_last == <<"not_initialized", "package_hash", "new_dictionaries", "total_supply",
                       "write_initial_balance", "write_installer_badge", "admin_list",
                       "minter_list", "init_events", "write_admins", "write_minters",
                       "record_event">>
init == <<"not_initialized", "package_hash", "new_dictionaries", "total_supply",
          "write_initial_balance", "write_installer_badge", "admin_list", "minter_list",
          "init_events", "write_minters", "write_admins", "record_event">>

\* The session code of an installation, from call to install_contract.
install_contract == <<"name", "symbol", "decimals", "total_supply", "events_mode", "admin_list",
                      "minter_list", "enable_mint_burn", "new_contract", "call_contract">>

check_total_supply == <<"token_contract", "call_contract", "store_result">>
check_balance_of   == <<"token_contract", "address", "call_contract", "store_result">>
check_allowance_of == <<"token_contract", "owner", "spender", "call_contract", "store_result">>
transfer_as_stored_contract == <<"token_contract", "recipient", "amount", "call_contract">>
approve_as_stored_contract  == <<"token_contract", "spender", "amount", "call_contract">>
transfer_from_as_stored_contract ==
    <<"token_contract", "owner", "recipient", "amount", "call_contract">>

Program == [
    total_supply       |-> total_supply,
    balance_of         |-> balance_of,
    allowance          |-> allowance,
    approve            |-> approve,
    decrease_allowance |-> decrease_allowance,
    increase_allowance |-> increase_allowance,
    transfer           |-> transfer,
    transfer_from      |-> transfer_from,
    mint               |-> mint,
    burn               |-> burn,
    change_security    |-> change_security,
    init               |-> init,
    call               |-> install_contract,
    check_total_supply |-> check_total_supply,
    check_balance_of   |-> check_balance_of,
    check_allowance_of |-> check_allowance_of,
    transfer_as_stored_contract      |-> transfer_as_stored_contract,
    approve_as_stored_contract       |-> approve_as_stored_contract,
    transfer_from_as_stored_contract |-> transfer_from_as_stored_contract]

ASSUME CalledAssumption == Called \subseteq DOMAIN Program

(***************************************************************************)
(* How a deploy starts, proceeds and ends                                  *)
(***************************************************************************)
Start(account, source, entry_point) ==
    /\ run = Idle
    /\ ledger.initialized <=> entry_point # "call"
    /\ source = "client" => entry_point \in DOMAIN ClientPasses
    /\ run' = [deployed |-> entry_point, entry_point |-> entry_point, source |-> source,
               stack |-> CASE entry_point = "call" -> <<Session(account)>>
                           [] entry_point \in TestEntryPoint ->
                                <<Session(account), StoredContract(Relay)>>
                           [] OTHER -> <<Session(account), StoredContract(Token)>>,
               args |-> [name \in {} |-> 0], outer |-> [name \in {} |-> 0], sought |-> {},
               steps |-> Program[entry_point], new |-> [name \in {} |-> 0],
               event |-> Contract!NoEvent]
    /\ UNCHANGED <<ledger, copy, deploy>>

At(step) == run.steps # <<>> /\ Head(run.steps) = step

Answer(error, event) ==
    deploy' = [entry_point |-> IF run.deployed = "call" THEN "call" ELSE run.entry_point,
               stack |-> run.stack, error |-> error, event |-> event]

\* A revert anywhere in the deploy drops everything it has written.
Fail(error) ==
    /\ Answer(error, Contract!NoEvent)
    /\ run' = Idle
    /\ copy' = ledger
    /\ UNCHANGED ledger

Commit ==
    /\ run # Idle /\ run.steps = <<>>
    /\ Answer(Ok, run.event)
    /\ run' = Idle
    /\ ledger' = copy
    /\ UNCHANGED copy

OutOfGas == run.steps # <<>> /\ Fail("OutOfGas")

Proceed == run' = [run EXCEPT !.steps = Tail(@)] /\ UNCHANGED <<ledger, copy, deploy>>

Compute(name, value) ==
    /\ run' = [run EXCEPT !.steps = Tail(@), !.new = Bind(name, value, @)]
    /\ UNCHANGED <<ledger, copy, deploy>>

Write(new_copy) ==
    /\ copy' = new_copy
    /\ run' = [run EXCEPT !.steps = Tail(@)]
    /\ UNCHANGED <<ledger, deploy>>

Check(step, holds, error) ==
    /\ At(step)
    /\ \/ holds /\ Proceed
       \/ ~holds /\ Fail(error)

(***************************************************************************)
(* Arguments.  One that nobody has read yet is chosen when it is read.     *)
(***************************************************************************)
ValuesOf(name) ==
    CASE name \in {"address", "owner", "spender", "recipient"} -> Named
      [] name = "amount" -> CallAmounts
      [] name = "total_supply" -> InstallSupplies
      [] name = "events_mode" -> InstallEventsModes
      [] name = "enable_mint_burn" -> InstallMintBurn
      [] name \in {"admin_list", "minter_list", "none_list"} ->
            IF run.deployed = "call" THEN InstallLists ELSE BadgeLists
      [] name = "token_contract" -> {Token}
      [] OTHER -> {"text"}

MayPass(name) ==
    \/ run.source = "session"
    \/ run.source = "client" /\ name \in ClientPasses[run.entry_point]

MayOmit(name) ==
    \/ run.source = "session"
    \/ run.source = "client" /\ (name \in DOMAIN Optional \/ ~MayPass(name))
    \/ run.source = "contract" /\ name \notin DOMAIN run.args

Sought(name, args) ==
    /\ run' = [run EXCEPT !.steps = Tail(@), !.sought = @ \cup {name}, !.args = args]
    /\ UNCHANGED <<ledger, copy, deploy>>

get_named_arg(name) ==
    /\ At(name)
    /\ \/ name \in DOMAIN run.args /\ Sought(name, run.args)
       \/ \E value \in ValuesOf(name) :
            MayPass(name) /\ Sought(name, Bind(name, value, run.args))
       \/ MayOmit(name) /\ name \in DOMAIN Optional /\ Sought(name, run.args)
       \/ MayOmit(name) /\ name \notin DOMAIN Optional /\ Fail("MissingArgument")
       \/ /\ run.source = "session"    \* malformed
          /\ Fail(IF name \in DOMAIN Optional THEN Optional[name] ELSE "InvalidArgument")

Given(name, default) == IF name \in DOMAIN run.args THEN run.args[name] ELSE default
List(name)           == Given(name, {})

\* An argument of the code that made the call, the session of an installation while init runs.
Outer(name, default) == IF name \in DOMAIN run.outer THEN run.outer[name] ELSE default

call_contract ==
    LET call == Calls[run.entry_point]
    IN  /\ At("call_contract")
        /\ run' = [run EXCEPT
                !.entry_point = call.callee, !.source = "contract",
                !.stack = Append(@, StoredContract(Token)),
                !.args = [name \in call.passes \cap DOMAIN run.args |-> run.args[name]],
                !.outer = run.args, !.sought = {}, !.steps = Program[call.callee] \o Tail(@)]
        /\ UNCHANGED <<ledger, copy, deploy>>

(***************************************************************************)
(* The token's steps                                                       *)
(***************************************************************************)
caller == Contract!get_immediate_caller_address(run.stack)
From   == Given("owner", caller)       \* whose tokens or allowance a call is about
To     == Given("recipient", From)     \* in mint, the owner

\* Variant with a bug: minters may change badges.
sec_check_list_minter == {"Admin", "Minter"}

\* The badges each caller of sec_check lets in.
sec_check_list == IF run.entry_point = "mint" THEN {"Admin", "Minter"} ELSE {"Admin"}

sec_check ==
    Check("sec_check", copy.security_badges[caller] \in sec_check_list, "InsufficientRights")

EventsMode == {0, 1}  \* NoEvents, CES

init_events == Check("init_events", copy.events_mode \in EventsMode, "InvalidEventsMode")

Checks ==
    \/ Check("owner_is_not_spender", caller # run.args["spender"], "CannotTargetSelfUser")
    \/ Check("sender_is_not_recipient", From # To, "CannotTargetSelfUser")
    \/ Check("owner_is_caller", From = caller, "InvalidBurnTarget")
    \/ Check("enabled", copy.enable_mint_burn # 0, "MintBurnDisabled")
    \/ Check("not_initialized", ~copy.initialized, "AlreadyInitialized")
    \/ sec_check
    \/ init_events

return_if_zero ==
    /\ At("return_if_zero")
    /\ run' = [run EXCEPT !.steps = IF run.args["amount"] = 0 THEN <<>> ELSE Tail(@)]
    /\ UNCHANGED <<ledger, copy, deploy>>

Grant == <<From, Given("spender", caller)>>

new_allowance ==
    LET current == copy.allowances[Grant]
        amount  == run.args["amount"]
    IN  /\ At("new_allowance")
        /\ \/ /\ run.entry_point = "approve"
              /\ Compute("allowance", amount)
           \/ /\ run.entry_point = "increase_allowance"
              /\ Compute("allowance", saturating_add(current, amount))
           \/ /\ run.entry_point = "decrease_allowance"
              /\ Compute("allowance", saturating_sub(current, amount))
           \/ /\ run.entry_point = "transfer_from"
              /\ IF SubUnderflows(current, amount)
                 THEN Fail("InsufficientAllowance")
                 ELSE Compute("allowance", current - amount)

write_allowance_to ==
    /\ At("write_allowance")
    /\ Write([copy EXCEPT !.allowances[Grant] = run.new["allowance"]])

\* transfer_balance returns at once when there is nothing to move.
call_transfer_balance ==
    /\ At("transfer_balance")
    /\ run' = [run EXCEPT !.steps =
            (IF From = To \/ run.args["amount"] = 0 THEN <<>> ELSE transfer_balance) \o Tail(@)]
    /\ UNCHANGED <<ledger, copy, deploy>>

\* Variant with a bug: the subtraction is not checked.
new_sender_balance_unchecked ==
    /\ At("new_sender_balance")
    /\ Compute("sender", copy.balances[From] - run.args["amount"])

new_sender_balance ==
    LET balance == copy.balances[From]
        amount  == run.args["amount"]
    IN  /\ At("new_sender_balance")
        /\ IF SubUnderflows(balance, amount)
           THEN Fail("InsufficientBalance")
           ELSE Compute("sender", balance - amount)

new_recipient_balance ==
    LET balance == copy.balances[To]
        amount  == run.args["amount"]
    IN  /\ At("new_recipient_balance")
        /\ IF AddOverflows(balance, amount)
           THEN Fail("Overflow")
           ELSE Compute("recipient", balance + amount)

new_total_supply ==
    LET amount == run.args["amount"]
        new    == IF run.entry_point = "mint" THEN copy.total_supply + amount
                                              ELSE copy.total_supply - amount
    IN  /\ At("new_supply")
        /\ IF new \notin U256 THEN Fail("Overflow") ELSE Compute("supply", new)

write_balance_to ==
    \/ /\ At("write_sender_balance")
       /\ Write([copy EXCEPT !.balances[From] = run.new["sender"]])
    \/ /\ At("write_recipient_balance")
       /\ Write([copy EXCEPT !.balances[To] = run.new["recipient"]])

write_total_supply_to ==
    /\ At("write_supply")
    /\ Write([copy EXCEPT !.total_supply = run.new["supply"]])

Badges(keys, badge) ==
    [copy EXCEPT !.security_badges = Over([k \in keys |-> badge], @)]

change_sec_badge ==
    LET map == Contract!badge_map(caller, List("admin_list"), List("minter_list"),
                                  List("none_list"))
    IN  /\ At("change_sec_badge")
        /\ Write([copy EXCEPT !.security_badges = Over(map, @)])

(***************************************************************************)
(* Installation                                                            *)
(***************************************************************************)
new_contract ==
    /\ At("new_contract")
    /\ copy' = [copy EXCEPT !.total_supply = run.args["total_supply"],
                            !.events_mode = Given("events_mode", 0),
                            !.enable_mint_burn = Given("enable_mint_burn", 0)]
    /\ run' = [run EXCEPT !.steps = Tail(@), !.args = Bind("package_hash", Token, @)]
    /\ UNCHANGED <<ledger, deploy>>

init_writes ==
    \/ At("new_dictionaries") /\ Write([copy EXCEPT !.initialized = TRUE])
    \/ /\ At("write_initial_balance")
       /\ Write([copy EXCEPT !.balances[get_caller(run.stack)] = run.args["total_supply"]])
    \/ At("write_installer_badge") /\ Write(Badges({get_caller(run.stack)}, "Admin"))
    \/ At("write_minters") /\ Write(Badges(List("minter_list"), "Minter"))
    \/ At("write_admins") /\ Write(Badges(List("admin_list"), "Admin"))

(***************************************************************************)
(* Events and results                                                      *)
(***************************************************************************)
EventOf ==
    LET amount == run.args["amount"]
    IN  CASE run.entry_point = "transfer" -> Contract!Transfer(From, To, amount)
          [] run.entry_point = "transfer_from" -> Contract!TransferFrom(caller, From, To, amount)
          [] run.entry_point = "approve" -> Contract!SetAllowance(Grant[1], Grant[2], amount)
          [] run.entry_point = "increase_allowance" ->
                Contract!IncreaseAllowance(Grant[1], Grant[2], run.new["allowance"], amount)
          [] run.entry_point = "decrease_allowance" ->
                Contract!DecreaseAllowance(Grant[1], Grant[2], run.new["allowance"], amount)
          [] run.entry_point = "mint" -> Contract!Mint(To, amount)
          [] run.entry_point = "burn" -> Contract!Burn(From, amount)
          [] run.entry_point = "init" ->
                Contract!Mint(get_caller(run.stack), run.args["total_supply"])
          [] run.entry_point = "change_security" ->
                Contract!ChangeSecurity(caller, Contract!badge_map(caller,
                    List("admin_list"), List("minter_list"), List("none_list")))

record_event_dictionary ==
    /\ At("record_event")
    /\ IF copy.events_mode \notin EventsMode
       THEN Fail("InvalidEventsMode")
       ELSE /\ run' = [run EXCEPT !.steps = Tail(@),
                  !.event = Contract!record_event_dictionary(copy.events_mode, EventOf)]
            /\ UNCHANGED <<ledger, copy, deploy>>

ret ==
    /\ At("ret")
    /\ Compute("result",
               CASE run.entry_point = "total_supply" -> copy.total_supply
                 [] run.entry_point = "balance_of" -> copy.balances[run.args["address"]]
                 [] run.entry_point = "allowance" -> copy.allowances[Grant])

\* Variant with a bug: a result that is stored is not written again.
store_result_once ==
    /\ At("store_result")
    /\ Write(IF copy.result = {} THEN [copy EXCEPT !.result = {run.new["result"]}] ELSE copy)

\* The test contract keeps the last answer under one named key, new or not; the key is a set
\* here, empty before the first answer.
store_result ==
    /\ At("store_result")
    /\ Write([copy EXCEPT !.result = {run.new["result"]}])

Init ==
    /\ ledger = [initialized |-> FALSE, balances |-> [k \in Key |-> 0],
                 allowances |-> [pair \in Key \X Key |-> 0], total_supply |-> 0,
                 security_badges |-> [k \in Key |-> Contract!Absent],
                 events_mode |-> 0, enable_mint_burn |-> 0, result |-> {}]
    /\ copy = ledger
    /\ run = Idle
    /\ deploy = [entry_point |-> "none", stack |-> <<>>, error |-> Ok, event |-> Contract!NoEvent]

Next ==
    \/ \E account \in Account, source \in {"session", "client"}, entry_point \in Called :
            Start(account, source, entry_point)
    \/ Commit \/ OutOfGas
    \/ \E name \in ArgumentName : get_named_arg(name)
    \/ call_contract \/ Checks \/ return_if_zero
    \/ new_allowance \/ write_allowance_to
    \/ call_transfer_balance \/ new_sender_balance \/ new_recipient_balance
    \/ new_total_supply \/ write_balance_to \/ write_total_supply_to
    \/ change_sec_badge \/ new_contract \/ init_writes
    \/ record_event_dictionary \/ ret \/ store_result

Spec == Init /\ [][Next]_vars

-----------------------------------------------------------------------------
\* Neither what is committed nor a tracking copy in the middle of a deploy ever holds a number
\* that is no U256.
TypeOK ==
    \A state \in {ledger, copy} :
        /\ state.balances \in [Key -> U256]
        /\ state.allowances \in [Key \X Key -> U256]
        /\ state.total_supply \in U256
        /\ state.security_badges \in [Key -> Contract!SecurityBadge \cup {Contract!Absent}]
        /\ state.result \in SUBSET U256

\* A deploy ends in this step, and where it stood.
Ends      == run # Idle /\ run' = Idle
AtArgument == run.steps # <<>> /\ Head(run.steps) \in ArgumentName

\* The action of CEP18 that a deploy which ends now should have been, arguments included; those
\* it failed before reading do not matter.
Read(name, values) == IF name \in DOMAIN run.args THEN {run.args[name]} ELSE values

AsCalled ==
    \E spender \in Read("spender", {caller}), owner \in Read("owner", {caller}),
       recipient \in Read("recipient", {caller}), amount \in Read("amount", {0}) :
        \/ /\ run.entry_point = "transfer"
           /\ Contract!transfer(run.stack, recipient, amount)
        \/ /\ run.entry_point = "transfer_from"
           /\ Contract!transfer_from(run.stack, owner, recipient, amount)
        \/ /\ run.entry_point = "approve"
           /\ Contract!approve(run.stack, spender, amount)
        \/ /\ run.entry_point = "increase_allowance"
           /\ Contract!increase_allowance(run.stack, spender, amount)
        \/ /\ run.entry_point = "decrease_allowance"
           /\ Contract!decrease_allowance(run.stack, spender, amount)
        \/ /\ run.entry_point = "mint"
           /\ Contract!mint(run.stack, owner, amount)
        \/ /\ run.entry_point = "burn"
           /\ Contract!burn(run.stack, owner, amount)
        \/ /\ run.entry_point = "change_security"
           /\ Contract!change_security(run.stack, List("admin_list"), List("minter_list"),
                                       List("none_list"))
        \/ /\ run.deployed = "init"
           /\ Contract!init(run.stack)
        \/ /\ run.deployed = "call"
           /\ Contract!install_contract(get_caller(run.stack), Outer("total_supply", 0),
                Outer("events_mode", 0), Outer("enable_mint_burn", 0),
                Outer("admin_list", {}), Outer("minter_list", {}))

\* Entry points are atomic: from the committed state every deploy looks like the one step of
\* CEP18 it called, whatever it reads and writes on the way, and one that only reads, runs out
\* of gas or is refused an argument leaves the token as it was.
ImplementsCEP18 ==
    /\ Contract!Init
    /\ [][IF Ends /\ deploy'.error # "OutOfGas" /\ run.entry_point \notin ReadOnly
             /\ ~(AtArgument /\ deploy'.error # Ok)
          THEN AsCalled
          ELSE UNCHANGED Contract!state]_vars

\* No entry point finds out that it must revert once it has written something: whether a call is
\* refused never depends on the platform undoing it.  Installation is the one exception.
ChecksPrecedeWrites ==
    [][Ends /\ deploy'.error \notin {Ok, "OutOfGas"} /\ run.deployed # "call" => copy = ledger]_vars

\* The table of entry points tells callers what they must pass: no deploy is refused for lack of
\* an argument that is not declared, and none succeeds without having looked for all that are.
\* The lists of change_security, which may be left out, are declared nowhere.
DeclaredIsWhatIsRead ==
    [][Ends /\ run.entry_point # "call" =>
          /\ deploy'.error = "MissingArgument" => Head(run.steps) \in Parameters(run.entry_point)
          /\ deploy'.error = Ok /\ run.deployed # "call"
                => Parameters(run.entry_point) \subseteq run.sought]_vars

\* The client, the test contract and install_contract pass what the code they call reads: only a
\* session that builds its own arguments is ever refused one.
CallersPassWhatIsRead ==
    [][Ends /\ AtArgument /\ deploy'.error # "OutOfGas" => run.source = "session"]_vars

\* After a check_ entry point of the test contract the key "result" holds what the token holds,
\* never an earlier answer.
ResultIsCurrent ==
    [][Ends /\ deploy'.error = Ok /\ run.entry_point \in ReadOnly /\ run.deployed \in TestEntryPoint =>
          ledger'.result = {CASE run.entry_point = "total_supply" -> ledger.total_supply
                              [] run.entry_point = "balance_of" ->
                                    ledger.balances[run.args["address"]]
                              [] run.entry_point = "allowance" ->
                                    ledger.allowances[<<run.args["owner"], run.args["spender"]>>]}]_vars

\* A new token has an Admin unless its installer is on the minter_list it was installed with and
\* the admin_list is empty; as only an Admin can make one, such a token never has any.
AdminUnlessInstallerIsMinter ==
    [][ledger'.initialized /\ ~ledger.initialized =>
          ((\E k \in Key : ledger'.security_badges[k] = "Admin")
              <=> \/ Outer("admin_list", {}) # {}
                  \/ get_caller(run.stack) \notin Outer("minter_list", {}))]_vars

(***************************************************************************)
(* What a comment says and the code does not do                            *)
(***************************************************************************)

\* The lists the entry point table names as optional arguments of change_security are those a
\* successful call has looked for: burner_list and mint_and_burn_list are ignored.
CommentedListsAreRead ==
    [][Ends /\ deploy'.error = Ok /\ run.entry_point = "change_security"
          => CommentedLists \subseteq run.sought]_vars
====
