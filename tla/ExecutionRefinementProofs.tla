---- MODULE ExecutionRefinementProofs ----
(***************************************************************************)
(* A deploy, however many host calls it makes, is one step of CEP18.       *)
(***************************************************************************)
EXTENDS ExecutionProofs

(***************************************************************************)
(* Nothing is skipped, and nothing is read for others                      *)
(***************************************************************************)
\* The steps left are the last of the program, and of transfer_balance where it has been entered.
Suffix ==
    /\ \A y \in Todo, x \in Elements(Program[run.entry_point]) :
          ~(Rank(x) <= Rank(y)) => x \in Todo
    /\ run.entry_point \in {"transfer", "transfer_from"} =>
          \A y \in Todo \cap Elements(transfer_balance), x \in Elements(transfer_balance) :
              ~(Rank(x) <= Rank(y)) => x \in Todo

\* A program holds its steps before it begins, and none of transfer_balance.
LEMMA BegunSuffix ==
  ASSUME run'.entry_point \in EntryPoint, Elements(Program[run'.entry_point]) \subseteq Todo',
         Todo' \subseteq Elements(Program[run'.entry_point]) \cup {"store_result"}
  PROVE  Suffix'
<1>1. run'.entry_point \in {"transfer", "transfer_from"} =>
        Todo' \cap Elements(transfer_balance) = {}
  BY ProgramExact, TransferBalanceSteps
<1>2. QED
  BY <1>1 DEF Suffix

LEMMA PoppedSuffix ==
  ASSUME Control, Suffix, Popped, Head(run.steps) # "call_contract", ledger' = ledger
  PROVE  Suffix'
<1>1. Todo' = Todo \ {Head(run.steps)} /\ run'.entry_point = run.entry_point
  BY PoppedControl DEF Popped, Kept
<1>2. \A y \in Todo : Rank(Head(run.steps)) <= Rank(y)
  BY HeadTodo DEF Popped
<1>3. QED
  BY <1>1, <1>2 DEF Suffix

LEMMA ReturnSuffix ==
  ASSUME Control, Suffix, return_if_zero
  PROVE  Suffix'
<1>1. Kept /\ run'.steps = (IF run.args["amount"] = 0 THEN <<>> ELSE Tail(run.steps))
      /\ ledger' = ledger /\ Head(run.steps) = "return_if_zero" /\ run.steps # <<>>
  BY ReturnFields DEF return_if_zero, At
<1>2. CASE run.args["amount"] # 0
  BY <1>1, <1>2, PoppedSuffix DEF Popped
<1>3. CASE run.args["amount"] = 0
  <2>1. Todo' = {}
    BY <1>1, <1>3, EmptySteps DEF Todo
  <2>2. QED
    BY <2>1 DEF Suffix
<1>4. QED
  BY <1>2, <1>3

LEMMA MovesAfter ==
  ASSUME NEW y \in Elements(transfer_balance)
  PROVE  /\ Rank("transfer_balance") <= Rank(y)
         /\ \A x \in Step : Rank(x) <= Rank("transfer_balance") => Rank(x) <= Rank(y)
<1>1. y \in {"new_sender_balance", "new_recipient_balance", "write_sender_balance",
             "write_recipient_balance"}
  BY TransferBalanceSteps
<1>2. y \in Step /\ "transfer_balance" \in Step
  BY <1>1 DEF Step
<1>3. Rank("transfer_balance") <= Rank(y)
  BY <1>1, RankTable
<1>4. \A x \in Step : Rank(x) \in Nat
  BY RankNat
<1>5. QED
  BY <1>2, <1>3, <1>4

LEMMA TransferSuffix ==
  ASSUME Control, Suffix, call_transfer_balance
  PROVE  Suffix'
<1>1. Kept /\ "transfer_balance" \in Todo /\ Todo \cap Elements(transfer_balance) = {}
  <2>1. "transfer_balance" \in Todo
    BY HeadTodo DEF call_transfer_balance, At
  <2>2. QED
    BY <2>1, TransferFields DEF Control
<1>2. /\ Todo' \subseteq (Todo \ {"transfer_balance"}) \cup Elements(transfer_balance)
      /\ Todo \ {"transfer_balance"} \subseteq Todo'
      /\ Todo' \cap Elements(transfer_balance) = {} \/ Elements(transfer_balance) \subseteq Todo'
  BY <1>1, TransferControl
<1>3. \A y \in Todo : Rank("transfer_balance") <= Rank(y)
  BY HeadTodo DEF call_transfer_balance, At
<1>4. Elements(Program[run.entry_point]) \subseteq Step
  BY ProgramSteps DEF Control, Elements
<1>5. ASSUME NEW y \in Todo', NEW x \in Elements(Program[run.entry_point]),
             ~(Rank(x) <= Rank(y))
      PROVE  x \in Todo'
  <2>1. x # "transfer_balance"
    <3>1. CASE y \in Todo
      BY <1>3, <1>5, <3>1
    <3>2. CASE y \in Elements(transfer_balance)
      <4>1. Rank("transfer_balance") <= Rank(y)
        BY <3>2, MovesAfter
      <4>2. QED
        BY <1>5, <4>1
    <3>3. QED
      BY <1>2, <3>1, <3>2
  <2>2. x \in Todo
    <3>1. CASE y \in Todo
      BY <1>5, <3>1 DEF Suffix
    <3>2. CASE y \in Elements(transfer_balance)
      <4>1. ~(Rank(x) <= Rank("transfer_balance"))
        BY <1>4, <1>5, <3>2, MovesAfter
      <4>2. QED
        BY <1>1, <4>1 DEF Suffix
    <3>3. QED
      BY <1>2, <3>1, <3>2
  <2>3. QED
    BY <1>2, <2>1, <2>2
<1>6. \A y \in Todo' \cap Elements(transfer_balance), x \in Elements(transfer_balance) : x \in Todo'
  BY <1>2
<1>7. QED
  BY <1>1, <1>5, <1>6 DEF Suffix, Kept

SuffixInv == run # Idle => Suffix

\* The steps of a running deploy that do one thing of their program and end nothing.
LEMMA Pops ==
  ASSUME Control, run' # Idle,
         Asks \/ Checks \/ Computes \/ Writes \/ new_contract \/ record_event_dictionary
  PROVE  /\ Popped /\ Head(run.steps) # "call_contract" /\ ledger' = ledger
         /\ Control' /\ Todo' = Todo \ {Head(run.steps)}
<1>1. /\ Popped /\ Head(run.steps) # "call_contract" /\ ledger' = ledger
  <2>1. CASE Asks
    BY <2>1, AskPops, ArgumentNames DEF Arguments
  <2>2. CASE Checks \/ Computes \/ Writes
    BY <2>2, CheckPops, ComputePops, WritePops
  <2>3. CASE new_contract
    BY <2>3, NewContractFields DEF new_contract, At
  <2>4. CASE record_event_dictionary
    BY <2>4, RecordFields DEF record_event_dictionary, At
  <2>5. QED
    BY <2>1, <2>2, <2>3, <2>4
<1>2. QED
  BY <1>1, PoppedControl

\* A deploy that begins, or a call, has the program of its entry point before it.
LEMMA StartBegun ==
  ASSUME NEW account \in Account, NEW source \in {"session", "client"}, NEW e \in Called,
         Start(account, source, e)
  PROVE  /\ run'.entry_point = e /\ run'.deployed = e /\ e \in EntryPoint
         /\ Todo' = Elements(Program[e])
         /\ run'.event = Contract!NoEvent /\ DOMAIN run'.args = {}
         /\ ledger' = ledger /\ copy' = copy
<1>1. run'.steps = Program[e]
  BY DEF Start
<1>2. e \in EntryPoint
  BY CalledAssumption, EntryPoints
<1>3. QED
  BY <1>1, <1>2 DEF Start, Todo

LEMMA CallBegun ==
  ASSUME Control, call_contract
  PROVE  /\ run'.entry_point = Calls[run.entry_point].callee /\ run'.entry_point \in EntryPoint
         /\ run.deployed \in DOMAIN Calls /\ run.entry_point = run.deployed
         /\ Todo' = Elements(Program[run'.entry_point]) \cup After(run.deployed)
<1>1. run'.entry_point = Calls[run.entry_point].callee
  BY CallFields
<1>2. Control' /\ run.deployed \in DOMAIN Calls /\ run.entry_point = run.deployed
  BY CallControl
<1>3. Todo' = Elements(Program[run'.entry_point]) \cup After(run.deployed)
  BY CallControl
<1>4. QED
  BY <1>1, <1>2, <1>3 DEF Control

LEMMA SuffixNext ==
  ASSUME ControlInv, SuffixInv, Next PROVE SuffixInv'
<1>1. SUFFICES ASSUME run' # Idle PROVE Suffix'
  BY DEF SuffixInv
<1>2. CASE run = Idle
  BY <1>2, IdleStarts, StartBegun, BegunSuffix
<1>3. CASE run # Idle
  <2>1. Control /\ Suffix
    BY <1>3 DEF ControlInv, SuffixInv
  <2>2. CASE Asks \/ Checks \/ Computes \/ Writes \/ new_contract \/ record_event_dictionary
    BY <1>1, <2>1, <2>2, Pops, PoppedSuffix
  <2>3. CASE return_if_zero \/ call_transfer_balance
    BY <2>1, <2>3, ReturnSuffix, TransferSuffix
  <2>4. CASE call_contract
    BY <2>1, <2>4, CallBegun, BegunSuffix DEF After
  <2>5. CASE Commit \/ OutOfGas
    BY <1>1, <2>5, FailEnds DEF Commit, OutOfGas
  <2>6. QED
    BY <1>3, <2>2, <2>3, <2>4, <2>5, Kinds
<1>4. QED
  BY <1>2, <1>3

\* Nobody but its entry point has read an argument.
ArgsOwn == DOMAIN run.args \subseteq Own(run.entry_point) \cup {"package_hash"}

\* Reading an argument leaves all others as they are, and what a contract passes too.
LEMMA AskOthers ==
  ASSUME Control, Asks, run' # Idle
  PROVE  /\ DOMAIN run'.args \subseteq DOMAIN run.args \cup {Head(run.steps)}
         /\ DOMAIN run.args \subseteq DOMAIN run'.args
         /\ \A y \in DOMAIN run.args : y # Head(run.steps) => run'.args[y] = run.args[y]
         /\ run.source = "contract" => run'.args = run.args
         /\ run'.new = run.new /\ run'.event = run.event
<1>1. PICK x \in ArgumentName : get_named_arg(x)
  BY DEF Asks
<1>2. /\ Head(run.steps) = x /\ run'.new = run.new /\ run'.event = run.event
      /\ run.steps # <<>>
  BY <1>1, AskEffect DEF get_named_arg, At
<1>3. CASE run'.args = run.args
  BY <1>2, <1>3
<1>4. CASE \E v : MayPass(x) /\ Sought(x, Bind(x, v, run.args))
  <2>1. PICK v : MayPass(x) /\ Sought(x, Bind(x, v, run.args))
    BY <1>4
  <2>2. run'.args = Bind(x, v, run.args)
    BY <1>2, <2>1, SoughtFields
  <2>3. DOMAIN Bind(x, v, run.args) = DOMAIN run.args \cup {x}
    BY BindFacts
  <2>4. \A y \in DOMAIN run.args : y # x => Bind(x, v, run.args)[y] = run.args[y]
    BY BindOther
  <2>5. run.source # "contract"
    BY <2>1 DEF MayPass
  <2>6. QED
    BY <1>2, <2>2, <2>3, <2>4, <2>5
<1>5. CASE Sought(x, run.args)
  <2>1. run'.args = run.args
    BY <1>2, <1>5, SoughtFields
  <2>2. QED
    BY <1>3, <2>1
<1>6. QED
  BY <1>1, <1>4, <1>5, FailEnds DEF get_named_arg

\* The steps that read no argument, and begin no other entry point.
LEMMA SameArguments ==
  ASSUME Control, run' # Idle,
         Checks \/ Computes \/ Writes \/ record_event_dictionary \/ return_if_zero
           \/ call_transfer_balance
  PROVE  Kept /\ run'.args = run.args /\ ledger' = ledger
<1>1. CASE Checks \/ Computes \/ Writes
  BY <1>1, CheckPops, ComputePops, WritePops DEF Popped
<1>2. CASE record_event_dictionary \/ return_if_zero \/ call_transfer_balance
  BY <1>2, RecordFields, ReturnFields, TransferFields DEF Popped
<1>3. QED
  BY <1>1, <1>2

LEMMA CallPasses ==
  ASSUME Control, call_contract
  PROVE  /\ ArgsOwn'
         /\ \A y \in DOMAIN run'.args : y \in DOMAIN run.args /\ run'.args[y] = run.args[y]
<1> DEFINE passes == Calls[run.entry_point].passes
<1>1. run'.args = [name \in passes \cap DOMAIN run.args |-> run.args[name]]
  BY CallFields
<1>2. run'.entry_point = Calls[run.entry_point].callee /\ run.entry_point \in DOMAIN Calls
  BY CallBegun
<1>3. passes \subseteq Own(Calls[run.entry_point].callee) \cup {"package_hash"}
  BY <1>2, CallTable, OwnSteps
<1> HIDE DEF passes
<1>4. QED
  BY <1>1, <1>2, <1>3 DEF ArgsOwn

ArgsOwnInv == run # Idle => ArgsOwn

LEMMA ArgsOwnNext ==
  ASSUME ControlInv, ArgsOwnInv, Next PROVE ArgsOwnInv'
<1>1. SUFFICES ASSUME run' # Idle PROVE ArgsOwn'
  BY DEF ArgsOwnInv
<1>2. CASE run = Idle
  BY <1>2, IdleStarts, StartBegun DEF ArgsOwn
<1>3. CASE run # Idle
  <2>1. Control /\ ArgsOwn
    BY <1>3 DEF ControlInv, ArgsOwnInv
  <2>2. CASE Asks
    <3>1. run'.entry_point = run.entry_point /\ Head(run.steps) \in Own(run.entry_point)
      <4>1. Popped /\ Head(run.steps) \in Arguments
        BY <1>1, <2>1, <2>2, AskPops, ArgumentNames
      <4>2. QED
        BY <2>1, <4>1, HeadOwn DEF Popped, Kept, Arguments
    <3>2. QED
      BY <1>1, <2>1, <2>2, <3>1, AskOthers DEF ArgsOwn
  <2>3. CASE Checks \/ Computes \/ Writes \/ record_event_dictionary \/ return_if_zero
               \/ call_transfer_balance
    BY <1>1, <2>1, <2>3, SameArguments DEF ArgsOwn, Kept
  <2>4. CASE new_contract
    <3>1. run'.args = Bind("package_hash", Token, run.args) /\ run'.entry_point = run.entry_point
      BY <2>1, <2>4, NewContractFields DEF Popped, Kept
    <3>2. DOMAIN Bind("package_hash", Token, run.args) = DOMAIN run.args \cup {"package_hash"}
      BY BindFacts
    <3>3. QED
      BY <2>1, <3>1, <3>2 DEF ArgsOwn
  <2>5. CASE call_contract
    BY <2>1, <2>5, CallPasses
  <2>6. CASE Commit \/ OutOfGas
    BY <1>1, <2>6, FailEnds DEF Commit, OutOfGas
  <2>7. QED
    BY <1>3, <2>2, <2>3, <2>4, <2>5, <2>6, Kinds
<1>4. QED
  BY <1>2, <1>3

-----------------------------------------------------------------------------
(***************************************************************************)
(* What a deploy has checked, computed, written and recorded so far.  A    *)
(* step that is not to be done any more has been done, unless the entry    *)
(* point returned before it.                                               *)
(***************************************************************************)
Approving == {"approve", "decrease_allowance", "increase_allowance"}
Granting  == Approving \cup {"transfer_from"}
Moving    == {"transfer", "transfer_from"}
Minting   == {"mint", "burn"}
Guarded   == Minting \cup {"change_security"}
Changing  == WithAmount \cup {"change_security"}

Amount == run.args["amount"]

\* transfer_from has returned because there is nothing to transfer.
Zero == run.entry_point = "transfer_from" /\ "return_if_zero" \notin Todo /\ Amount = 0

\* transfer_balance has been entered and did not return.
Moves == run.entry_point \in Moving /\ "transfer_balance" \notin Todo /\ Amount # 0

\* What will be written, from what is committed.
NewAllowance ==
    CASE run.entry_point = "approve" -> Amount
      [] run.entry_point = "increase_allowance" -> saturating_add(ledger.allowances[Grant], Amount)
      [] run.entry_point = "decrease_allowance" -> saturating_sub(ledger.allowances[Grant], Amount)
      [] run.entry_point = "transfer_from" -> ledger.allowances[Grant] - Amount

Debited   == ledger.balances[From] - Amount
Credited  == ledger.balances[To] + Amount
NewSupply == IF run.entry_point = "mint" THEN ledger.total_supply + Amount
                                         ELSE ledger.total_supply - Amount
BadgeMap  == Contract!badge_map(caller, List("admin_list"), List("minter_list"), List("none_list"))

Checked ==
    /\ run.entry_point \in Approving /\ "owner_is_not_spender" \notin Todo =>
          caller # run.args["spender"]
    /\ run.entry_point \in Moving /\ "sender_is_not_recipient" \notin Todo => From # To
    /\ run.entry_point = "burn" /\ "owner_is_caller" \notin Todo => From = caller
    /\ run.entry_point \in Guarded /\ "enabled" \notin Todo => ledger.enable_mint_burn # 0
    /\ run.entry_point \in {"mint", "change_security"} /\ "sec_check" \notin Todo =>
          ledger.security_badges[caller] \in sec_check_list

AllowanceComputed ==
    run.entry_point \in Granting /\ "new_allowance" \notin Todo /\ ~Zero =>
        /\ run.new["allowance"] = NewAllowance
        /\ run.entry_point = "transfer_from" => ~SubUnderflows(ledger.allowances[Grant], Amount)

BalancesComputed ==
    /\ (Moves \/ run.entry_point = "burn") /\ "new_sender_balance" \notin Todo =>
          run.new["sender"] = Debited /\ ~SubUnderflows(ledger.balances[From], Amount)
    /\ (Moves \/ run.entry_point = "mint") /\ "new_recipient_balance" \notin Todo =>
          run.new["recipient"] = Credited /\ ~AddOverflows(ledger.balances[To], Amount)

SupplyComputed ==
    run.entry_point \in Minting /\ "new_supply" \notin Todo =>
        run.new["supply"] = NewSupply /\ NewSupply \in U256

\* transfer_balance goes on only when there is something to move.
Entered == run.entry_point \in Moving /\ Todo \cap Elements(transfer_balance) # {} => Amount # 0

SenderWritten    == (Moves \/ run.entry_point = "burn") /\ "write_sender_balance" \notin Todo
RecipientWritten == (Moves \/ run.entry_point = "mint") /\ "write_recipient_balance" \notin Todo

AllowanceWritten ==
    copy.allowances =
        IF run.entry_point \in Granting /\ "write_allowance" \notin Todo /\ ~Zero
        THEN [ledger.allowances EXCEPT ![Grant] = NewAllowance] ELSE ledger.allowances

BalancesWritten ==
    /\ SenderWritten /\ ~RecipientWritten =>
          copy.balances = [ledger.balances EXCEPT ![From] = Debited]
    /\ SenderWritten /\ RecipientWritten =>
          copy.balances = [ledger.balances EXCEPT ![From] = Debited, ![To] = Credited]
    /\ ~SenderWritten /\ RecipientWritten =>
          copy.balances = [ledger.balances EXCEPT ![To] = Credited]
    /\ ~SenderWritten /\ ~RecipientWritten => copy.balances = ledger.balances

SupplyWritten ==
    copy.total_supply = IF run.entry_point \in Minting /\ "write_supply" \notin Todo
                        THEN NewSupply ELSE ledger.total_supply

BadgesWritten ==
    copy.security_badges =
        IF run.entry_point = "change_security" /\ "change_sec_badge" \notin Todo
        THEN Over(BadgeMap, ledger.security_badges) ELSE ledger.security_badges

Recorded ==
    /\ run.entry_point \notin Changing \/ "record_event" \in Todo => run.event = Contract!NoEvent
    /\ run.entry_point \in Changing /\ "record_event" \notin Todo =>
          /\ Todo = {}
          /\ run.event = IF Zero THEN Contract!NoEvent
                         ELSE Contract!record_event_dictionary(ledger.events_mode, EventOf)
    /\ Zero => Todo = {}

Done == AllowanceComputed /\ BalancesComputed /\ SupplyComputed /\ Entered
        /\ AllowanceWritten /\ BalancesWritten /\ SupplyWritten /\ BadgesWritten /\ Recorded

Stage == run.deployed # "call" => Checked /\ Done

(***************************************************************************)
(* Before a step that computes, nothing is done                            *)
(***************************************************************************)
Acting == AfterAmount \cup {"change_sec_badge"}
Fresh  == Elements(Program[run.entry_point]) \cap Acting \subseteq Todo

LEMMA ProgramActs ==
    /\ \A e \in Granting : {"new_allowance", "write_allowance"} \subseteq Elements(Program[e])
    /\ \A e \in Moving : "transfer_balance" \in Elements(Program[e])
    /\ "return_if_zero" \in Elements(Program["transfer_from"])
    /\ \A e \in Minting : {"new_supply", "write_supply"} \subseteq Elements(Program[e])
    /\ {"new_sender_balance", "write_sender_balance"} \subseteq Elements(Program["burn"])
    /\ {"new_recipient_balance", "write_recipient_balance"} \subseteq Elements(Program["mint"])
    /\ "change_sec_badge" \in Elements(Program["change_security"])
    /\ \A e \in Changing : "record_event" \in Elements(Program[e])
<1>1. \A e \in Approving \cup Minting \cup {"change_security"} : Elements(Program[e]) = Own(e)
  BY ProgramExact DEF Approving, Minting, EntryPoint
<1>2. \A e \in Moving : Elements(Program[e]) = Own(e) \ Elements(transfer_balance)
  BY ProgramExact DEF Moving
<1>3. QED
  BY <1>1, <1>2, OwnSteps, TransferBalanceSteps
     DEF Granting, Approving, Moving, Minting, Changing, WithAmount

LEMMA FreshDone ==
  ASSUME run'.entry_point \in EntryPoint, copy' = ledger', run'.event = Contract!NoEvent,
         Elements(Program[run'.entry_point]) \cap Acting \subseteq Todo' \cup {"return_if_zero"},
         ~Zero', Entered'
  PROVE  Done'
<1>1. /\ run'.entry_point \in Granting => "new_allowance" \in Todo' /\ "write_allowance" \in Todo'
      /\ run'.entry_point \in Moving => "transfer_balance" \in Todo'
      /\ run'.entry_point \in Minting => "new_supply" \in Todo' /\ "write_supply" \in Todo'
      /\ run'.entry_point = "burn" =>
            "new_sender_balance" \in Todo' /\ "write_sender_balance" \in Todo'
      /\ run'.entry_point = "mint" =>
            "new_recipient_balance" \in Todo' /\ "write_recipient_balance" \in Todo'
      /\ run'.entry_point = "change_security" => "change_sec_badge" \in Todo'
      /\ run'.entry_point \in Changing => "record_event" \in Todo'
  BY ProgramActs DEF Acting, AfterAmount
<1>2. ~Moves'
  BY <1>1 DEF Moves
<1>3. ~SenderWritten' /\ ~RecipientWritten'
  BY <1>1, <1>2 DEF SenderWritten, RecipientWritten
<1>4. AllowanceComputed' /\ BalancesComputed' /\ SupplyComputed'
  BY <1>1, <1>2 DEF AllowanceComputed, BalancesComputed, SupplyComputed
<1>5. AllowanceWritten' /\ BalancesWritten' /\ SupplyWritten' /\ BadgesWritten'
  BY <1>1, <1>3 DEF AllowanceWritten, BalancesWritten, SupplyWritten, BadgesWritten
<1>6. Recorded'
  BY <1>1, <1>2 DEF Recorded
<1>7. QED
  BY <1>4, <1>5, <1>6 DEF Done

LEMMA FreshNext ==
  ASSUME Control', Fresh', copy' = ledger', run'.event = Contract!NoEvent
  PROVE  Done'
<1>1. /\ ~Zero'
      /\ run'.entry_point \in Moving => "transfer_balance" \in Todo'
  BY ProgramActs DEF Fresh, Zero, Acting, AfterAmount
<1>2. Entered'
  BY <1>1 DEF Entered, Control
<1>3. run'.entry_point \in EntryPoint
  BY DEF Control
<1>4. QED
  BY <1>1, <1>2, <1>3, FreshDone DEF Fresh

\* The checks of a program come before what it does.
LEMMA ProgramChecks ==
    /\ \A e \in Approving : "owner_is_not_spender" \in Elements(Program[e])
    /\ \A e \in Moving : "sender_is_not_recipient" \in Elements(Program[e])
    /\ "owner_is_caller" \in Elements(Program["burn"])
    /\ \A e \in Guarded : "enabled" \in Elements(Program[e])
    /\ \A e \in {"mint", "change_security"} : "sec_check" \in Elements(Program[e])
<1>1. \A e \in Approving \cup Guarded : Elements(Program[e]) = Own(e)
  BY ProgramExact DEF Approving, Guarded, Minting, EntryPoint
<1>2. \A e \in Moving : Elements(Program[e]) = Own(e) \ Elements(transfer_balance)
  BY ProgramExact DEF Moving
<1>3. QED
  BY <1>1, <1>2, OwnSteps, TransferBalanceSteps DEF Approving, Guarded, Moving, Minting

LEMMA BegunStage ==
  ASSUME Control', Elements(Program[run'.entry_point]) \subseteq Todo',
         copy' = ledger', run'.event = Contract!NoEvent
  PROVE  Stage'
<1>1. Done'
  BY FreshNext DEF Fresh
<1>2. Checked'
  BY ProgramChecks DEF Checked
<1>3. QED
  BY <1>1, <1>2 DEF Stage

CheckSteps == {"owner_is_not_spender", "sender_is_not_recipient", "owner_is_caller", "enabled",
               "not_initialized", "sec_check", "init_events"}

LEMMA EarlyRanks ==
    /\ \A x \in AfterAmount, h \in Arguments \cup CheckSteps : ~(Rank(x) <= Rank(h))
    /\ \A h \in Own("change_security") \cap (Arguments \cup CheckSteps) :
          ~(Rank("change_sec_badge") <= Rank(h))
<1>1. \A h \in Arguments : Rank(h) \in Nat /\ Rank(h) <= 27
  BY RankTable DEF Arguments
<1>2. \A h \in CheckSteps : Rank(h) \in Nat /\ Rank(h) <= 27
  BY RankTable DEF CheckSteps
<1>3. \A x \in AfterAmount : Rank(x) \in Nat /\ 28 <= Rank(x)
  BY RankTable DEF AfterAmount
<1>4. \A h \in {"enabled", "sec_check", "admin_list", "minter_list", "none_list"} :
          ~(Rank("change_sec_badge") <= Rank(h))
  BY RankTable
<1>5. \A h \in Own("change_security") \cap (Arguments \cup CheckSteps) :
          h \in {"enabled", "sec_check", "admin_list", "minter_list", "none_list"}
  BY OwnSteps DEF Arguments, CheckSteps
<1>6. QED
  BY <1>1, <1>2, <1>3, <1>4, <1>5

LEMMA EarlyFresh ==
  ASSUME Control, Suffix, Popped, ledger' = ledger, Head(run.steps) \in Arguments \cup CheckSteps
  PROVE  Fresh' /\ Fresh
<1> DEFINE h == Head(run.steps)
<1>1. /\ Todo' = Todo \ {h} /\ h \in Todo /\ h \in Own(run.entry_point)
      /\ run'.entry_point = run.entry_point
  BY PoppedControl, HeadTodo, HeadOwn DEF Popped, Kept, Arguments, CheckSteps
<1>2. ASSUME NEW x \in Elements(Program[run.entry_point]) \cap Acting
      PROVE  x \in Todo /\ x # h
  <2>1. ~(Rank(x) <= Rank(h))
    <3>1. CASE x \in AfterAmount
      BY <3>1, EarlyRanks
    <3>2. CASE x = "change_sec_badge"
      <4>1. run.entry_point = "change_security"
        BY <1>2, <3>2, ProgramOwn, StepOf DEF Control
      <4>2. QED
        BY <1>1, <3>2, <4>1, EarlyRanks
    <3>3. QED
      BY <1>2, <3>1, <3>2 DEF Acting
  <2>2. x \in Todo
    BY <1>1, <1>2, <2>1 DEF Suffix
  <2>3. x # h
    BY <1>2 DEF Acting, AfterAmount, Arguments, CheckSteps
  <2>4. QED
    BY <2>2, <2>3
<1>3. QED
  BY <1>1, <1>2 DEF Fresh

\* What has been checked before an argument is read does not depend on it.
LEMMA ReadBefore ==
    /\ ~(Rank("owner_is_not_spender") <= Rank("spender"))
    /\ \A x \in {"sender_is_not_recipient", "owner_is_caller"}, y \in {"owner", "recipient"} :
          ~(Rank(x) <= Rank(y))
BY RankTable

LEMMA AskChecked ==
  ASSUME Control, Args, Suffix, Checked, Asks, run' # Idle
  PROVE  Checked'
<1> DEFINE h == Head(run.steps)
           e == run.entry_point
<1>1. /\ Todo' = Todo \ {h} /\ h \in Todo /\ h \in Arguments /\ Kept /\ ledger' = ledger
  BY Pops, AskPops, HeadTodo, ArgumentNames DEF Popped
<1>2. /\ run'.entry_point = e /\ caller' = caller /\ sec_check_list' = sec_check_list
  BY <1>1 DEF Kept, caller, sec_check_list
<1>3. \A y \in Arguments : \A d : y # h => Given(y, d)' = Given(y, d)
  BY AskOthers DEF Given
<1>4. \A x \in CheckSteps : x \notin Todo' => x \notin Todo
  BY <1>1 DEF Arguments, CheckSteps
<1>5. ASSUME e \in Approving, "owner_is_not_spender" \notin Todo'
      PROVE  caller' # run'.args["spender"]
  <2>1. "spender" \notin Todo
    BY <1>4, <1>5, ProgramChecks, ReadBefore DEF Suffix, CheckSteps
  <2>2. "spender" \in Own(e) \cap Required
    BY <1>5, OwnSteps, OptionalTable DEF Approving, Required, Arguments
  <2>3. "spender" \in DOMAIN run.args /\ "spender" # h
    BY <1>1, <2>1, <2>2 DEF Args
  <2>4. run'.args["spender"] = run.args["spender"]
    BY <2>3, AskOthers
  <2>5. QED
    BY <1>2, <1>4, <1>5, <2>4 DEF Checked, CheckSteps
<1>6. ASSUME "owner" \notin Todo, "recipient" \notin Todo
      PROVE  From' = From /\ To' = To
  <2>1. "owner" # h /\ "recipient" # h
    BY <1>1, <1>6
  <2>2. From' = From
    BY <1>2, <2>1, AskOthers DEF From, Given
  <2>3. To' = To
    BY <2>1, <2>2, AskOthers DEF To, Given
  <2>4. QED
    BY <2>2, <2>3
<1>7. ASSUME e \in Moving, "sender_is_not_recipient" \notin Todo'
      PROVE  From' # To'
  <2>1. "owner" \notin Todo /\ "recipient" \notin Todo
    BY <1>4, <1>7, ProgramChecks, ReadBefore DEF Suffix, CheckSteps
  <2>2. QED
    BY <1>4, <1>6, <1>7, <2>1 DEF Checked, CheckSteps
<1>8. ASSUME e = "burn", "owner_is_caller" \notin Todo'
      PROVE  From' = caller'
  <2>1. "owner" \notin Todo /\ "recipient" \notin Todo
    BY <1>4, <1>8, ProgramChecks, ReadBefore DEF Suffix, CheckSteps
  <2>2. QED
    BY <1>2, <1>4, <1>6, <1>8, <2>1 DEF Checked, CheckSteps
<1> HIDE DEF h, e
<1>9. QED
  BY <1>1, <1>2, <1>4, <1>5, <1>7, <1>8 DEF Checked, CheckSteps, e

LEMMA AskStage ==
  ASSUME Control, Args, Suffix, Unwritten, Stage, Asks, run' # Idle
  PROVE  Stage'
<1>1. SUFFICES ASSUME run'.deployed # "call" PROVE Checked' /\ Done'
  BY DEF Stage
<1>2. /\ Popped /\ ledger' = ledger /\ copy' = copy /\ Head(run.steps) \in Arguments
      /\ run'.event = run.event /\ run.deployed # "call" /\ run'.entry_point = run.entry_point
      /\ Head(run.steps) \in Todo
  BY <1>1, AskPops, AskOthers, ArgumentNames, HeadTodo DEF Popped, Kept
<1>3. Checked /\ Done
  BY <1>2 DEF Stage
<1>4. copy = ledger
  BY <1>2 DEF Unwritten, Late, Arguments
<1>5. Fresh /\ Fresh'
  BY <1>2, EarlyFresh
<1>6. run.event = Contract!NoEvent
  BY <1>3, <1>5, ProgramActs DEF Done, Recorded, Fresh, Acting, AfterAmount
<1>7. Control'
  BY Pops
<1>8. QED
  BY <1>2, <1>3, <1>4, <1>5, <1>6, <1>7, AskChecked, FreshNext

\* The steps that read no argument leave what the facts are about.
LEMMA SameFacts ==
  ASSUME Kept, run'.args = run.args, ledger' = ledger
  PROVE  /\ caller' = caller /\ sec_check_list' = sec_check_list
         /\ Amount' = Amount /\ From' = From /\ To' = To /\ Grant' = Grant
         /\ NewAllowance' = NewAllowance /\ Debited' = Debited /\ Credited' = Credited
         /\ NewSupply' = NewSupply /\ BadgeMap' = BadgeMap
<1>1. caller' = caller /\ sec_check_list' = sec_check_list /\ Amount' = Amount
  BY DEF Kept, caller, sec_check_list, Amount
<1>2. From' = From
  BY <1>1 DEF From, Given
<1>3. To' = To /\ Grant' = Grant
  BY <1>1, <1>2 DEF To, Grant, Given
<1>4. NewAllowance' = NewAllowance
  BY <1>1, <1>3 DEF NewAllowance, Kept
<1>5. Debited' = Debited /\ Credited' = Credited
  BY <1>1, <1>2, <1>3 DEF Debited, Credited
<1>6. NewSupply' = NewSupply
  BY <1>1 DEF NewSupply, Kept
<1>7. BadgeMap' = BadgeMap
  BY <1>1 DEF BadgeMap, List, Given
<1>8. QED
  BY <1>1, <1>2, <1>3, <1>4, <1>5, <1>6, <1>7

LEMMA CheckStage ==
  ASSUME Control, Suffix, Config, Unwritten, Stage, Checks, run' # Idle
  PROVE  Stage'
<1> DEFINE h == Head(run.steps)
<1>1. SUFFICES ASSUME run'.deployed # "call" PROVE Checked' /\ Done'
  BY DEF Stage
<1>2. /\ Popped /\ Kept /\ ledger' = ledger /\ copy' = copy /\ h \in CheckSteps
      /\ run'.event = run.event /\ run'.args = run.args /\ run.deployed # "call"
      /\ run'.entry_point = run.entry_point /\ h \in Todo
  BY <1>1, CheckPops, HeadTodo DEF Popped, Kept, CheckSteps
<1>3. Checked /\ Done
  BY <1>2 DEF Stage
<1>4. copy = ledger
  BY <1>2 DEF Unwritten, Late, CheckSteps
<1>5. Fresh /\ Fresh'
  BY <1>2, EarlyFresh
<1>6. run.event = Contract!NoEvent
  BY <1>3, <1>5, ProgramActs DEF Done, Recorded, Fresh, Acting, AfterAmount
<1>7. Control' /\ Todo' = Todo \ {h}
  BY Pops
<1>8. Done'
  BY <1>2, <1>4, <1>5, <1>6, <1>7, FreshNext
<1>10. /\ caller' = caller /\ sec_check_list' = sec_check_list /\ From' = From /\ To' = To
  BY <1>2, SameFacts
<1>11. Checked'
  BY <1>2, <1>3, <1>4, <1>7, <1>10, CheckHolds DEF Checked
<1>12. QED
  BY <1>8, <1>11

(***************************************************************************)
(* A step that computes, writes or records: what it leaves as it was       *)
(***************************************************************************)
Acts ==
    /\ Kept /\ run'.args = run.args /\ ledger' = ledger
    /\ Todo' = Todo \ {Head(run.steps)}
    /\ Head(run.steps) \in Todo \ (CheckSteps \cup {"return_if_zero", "transfer_balance"})

LEMMA ActsFrame ==
  ASSUME Done, Acts
  PROVE  /\ ~Zero /\ ~Zero' /\ (Moves' <=> Moves) /\ run'.entry_point = run.entry_point
<1>1. ~Zero
  BY DEF Done, Recorded, Acts
<1>2. Amount' = Amount /\ run'.entry_point = run.entry_point
  BY SameFacts DEF Acts, Kept
<1>3. ~Zero' /\ (Moves' <=> Moves)
  BY <1>1, <1>2 DEF Zero, Moves, Acts
<1>4. QED
  BY <1>1, <1>2, <1>3

LEMMA CheckedSame ==
  ASSUME Checked, Acts
  PROVE  Checked'
<1>1. /\ caller' = caller /\ sec_check_list' = sec_check_list /\ From' = From /\ To' = To
      /\ run'.entry_point = run.entry_point
  BY SameFacts DEF Acts, Kept
<1>2. \A x \in CheckSteps : x \notin Todo' => x \notin Todo
  BY DEF Acts
<1>3. QED
  BY <1>1, <1>2 DEF Checked, CheckSteps, Acts

LEMMA AllowanceComputedSame ==
  ASSUME Done, Acts, Head(run.steps) # "new_allowance",
         run.entry_point \in Granting /\ "new_allowance" \notin Todo =>
             run'.new["allowance"] = run.new["allowance"]
  PROVE  AllowanceComputed'
<1>1. ~Zero /\ ~Zero' /\ run'.entry_point = run.entry_point
  BY ActsFrame
<1>2. Amount' = Amount /\ Grant' = Grant /\ NewAllowance' = NewAllowance
  BY SameFacts DEF Acts
<1>3. QED
  BY <1>1, <1>2 DEF Done, AllowanceComputed, Acts

LEMMA SupplyComputedSame ==
  ASSUME Done, Acts, Head(run.steps) # "new_supply",
         run.entry_point \in Minting /\ "new_supply" \notin Todo =>
             run'.new["supply"] = run.new["supply"]
  PROVE  SupplyComputed'
<1>1. run'.entry_point = run.entry_point /\ NewSupply' = NewSupply
  BY SameFacts, ActsFrame DEF Acts
<1>2. QED
  BY <1>1 DEF Done, SupplyComputed, Acts

LEMMA BalancesComputedSame ==
  ASSUME Done, Acts, Head(run.steps) \notin {"new_sender_balance", "new_recipient_balance"},
         run.entry_point \in {"burn", "transfer", "transfer_from"} =>
             run'.new["sender"] = run.new["sender"],
         run.entry_point \in {"mint", "transfer", "transfer_from"} =>
             run'.new["recipient"] = run.new["recipient"]
  PROVE  BalancesComputed'
<1>1. (Moves' <=> Moves) /\ run'.entry_point = run.entry_point
  BY ActsFrame
<1>2. /\ Amount' = Amount /\ From' = From /\ To' = To /\ Debited' = Debited
      /\ Credited' = Credited
  BY SameFacts DEF Acts
<1>3. Moves => run.entry_point \in {"transfer", "transfer_from"}
  BY DEF Moves, Moving
<1>4. QED
  BY <1>1, <1>2, <1>3 DEF Done, BalancesComputed, Acts

LEMMA ComputedSame ==
  ASSUME Done, Acts, run'.new = run.new,
         Head(run.steps) \notin {"new_allowance", "new_sender_balance", "new_recipient_balance",
                                 "new_supply"}
  PROVE  AllowanceComputed' /\ BalancesComputed' /\ SupplyComputed'
BY AllowanceComputedSame, SupplyComputedSame, BalancesComputedSame

LEMMA EnteredSame ==
  ASSUME Done, Acts
  PROVE  Entered'
<1>1. Amount' = Amount /\ run'.entry_point = run.entry_point
  BY SameFacts DEF Acts, Kept
<1>2. QED
  BY <1>1 DEF Done, Entered, Acts

LEMMA AllowanceWrittenSame ==
  ASSUME Done, Acts, Head(run.steps) # "write_allowance", copy'.allowances = copy.allowances
  PROVE  AllowanceWritten'
<1>1. ~Zero /\ ~Zero' /\ run'.entry_point = run.entry_point
  BY ActsFrame
<1>2. Grant' = Grant /\ NewAllowance' = NewAllowance
  BY SameFacts DEF Acts
<1>3. QED
  BY <1>1, <1>2 DEF Done, AllowanceWritten, Acts

LEMMA BalancesWrittenSame ==
  ASSUME Done, Acts, copy'.balances = copy.balances,
         Head(run.steps) \notin {"write_sender_balance", "write_recipient_balance"}
  PROVE  BalancesWritten'
<1>1. (Moves' <=> Moves) /\ run'.entry_point = run.entry_point
  BY ActsFrame
<1>2. From' = From /\ To' = To /\ Debited' = Debited /\ Credited' = Credited
  BY SameFacts DEF Acts
<1>3. (SenderWritten' <=> SenderWritten) /\ (RecipientWritten' <=> RecipientWritten)
  BY <1>1 DEF SenderWritten, RecipientWritten, Acts
<1>4. QED
  BY <1>2, <1>3 DEF Done, BalancesWritten, Acts

LEMMA SupplyWrittenSame ==
  ASSUME Done, Acts, Head(run.steps) # "write_supply", copy'.total_supply = copy.total_supply
  PROVE  SupplyWritten'
<1>1. run'.entry_point = run.entry_point /\ NewSupply' = NewSupply
  BY SameFacts, ActsFrame DEF Acts
<1>2. QED
  BY <1>1 DEF Done, SupplyWritten, Acts

LEMMA BadgesWrittenSame ==
  ASSUME Done, Acts, Head(run.steps) # "change_sec_badge",
         copy'.security_badges = copy.security_badges
  PROVE  BadgesWritten'
<1>1. run'.entry_point = run.entry_point /\ BadgeMap' = BadgeMap
  BY SameFacts, ActsFrame DEF Acts
<1>2. QED
  BY <1>1 DEF Done, BadgesWritten, Acts

LEMMA WrittenSame ==
  ASSUME Done, Acts, copy' = copy,
         Head(run.steps) \notin {"write_allowance", "write_sender_balance",
             "write_recipient_balance", "write_supply", "change_sec_badge"}
  PROVE  AllowanceWritten' /\ BalancesWritten' /\ SupplyWritten' /\ BadgesWritten'
BY AllowanceWrittenSame, BalancesWrittenSame, SupplyWrittenSame, BadgesWrittenSame

LEMMA RecordedSame ==
  ASSUME Done, Acts, Head(run.steps) # "record_event", run'.event = run.event
  PROVE  Recorded'
<1>1. ~Zero' /\ run'.entry_point = run.entry_point
  BY ActsFrame
<1>2. run.entry_point \in Changing => "record_event" \in Todo
  BY DEF Done, Recorded, Acts
<1>3. QED
  BY <1>1, <1>2 DEF Done, Recorded, Acts

(***************************************************************************)
(* The steps that compute                                                  *)
(***************************************************************************)
LEMMA ActsOf ==
  ASSUME Control, run' # Idle, Computes \/ Writes \/ record_event_dictionary
  PROVE  Acts /\ run.steps # <<>> /\ \A y \in Todo : Rank(Head(run.steps)) <= Rank(y)
<1>1. /\ Popped /\ ledger' = ledger /\ Todo' = Todo \ {Head(run.steps)} /\ run.steps # <<>>
  BY Pops DEF Popped
<1>2. run'.args = run.args
  BY SameArguments
<1>3. Head(run.steps) \notin CheckSteps \cup {"return_if_zero", "transfer_balance"}
  BY ComputePops, WritePops DEF CheckSteps, record_event_dictionary, At
<1>4. Head(run.steps) \in Todo /\ \A y \in Todo : Rank(Head(run.steps)) <= Rank(y)
  BY <1>1, HeadTodo
<1>5. QED
  BY <1>1, <1>2, <1>3, <1>4 DEF Acts, Popped

LEMMA ComputeUnwritten ==
  ASSUME Control, Unwritten, run.deployed # "call", run' # Idle, Computes
  PROVE  copy = ledger /\ copy' = copy /\ run'.event = run.event
<1>1. copy' = copy /\ run'.event = run.event /\ Head(run.steps) \notin Late
  BY ComputePops DEF Late
<1>2. Head(run.steps) \in Todo
  BY ActsOf DEF Acts
<1>3. QED
  BY <1>1, <1>2 DEF Unwritten

\* A step that computes changes nothing else.
LEMMA ComputesRest ==
  ASSUME Control, Unwritten, run.deployed # "call", Checked, Done, run' # Idle, Computes
  PROVE  /\ Checked' /\ Entered' /\ Recorded'
         /\ AllowanceWritten' /\ BalancesWritten' /\ SupplyWritten' /\ BadgesWritten'
<1>1. /\ Acts /\ copy' = copy /\ run'.event = run.event
      /\ Head(run.steps) \notin {"record_event", "write_allowance", "write_sender_balance",
             "write_recipient_balance", "write_supply", "change_sec_badge"}
  BY ActsOf, ComputePops
<1>2. QED
  BY <1>1, CheckedSame, EnteredSame, RecordedSame, WrittenSame

LEMMA ComputeOrder ==
    /\ ~(Rank("transfer_balance") <= Rank("new_allowance"))
    /\ ~(Rank("write_allowance") <= Rank("new_sender_balance"))
    /\ ~(Rank("write_allowance") <= Rank("new_recipient_balance"))
    /\ ~(Rank("new_recipient_balance") <= Rank("new_sender_balance"))
    /\ ~(Rank("write_sender_balance") <= Rank("new_recipient_balance"))
    /\ \A x \in {"new_sender_balance", "new_recipient_balance"} :
          /\ ~(Rank("new_supply") <= Rank(x))
          /\ ~(Rank(x) <= Rank("new_allowance"))
    /\ \A x \in {"write_sender_balance", "write_recipient_balance"} :
          ~(Rank(x) <= Rank("new_supply"))
BY RankTable

LEMMA NewAllowanceStage ==
  ASSUME Control, Suffix, Unwritten, run.deployed # "call", Checked, Done, run' # Idle,
         new_allowance
  PROVE  Checked' /\ Done'
<1>1. Computes /\ Head(run.steps) = "new_allowance" /\ run.steps # <<>>
  BY DEF Computes, new_allowance, At
<1>2. Acts /\ copy = ledger
  BY <1>1, ActsOf, ComputeUnwritten
<1>3. run.entry_point \in Granting
  BY <1>1, HeadOwn, StepOf DEF Control, Granting, Approving
<1>4. /\ Compute("allowance", NewAllowance)
      /\ run.entry_point = "transfer_from" => ~SubUnderflows(ledger.allowances[Grant], Amount)
  <2>1. CASE run.entry_point = "approve"
    BY <2>1 DEF new_allowance, NewAllowance, Amount
  <2>2. CASE run.entry_point = "increase_allowance"
    BY <1>2, <2>2 DEF new_allowance, NewAllowance, Amount
  <2>3. CASE run.entry_point = "decrease_allowance"
    BY <1>2, <2>3 DEF new_allowance, NewAllowance, Amount
  <2>4. CASE run.entry_point = "transfer_from"
    BY <1>2, <2>4, FailEnds DEF new_allowance, NewAllowance, Amount
  <2>5. QED
    BY <1>3, <2>1, <2>2, <2>3, <2>4 DEF Granting, Approving
<1>5. run'.new["allowance"] = NewAllowance
  <2>1. run'.new = Bind("allowance", NewAllowance, run.new)
    BY <1>1, <1>4, ComputeFields
  <2>2. Bind("allowance", NewAllowance, run.new)["allowance"] = NewAllowance
    BY BindFacts
  <2>3. QED
    BY <2>1, <2>2
<1>6. /\ Amount' = Amount /\ Grant' = Grant /\ NewAllowance' = NewAllowance
      /\ run'.entry_point = run.entry_point
  BY <1>2, SameFacts DEF Acts, Kept
<1>7. AllowanceComputed'
  BY <1>2, <1>4, <1>5, <1>6 DEF AllowanceComputed, Acts
<1>8. ~Moves'
  <2>1. run.entry_point \in Moving => "transfer_balance" \in Todo
    BY <1>1, <1>2, ProgramActs, ComputeOrder DEF Suffix, Acts
  <2>2. QED
    BY <1>1, <1>2, <1>6, <2>1 DEF Moves, Acts
<1>9. BalancesComputed' /\ SupplyComputed'
  BY <1>3, <1>6, <1>8
     DEF BalancesComputed, SupplyComputed, Granting, Approving, Minting
<1>10. QED
  BY <1>1, <1>7, <1>9, ComputesRest DEF Done

\* What is computed stays while it is to be written.
LEMMA StaysNew ==
  ASSUME New, NEW name, NEW value, run'.new = Bind(name, value, run.new)
  PROVE  /\ run'.new[name] = value
         /\ name # "allowance" /\ "write_allowance" \in Todo /\ "new_allowance" \notin Todo =>
                run'.new["allowance"] = run.new["allowance"]
         /\ name # "sender" /\ "write_sender_balance" \in Todo
              /\ "new_sender_balance" \notin Todo => run'.new["sender"] = run.new["sender"]
         /\ name # "recipient" /\ "write_recipient_balance" \in Todo
              /\ "new_recipient_balance" \notin Todo =>
                run'.new["recipient"] = run.new["recipient"]
         /\ name # "supply" /\ "write_supply" \in Todo /\ "new_supply" \notin Todo =>
                run'.new["supply"] = run.new["supply"]
<1>1. Bind(name, value, run.new)[name] = value
  BY BindFacts
<1>2. \A y \in DOMAIN run.new : y # name => Bind(name, value, run.new)[y] = run.new[y]
  BY BindOther
<1>3. QED
  BY <1>1, <1>2 DEF New, Pending

LEMMA NewSenderStage ==
  ASSUME Control, New, Suffix, Unwritten, run.deployed # "call", Checked, Done, run' # Idle,
         new_sender_balance
  PROVE  Checked' /\ Done'
<1> DEFINE e == run.entry_point
           value == copy.balances[From] - run.args["amount"]
<1>1. Computes /\ Head(run.steps) = "new_sender_balance" /\ run.steps # <<>>
  BY DEF Computes, new_sender_balance, At
<1>2. /\ Acts /\ copy = ledger
      /\ \A y \in Todo : Rank("new_sender_balance") <= Rank(y)
  BY <1>1, ActsOf, ComputeUnwritten
<1>3. e \in {"transfer", "transfer_from", "burn"}
  BY <1>1, HeadOwn, StepOf DEF Control
<1>4. Compute("sender", value) /\ ~SubUnderflows(copy.balances[From], run.args["amount"])
  BY FailEnds DEF new_sender_balance
<1>5. run'.new = Bind("sender", value, run.new)
  BY <1>1, <1>4, ComputeFields
<1>6. /\ Amount' = Amount /\ From' = From /\ Debited' = Debited
      /\ run'.entry_point = e /\ (Moves' <=> Moves) /\ value = Debited
  BY <1>2, SameFacts, ActsFrame DEF Acts, Kept, Debited, Amount
<1>7. "new_sender_balance" \in Todo /\ "new_allowance" \notin Todo
  BY <1>1, <1>2, ComputeOrder DEF Acts
<1>8. e \in Granting => "write_allowance" \in Todo
  BY <1>7, ProgramActs, ComputeOrder DEF Suffix
<1>9. e \in Moving => "new_recipient_balance" \in Todo
  BY <1>7, TransferBalanceSteps, ComputeOrder DEF Suffix, Moving
<1>10. e \in Minting => "new_supply" \in Todo
  BY <1>7, ProgramActs, ComputeOrder DEF Suffix
<1>11. /\ run'.new["sender"] = value
       /\ e \in Granting => run'.new["allowance"] = run.new["allowance"]
  BY <1>5, <1>7, <1>8, StaysNew
<1>12. AllowanceComputed' /\ SupplyComputed'
  BY <1>1, <1>2, <1>10, <1>11, AllowanceComputedSame, SupplyComputedSame
<1>13. BalancesComputed'
  <2>1. (Moves \/ e = "mint") => "new_recipient_balance" \in Todo'
    BY <1>1, <1>2, <1>3, <1>9 DEF Moves, Acts
  <2>2. ~SubUnderflows(ledger.balances[From], Amount)
    BY <1>2, <1>4 DEF Amount
  <2> HIDE DEF value
  <2>3. QED
    BY <1>2, <1>6, <1>11, <2>1, <2>2 DEF BalancesComputed, Acts
<1>14. QED
  BY <1>1, <1>12, <1>13, ComputesRest DEF Done

LEMMA NewRecipientStage ==
  ASSUME Control, New, Suffix, Unwritten, run.deployed # "call", Checked, Done, run' # Idle,
         new_recipient_balance
  PROVE  Checked' /\ Done'
<1> DEFINE e == run.entry_point
           value == copy.balances[To] + run.args["amount"]
<1>1. Computes /\ Head(run.steps) = "new_recipient_balance" /\ run.steps # <<>>
  BY DEF Computes, new_recipient_balance, At
<1>2. /\ Acts /\ copy = ledger
      /\ \A y \in Todo : Rank("new_recipient_balance") <= Rank(y)
  BY <1>1, ActsOf, ComputeUnwritten
<1>3. e \in {"transfer", "transfer_from", "mint"}
  BY <1>1, HeadOwn, StepOf DEF Control
<1>4. Compute("recipient", value) /\ ~AddOverflows(copy.balances[To], run.args["amount"])
  BY FailEnds DEF new_recipient_balance
<1>5. run'.new = Bind("recipient", value, run.new)
  BY <1>1, <1>4, ComputeFields
<1>6. /\ Amount' = Amount /\ From' = From /\ To' = To
      /\ Debited' = Debited /\ Credited' = Credited
      /\ run'.entry_point = e /\ (Moves' <=> Moves) /\ value = Credited
  BY <1>2, SameFacts, ActsFrame DEF Acts, Kept, Credited, Amount
<1>7. /\ "new_recipient_balance" \in Todo /\ "new_allowance" \notin Todo
      /\ "new_sender_balance" \notin Todo
  BY <1>1, <1>2, ComputeOrder DEF Acts
<1>8. e \in Granting => "write_allowance" \in Todo
  BY <1>7, ProgramActs, ComputeOrder DEF Suffix
<1>9. e \in Moving => "write_sender_balance" \in Todo
  BY <1>7, TransferBalanceSteps, ComputeOrder DEF Suffix, Moving
<1>10. e \in Minting => "new_supply" \in Todo
  BY <1>7, ProgramActs, ComputeOrder DEF Suffix
<1>11. /\ run'.new["recipient"] = value
       /\ e \in Granting => run'.new["allowance"] = run.new["allowance"]
       /\ e \in Moving => run'.new["sender"] = run.new["sender"]
  BY <1>5, <1>7, <1>8, <1>9, StaysNew
<1>12. AllowanceComputed' /\ SupplyComputed'
  BY <1>1, <1>2, <1>10, <1>11, AllowanceComputedSame, SupplyComputedSame
<1>13. BalancesComputed'
  <2>1. Moves \/ e = "burn" => e \in Moving
    BY <1>3 DEF Moves
  <2>2. ~AddOverflows(ledger.balances[To], Amount)
    BY <1>2, <1>4 DEF Amount
  <2> HIDE DEF value
  <2>3. QED
    BY <1>2, <1>6, <1>7, <1>11, <2>1, <2>2 DEF Done, BalancesComputed, Acts
<1>14. QED
  BY <1>1, <1>12, <1>13, ComputesRest DEF Done

LEMMA NewSupplyStage ==
  ASSUME Control, New, Suffix, Unwritten, run.deployed # "call", Checked, Done, run' # Idle,
         new_total_supply
  PROVE  Checked' /\ Done'
<1> DEFINE e == run.entry_point
<1>1. Computes /\ Head(run.steps) = "new_supply" /\ run.steps # <<>>
  BY DEF Computes, new_total_supply, At
<1>2. /\ Acts /\ copy = ledger
      /\ \A y \in Todo : Rank("new_supply") <= Rank(y)
  BY <1>1, ActsOf, ComputeUnwritten
<1>3. e \in Minting
  BY <1>1, HeadOwn, StepOf DEF Control, Minting
<1>4. Compute("supply", NewSupply) /\ NewSupply \in U256
  BY <1>2, FailEnds DEF new_total_supply, NewSupply, Amount
<1>5. run'.new = Bind("supply", NewSupply, run.new)
  BY <1>1, <1>4, ComputeFields
<1>6. NewSupply' = NewSupply /\ run'.entry_point = e
  BY <1>2, SameFacts DEF Acts, Kept
<1>7. /\ "new_supply" \in Todo /\ "new_sender_balance" \notin Todo
      /\ "new_recipient_balance" \notin Todo
  BY <1>1, <1>2, ComputeOrder DEF Acts
<1>8. /\ e = "burn" => "write_sender_balance" \in Todo
      /\ e = "mint" => "write_recipient_balance" \in Todo
  BY <1>7, ProgramActs, ComputeOrder DEF Suffix
<1>9. /\ run'.new["supply"] = NewSupply
      /\ e = "burn" => run'.new["sender"] = run.new["sender"]
      /\ e = "mint" => run'.new["recipient"] = run.new["recipient"]
  BY <1>5, <1>7, <1>8, StaysNew
<1>10. AllowanceComputed' /\ BalancesComputed'
  BY <1>1, <1>2, <1>3, <1>9, AllowanceComputedSame, BalancesComputedSame
     DEF Minting, Granting, Approving
<1>11. SupplyComputed'
  BY <1>4, <1>6, <1>9 DEF SupplyComputed
<1>12. QED
  BY <1>1, <1>10, <1>11, ComputesRest DEF Done

LEMMA RetStage ==
  ASSUME Control, Unwritten, run.deployed # "call", Checked, Done, run' # Idle, ret
  PROVE  Checked' /\ Done'
<1>1. Computes /\ Head(run.steps) = "ret" /\ run.steps # <<>>
  BY DEF Computes, ret, At
<1>2. Acts
  BY <1>1, ActsOf
<1>3. run.entry_point \in ReadOnly /\ run'.entry_point = run.entry_point
  BY <1>1, <1>2, HeadOwn, StepOf DEF Control, Acts, Kept
<1>4. AllowanceComputed' /\ BalancesComputed' /\ SupplyComputed'
  BY <1>3 DEF ReadOnly, AllowanceComputed, BalancesComputed, SupplyComputed, Granting, Approving,
             Minting, Moving, Moves
<1>5. QED
  BY <1>1, <1>4, ComputesRest DEF Done

LEMMA ComputeStage ==
  ASSUME Control, New, Suffix, Unwritten, Stage, Computes, run' # Idle
  PROVE  Stage'
<1>1. SUFFICES ASSUME run'.deployed # "call" PROVE Checked' /\ Done'
  BY DEF Stage
<1>2. run.deployed # "call"
  BY <1>1, ComputePops DEF Popped, Kept
<1>3. Checked /\ Done
  BY <1>2 DEF Stage
<1>4. QED
  BY <1>2, <1>3, NewAllowanceStage, NewSenderStage, NewRecipientStage, NewSupplyStage, RetStage
     DEF Computes

(***************************************************************************)
(* The steps that write                                                    *)
(***************************************************************************)
LEMMA WriteOrder ==
    /\ ~(Rank("write_allowance") <= Rank("new_allowance"))
    /\ ~(Rank("write_sender_balance") <= Rank("new_sender_balance"))
    /\ ~(Rank("write_recipient_balance") <= Rank("new_recipient_balance"))
    /\ ~(Rank("write_recipient_balance") <= Rank("write_sender_balance"))
    /\ ~(Rank("write_supply") <= Rank("new_supply"))
BY RankTable

\* A step that writes one field leaves all other facts.
LEMMA WritesRest ==
  ASSUME Control, DOMAIN copy = StateFields, Checked, Done, Writes
  PROVE  /\ Acts /\ Checked' /\ Entered' /\ Recorded'
         /\ AllowanceComputed' /\ BalancesComputed' /\ SupplyComputed'
         /\ Head(run.steps) # "write_allowance" =>
                (copy'.allowances = copy.allowances => AllowanceWritten')
         /\ Head(run.steps) \notin {"write_sender_balance", "write_recipient_balance"} =>
                (copy'.balances = copy.balances => BalancesWritten')
         /\ Head(run.steps) # "write_supply" =>
                (copy'.total_supply = copy.total_supply => SupplyWritten')
         /\ Head(run.steps) # "change_sec_badge" =>
                (copy'.security_badges = copy.security_badges => BadgesWritten')
         /\ run'.entry_point = run.entry_point /\ run.steps # <<>>
         /\ \A y \in Todo : Rank(Head(run.steps)) <= Rank(y)
<1>1. /\ run' # Idle /\ run'.new = run.new /\ run'.event = run.event
      /\ Head(run.steps) \notin {"record_event", "new_allowance", "new_sender_balance",
             "new_recipient_balance", "new_supply"}
  BY WritePops, RunStays DEF Popped
<1>2. Acts /\ run.steps # <<>> /\ \A y \in Todo : Rank(Head(run.steps)) <= Rank(y)
  BY <1>1, ActsOf
<1>3. Checked' /\ Entered' /\ Recorded'
  BY <1>1, <1>2, CheckedSame, EnteredSame, RecordedSame
<1>4. AllowanceComputed' /\ BalancesComputed' /\ SupplyComputed'
  BY <1>1, <1>2, ComputedSame
<1>5. run'.entry_point = run.entry_point
  BY <1>2 DEF Acts, Kept
<1>6. /\ Head(run.steps) # "write_allowance" =>
            (copy'.allowances = copy.allowances => AllowanceWritten')
      /\ Head(run.steps) \notin {"write_sender_balance", "write_recipient_balance"} =>
            (copy'.balances = copy.balances => BalancesWritten')
      /\ Head(run.steps) # "write_supply" =>
            (copy'.total_supply = copy.total_supply => SupplyWritten')
      /\ Head(run.steps) # "change_sec_badge" =>
            (copy'.security_badges = copy.security_badges => BadgesWritten')
  BY <1>2, AllowanceWrittenSame, BalancesWrittenSame, SupplyWrittenSame, BadgesWrittenSame
<1>7. QED
  BY <1>2, <1>3, <1>4, <1>5, <1>6

LEMMA OnlyFields ==
    /\ \A f \in {"balances", "total_supply", "security_badges", "result"} :
          Only(f) => copy'.allowances = copy.allowances
    /\ \A f \in {"allowances", "total_supply", "security_badges", "result"} :
          Only(f) => copy'.balances = copy.balances
    /\ \A f \in {"allowances", "balances", "security_badges", "result"} :
          Only(f) => copy'.total_supply = copy.total_supply
    /\ \A f \in {"allowances", "balances", "total_supply", "result"} :
          Only(f) => copy'.security_badges = copy.security_badges
BY DEF Only, StateFields

LEMMA WriteAllowanceStage ==
  ASSUME Control, DOMAIN copy = StateFields, Checked, Done, Writes,
         Head(run.steps) = "write_allowance"
  PROVE  Checked' /\ Done'
<1>1. Acts /\ \A y \in Todo : Rank("write_allowance") <= Rank(y)
  BY WritesRest
<1>2. /\ Only("allowances")
      /\ copy'.allowances = [copy.allowances EXCEPT ![Grant] = run.new["allowance"]]
  BY WriteEffect
<1>3. run.entry_point \in Granting
  BY WritesRest, HeadOwn, StepOf DEF Control, Granting, Approving
<1>4. /\ Grant' = Grant /\ NewAllowance' = NewAllowance /\ ~Zero /\ ~Zero'
      /\ run'.entry_point = run.entry_point
  BY <1>1, SameFacts, ActsFrame DEF Acts
<1>5. "write_allowance" \in Todo /\ "write_allowance" \notin Todo' /\ "new_allowance" \notin Todo
  BY <1>1, WriteOrder DEF Acts
<1>6. copy.allowances = ledger.allowances /\ run.new["allowance"] = NewAllowance
  BY <1>3, <1>4, <1>5 DEF Done, AllowanceWritten, AllowanceComputed
<1>7. AllowanceWritten'
  BY <1>1, <1>2, <1>3, <1>4, <1>5, <1>6 DEF AllowanceWritten, Acts
<1>8. QED
  BY <1>2, <1>7, WritesRest, OnlyFields DEF Done

LEMMA WriteSenderStage ==
  ASSUME Control, Suffix, DOMAIN copy = StateFields, Checked, Done, Writes,
         Head(run.steps) = "write_sender_balance"
  PROVE  Checked' /\ Done'
<1>1. Acts /\ \A y \in Todo : Rank("write_sender_balance") <= Rank(y)
  BY WritesRest
<1>2. /\ Only("balances")
      /\ copy'.balances = [copy.balances EXCEPT ![From] = run.new["sender"]]
  BY WriteEffect
<1>3. run.entry_point \in {"transfer", "transfer_from", "burn"}
  BY WritesRest, HeadOwn, StepOf DEF Control
<1>4. /\ From' = From /\ Debited' = Debited /\ (Moves' <=> Moves)
      /\ run'.entry_point = run.entry_point
  BY <1>1, SameFacts, ActsFrame DEF Acts
<1>5. /\ "write_sender_balance" \in Todo /\ "write_sender_balance" \notin Todo'
      /\ "new_sender_balance" \notin Todo
  BY <1>1, WriteOrder DEF Acts
<1>6. run.entry_point # "burn" => Moves
  <2>1. "write_sender_balance" \in Elements(transfer_balance)
    BY TransferBalanceSteps
  <2>2. QED
    BY <1>3, <1>5, <2>1 DEF Done, Entered, Moves, Moving, Control
<1>7. run.entry_point # "burn" => "write_recipient_balance" \in Todo'
  BY <1>1, <1>3, <1>5, TransferBalanceSteps, WriteOrder DEF Suffix, Acts
<1>8. SenderWritten' /\ ~RecipientWritten' /\ ~SenderWritten /\ ~RecipientWritten
  <2>1. run.entry_point = "burn" => ~Moves
    BY DEF Moves, Moving
  <2>2. run.entry_point # "burn" => "write_recipient_balance" \in Todo
    BY <1>1, <1>7 DEF Acts
  <2>3. QED
    BY <1>3, <1>4, <1>5, <1>6, <1>7, <2>1, <2>2 DEF SenderWritten, RecipientWritten
<1>9. copy.balances = ledger.balances /\ run.new["sender"] = Debited
  BY <1>3, <1>5, <1>6, <1>8 DEF Done, BalancesWritten, BalancesComputed
<1>10. BalancesWritten'
  BY <1>1, <1>2, <1>4, <1>8, <1>9 DEF BalancesWritten, Acts
<1>11. QED
  BY <1>2, <1>10, WritesRest, OnlyFields DEF Done

LEMMA WriteRecipientStage ==
  ASSUME Control, DOMAIN copy = StateFields, Checked, Done, Writes,
         Head(run.steps) = "write_recipient_balance"
  PROVE  Checked' /\ Done'
<1>1. Acts /\ \A y \in Todo : Rank("write_recipient_balance") <= Rank(y)
  BY WritesRest
<1>2. /\ Only("balances")
      /\ copy'.balances = [copy.balances EXCEPT ![To] = run.new["recipient"]]
  BY WriteEffect
<1>3. run.entry_point \in {"transfer", "transfer_from", "mint"}
  BY WritesRest, HeadOwn, StepOf DEF Control
<1>4. /\ From' = From /\ To' = To /\ Debited' = Debited /\ Credited' = Credited
      /\ (Moves' <=> Moves) /\ run'.entry_point = run.entry_point
  BY <1>1, SameFacts, ActsFrame DEF Acts
<1>5. /\ "write_recipient_balance" \in Todo /\ "write_recipient_balance" \notin Todo'
      /\ "new_recipient_balance" \notin Todo
      /\ "write_sender_balance" \notin Todo /\ "write_sender_balance" \notin Todo'
  BY <1>1, WriteOrder DEF Acts
<1>6. run.entry_point # "mint" => Moves
  <2>1. "write_recipient_balance" \in Elements(transfer_balance)
    BY TransferBalanceSteps
  <2>2. QED
    BY <1>3, <1>5, <2>1 DEF Done, Entered, Moves, Moving, Control
<1>7. run.entry_point = "mint" => ~Moves
  BY DEF Moves, Moving
<1>8. run.new["recipient"] = Credited
  BY <1>3, <1>5, <1>6 DEF Done, BalancesComputed
<1>9. CASE run.entry_point = "mint"
  <2>1. ~SenderWritten' /\ RecipientWritten' /\ ~SenderWritten /\ ~RecipientWritten
    BY <1>4, <1>5, <1>7, <1>9 DEF SenderWritten, RecipientWritten
  <2>2. copy.balances = ledger.balances
    BY <2>1 DEF Done, BalancesWritten
  <2>3. BalancesWritten'
    BY <1>1, <1>2, <1>4, <1>8, <2>1, <2>2 DEF BalancesWritten, Acts
  <2>4. QED
    BY <1>2, <2>3, WritesRest, OnlyFields DEF Done
<1>10. CASE run.entry_point # "mint"
  <2>1. SenderWritten' /\ RecipientWritten' /\ SenderWritten /\ ~RecipientWritten
    BY <1>4, <1>5, <1>6, <1>10 DEF SenderWritten, RecipientWritten
  <2>2. copy.balances = [ledger.balances EXCEPT ![From] = Debited]
    BY <2>1 DEF Done, BalancesWritten
  <2>3. copy'.balances = [ledger.balances EXCEPT ![From] = Debited, ![To] = Credited]
    BY <1>2, <1>8, <2>2
  <2>4. BalancesWritten'
    BY <1>1, <1>4, <2>1, <2>3 DEF BalancesWritten, Acts
  <2>5. QED
    BY <1>2, <2>4, WritesRest, OnlyFields DEF Done
<1>11. QED
  BY <1>9, <1>10

LEMMA WriteSupplyStage ==
  ASSUME Control, DOMAIN copy = StateFields, Checked, Done, Writes,
         Head(run.steps) = "write_supply"
  PROVE  Checked' /\ Done'
<1>1. Acts /\ \A y \in Todo : Rank("write_supply") <= Rank(y)
  BY WritesRest
<1>2. Only("total_supply") /\ copy'.total_supply = run.new["supply"]
  BY WriteEffect
<1>3. run.entry_point \in Minting /\ run'.entry_point = run.entry_point
  BY WritesRest, HeadOwn, StepOf DEF Control, Minting
<1>4. "new_supply" \notin Todo /\ "write_supply" \notin Todo'
  BY <1>1, WriteOrder DEF Acts
<1>5. NewSupply' = NewSupply
  BY <1>1, SameFacts DEF Acts
<1>6. SupplyWritten'
  BY <1>2, <1>3, <1>4, <1>5 DEF Done, SupplyComputed, SupplyWritten
<1>7. QED
  BY <1>2, <1>6, WritesRest, OnlyFields DEF Done

LEMMA ChangeBadgeStage ==
  ASSUME Control, DOMAIN copy = StateFields, Checked, Done, Writes,
         Head(run.steps) = "change_sec_badge"
  PROVE  Checked' /\ Done'
<1>1. Acts
  BY WritesRest
<1>2. Only("security_badges") /\ copy'.security_badges = Over(BadgeMap, copy.security_badges)
  BY WriteEffect DEF BadgeMap
<1>3. run.entry_point = "change_security" /\ run'.entry_point = run.entry_point
  BY WritesRest, HeadOwn, StepOf DEF Control
<1>4. "change_sec_badge" \in Todo /\ "change_sec_badge" \notin Todo'
  BY <1>1 DEF Acts
<1>5. BadgeMap' = BadgeMap
  BY <1>1, SameFacts DEF Acts
<1>6. BadgesWritten'
  BY <1>1, <1>2, <1>3, <1>4, <1>5 DEF Done, BadgesWritten, Acts
<1>7. QED
  BY <1>2, <1>6, WritesRest, OnlyFields DEF Done

LEMMA StoreStage ==
  ASSUME Control, DOMAIN copy = StateFields, Checked, Done, Writes,
         Head(run.steps) = "store_result"
  PROVE  Checked' /\ Done'
<1>1. Only("result")
  BY WriteEffect
<1>2. QED
  BY <1>1, WritesRest, OnlyFields DEF Done

LEMMA WriteStage ==
  ASSUME Control, Suffix, Config, DOMAIN copy = StateFields, Stage, Writes
  PROVE  Stage'
<1>1. SUFFICES ASSUME run'.deployed # "call" PROVE Checked' /\ Done'
  BY DEF Stage
<1>2. run.deployed # "call"
  BY <1>1, WritePops DEF Popped, Kept
<1>3. Checked /\ Done
  BY <1>2 DEF Stage
<1>4. Head(run.steps) \in {"write_allowance", "write_sender_balance",
               "write_recipient_balance", "write_supply", "change_sec_badge", "store_result"}
  BY <1>2, WritesLate
<1>5. QED
  BY <1>3, <1>4, WriteAllowanceStage, WriteSenderStage, WriteRecipientStage, WriteSupplyStage,
     ChangeBadgeStage, StoreStage

(***************************************************************************)
(* The event, and the two early returns                                    *)
(***************************************************************************)
LEMMA RecordRanks ==
  \A x \in Step \ {"record_event", "ret", "store_result"} : ~(Rank("record_event") <= Rank(x))
<1>1. \A x \in Arguments : Rank(x) \in Nat /\ Rank(x) <= 38
  BY RankTable DEF Arguments
<1>2. \A x \in {"not_initialized", "new_dictionaries", "write_initial_balance",
                "write_installer_badge", "enabled", "sec_check", "init_events",
                "write_minters", "write_admins", "change_sec_badge", "new_contract",
                "owner_is_not_spender", "sender_is_not_recipient", "owner_is_caller"} :
            Rank(x) \in Nat /\ Rank(x) <= 38
  BY RankTable
<1>3. \A x \in {"return_if_zero", "new_allowance", "transfer_balance", "new_sender_balance",
                "new_recipient_balance", "new_supply", "write_sender_balance",
                "write_recipient_balance", "write_allowance", "write_supply",
                "call_contract"} : Rank(x) \in Nat /\ Rank(x) <= 38
  BY RankTable
<1>4. \A x \in Step \ {"record_event", "ret", "store_result"} : Rank(x) \in Nat /\ Rank(x) <= 38
  BY <1>1, <1>2, <1>3 DEF Step
<1>5. Rank("record_event") = 39
  BY RankTable
<1>6. QED
  BY <1>4, <1>5

\* After the event of a token's entry point nothing is left to do.
LEMMA RecordLast ==
  ASSUME Control, run.deployed # "call", Config, run.steps # <<>>, Head(run.steps) = "record_event"
  PROVE  run.entry_point \in Changing /\ Todo \subseteq {"record_event"}
<1>1. "record_event" \in Own(run.entry_point) /\ run.entry_point # "init"
  BY HeadOwn, InitSteps
<1>2. run.entry_point \in Changing
  BY <1>1, StepOf, CallTable DEF Control, EntryPoint, ReadOnly, Changing, WithAmount
<1>3. "store_result" \notin Todo /\ "ret" \notin Todo
  <2>1. "store_result" \notin Own(run.entry_point) /\ "ret" \notin Own(run.entry_point)
    BY <1>2, OwnSteps DEF Changing, WithAmount
  <2>2. run.source = "contract" => "store_result" \notin After(run.deployed)
    BY <1>2, CallTable DEF Control, After, Changing, WithAmount
  <2>3. QED
    BY <2>1, <2>2 DEF Control, After
<1>4. \A x \in Step \ {"record_event", "ret", "store_result"} : ~(Rank("record_event") <= Rank(x))
  BY RecordRanks
<1>5. Todo \subseteq Step
  <2>1. Own(run.entry_point) \subseteq Step
    BY ProgramSteps, TransferBalanceSteps DEF Control, Own, Elements
  <2>2. QED
    BY <2>1 DEF Control, After, Step
<1>6. \A y \in Todo : Rank("record_event") <= Rank(y)
  BY HeadTodo
<1>7. QED
  BY <1>2, <1>3, <1>4, <1>5, <1>6

LEMMA RecordStage ==
  ASSUME Control, Config, Stage, record_event_dictionary, run' # Idle
  PROVE  Stage'
<1>1. SUFFICES ASSUME run'.deployed # "call" PROVE Checked' /\ Done'
  BY DEF Stage
<1>2. /\ Acts /\ copy' = copy /\ run'.new = run.new /\ run.deployed # "call"
      /\ run'.event = Contract!record_event_dictionary(copy.events_mode, EventOf)
      /\ Head(run.steps) = "record_event" /\ run.steps # <<>>
  BY <1>1, ActsOf, RecordFields DEF Popped, Kept, record_event_dictionary, At
<1>3. Checked /\ Done
  BY <1>2 DEF Stage
<1>4. run.entry_point \in Changing /\ Todo' = {}
  BY <1>2, RecordLast DEF Acts
<1>5. EventOf' = EventOf
  <2>1. /\ caller' = caller /\ From' = From /\ To' = To /\ Grant' = Grant /\ Amount' = Amount
        /\ BadgeMap' = BadgeMap
    BY <1>2, SameFacts DEF Acts
  <2>2. /\ run'.args = run.args /\ run'.entry_point = run.entry_point /\ run'.stack = run.stack
    BY <1>2 DEF Acts, Kept
  <2>3. QED
    BY <1>2, <2>1, <2>2 DEF EventOf, BadgeMap
<1>6. ~Zero' /\ run'.entry_point = run.entry_point
  BY <1>2, <1>3, ActsFrame
<1>7. copy.events_mode = ledger.events_mode /\ ledger' = ledger
  BY <1>2 DEF Config, Acts
<1>8. Recorded'
  BY <1>2, <1>4, <1>5, <1>6, <1>7 DEF Recorded
<1>9. Checked' /\ Entered'
  BY <1>2, <1>3, CheckedSame, EnteredSame
<1>10. AllowanceComputed' /\ BalancesComputed' /\ SupplyComputed'
  BY <1>2, <1>3, ComputedSame
<1>11. AllowanceWritten' /\ BalancesWritten' /\ SupplyWritten' /\ BadgesWritten'
  BY <1>2, <1>3, WrittenSame
<1>12. QED
  BY <1>8, <1>9, <1>10, <1>11 DEF Done

LEMMA ReturnOrder ==
    /\ \A x \in CheckSteps : ~(Rank("return_if_zero") <= Rank(x))
    /\ \A x \in CheckSteps : ~(Rank("transfer_balance") <= Rank(x))
    /\ \A x \in Acting \ {"return_if_zero", "change_sec_badge"} :
          ~(Rank(x) <= Rank("return_if_zero"))
    /\ ~(Rank("transfer_balance") <= Rank("return_if_zero"))
    /\ ~(Rank("transfer_balance") <= Rank("new_allowance"))
BY RankTable DEF CheckSteps, Acting, AfterAmount

LEMMA ReturnStage ==
  ASSUME Control, Suffix, Unwritten, Stage, return_if_zero
  PROVE  Stage'
<1>1. SUFFICES ASSUME run'.deployed # "call" PROVE Checked' /\ Done'
  BY DEF Stage
<1>2. /\ Kept /\ run'.args = run.args /\ ledger' = ledger /\ copy' = copy
      /\ run'.event = run.event /\ run.steps # <<>> /\ Head(run.steps) = "return_if_zero"
  BY ReturnFields DEF return_if_zero, At
<1>3. /\ run.deployed # "call" /\ run'.entry_point = run.entry_point
      /\ run.entry_point = "transfer_from"
  BY <1>1, <1>2, HeadOwn, StepOf DEF Control, Kept
<1>4. Checked /\ Done
  BY <1>3 DEF Stage
<1>5. /\ "return_if_zero" \in Todo
      /\ \A y \in Todo : Rank("return_if_zero") <= Rank(y)
  BY <1>2, HeadTodo
<1>6. Todo' = IF Amount = 0 THEN {} ELSE Todo \ {"return_if_zero"}
  BY <1>2, ReturnControl DEF Amount
<1>7. /\ caller' = caller /\ From' = From /\ To' = To /\ Amount' = Amount
  BY <1>2, SameFacts
<1>8. Checked'
  <2>1. "sender_is_not_recipient" \notin Todo
    BY <1>5, ReturnOrder DEF CheckSteps
  <2>2. QED
    BY <1>3, <1>4, <1>7, <2>1 DEF Checked, Approving, Guarded, Minting, Moving
<1>9. copy = ledger
  BY <1>3, <1>5 DEF Unwritten, Late
<1>10. Elements(Program["transfer_from"]) \cap Acting \subseteq Todo
  <2>1. "change_sec_badge" \notin Elements(Program["transfer_from"])
    BY <1>3, ProgramOwn, StepOf DEF Control
  <2>2. QED
    BY <1>3, <1>5, <2>1, ReturnOrder DEF Suffix
<1>11. run.event = Contract!NoEvent
  BY <1>3, <1>4, <1>10, ProgramActs
     DEF Done, Recorded, Changing, WithAmount, Acting, AfterAmount
<1>12. CASE Amount # 0
  <2>1. ~Zero'
    BY <1>7, <1>12 DEF Zero
  <2>2. Entered'
    BY <1>7, <1>12 DEF Entered
  <2>3. Done'
    BY <1>2, <1>3, <1>6, <1>9, <1>10, <1>11, <1>12, <2>1, <2>2, FreshDone DEF Control
  <2>4. QED
    BY <1>8, <2>3
<1>13. CASE Amount = 0
  <2>1. Todo' = {} /\ Zero' /\ ~Moves'
    BY <1>3, <1>6, <1>7, <1>13 DEF Zero, Moves
  <2>2. AllowanceComputed' /\ BalancesComputed' /\ SupplyComputed' /\ Entered'
    BY <1>3, <2>1 DEF AllowanceComputed, BalancesComputed, SupplyComputed, Entered, Minting
  <2>3. AllowanceWritten' /\ SupplyWritten' /\ BadgesWritten'
    BY <1>2, <1>3, <1>9, <2>1 DEF AllowanceWritten, SupplyWritten, BadgesWritten, Minting
  <2>4. BalancesWritten'
    BY <1>2, <1>3, <1>9, <2>1 DEF BalancesWritten, SenderWritten, RecipientWritten
  <2>5. Recorded'
    BY <1>2, <1>3, <1>11, <2>1 DEF Recorded, Changing, WithAmount
  <2>6. QED
    BY <1>8, <2>2, <2>3, <2>4, <2>5 DEF Done
<1>14. QED
  BY <1>12, <1>13

LEMMA TransferStage ==
  ASSUME Control, Suffix, Unwritten, Stage, call_transfer_balance
  PROVE  Stage'
<1>1. SUFFICES ASSUME run'.deployed # "call" PROVE Checked' /\ Done'
  BY DEF Stage
<1>2. /\ Kept /\ run'.args = run.args /\ ledger' = ledger /\ copy' = copy
      /\ run'.event = run.event /\ run'.new = run.new
      /\ run.steps # <<>> /\ Head(run.steps) = "transfer_balance"
  BY TransferFields DEF call_transfer_balance, At
<1>3. /\ run.deployed # "call" /\ run'.entry_point = run.entry_point
      /\ run.entry_point \in {"transfer", "transfer_from"}
  BY <1>1, <1>2, HeadOwn, StepOf DEF Control, Kept
<1>4. Checked /\ Done
  BY <1>3 DEF Stage
<1>5. /\ "transfer_balance" \in Todo /\ Todo \cap Elements(transfer_balance) = {}
      /\ \A y \in Todo : Rank("transfer_balance") <= Rank(y)
  BY <1>2, HeadTodo DEF Control
<1>6. /\ caller' = caller /\ From' = From /\ To' = To /\ Amount' = Amount /\ Grant' = Grant
      /\ NewAllowance' = NewAllowance
  BY <1>2, SameFacts
<1>7. "sender_is_not_recipient" \notin Todo /\ From # To
  BY <1>3, <1>4, <1>5, ReturnOrder DEF CheckSteps, Checked, Moving
<1>8. Checked'
  BY <1>3, <1>6, <1>7 DEF Checked, Approving, Guarded, Minting, Moving
<1>9. copy = ledger /\ ~Zero
  BY <1>3, <1>4, <1>5 DEF Unwritten, Late, Done, Recorded
<1>10. Todo' = (Todo \ {"transfer_balance"})
               \cup (IF Amount = 0 THEN {} ELSE Elements(transfer_balance))
  BY <1>7, TransferControl DEF Amount
<1>11. \A x \in {"return_if_zero", "new_allowance", "write_allowance", "record_event"} :
          x \in Todo' <=> x \in Todo
  BY <1>10, TransferBalanceSteps
<1>12. ~Zero'
  BY <1>3, <1>6, <1>9, <1>11 DEF Zero
<1>13. Moves' => Elements(transfer_balance) \subseteq Todo'
  BY <1>6, <1>10 DEF Moves
<1>14. ~SenderWritten' /\ ~RecipientWritten'
  BY <1>3, <1>13, TransferBalanceSteps DEF SenderWritten, RecipientWritten
<1>15. Entered' /\ BalancesComputed' /\ SupplyComputed'
  BY <1>3, <1>5, <1>6, <1>10, <1>13, TransferBalanceSteps
     DEF Entered, BalancesComputed, SupplyComputed, Minting
<1>16. AllowanceComputed'
  BY <1>2, <1>3, <1>4, <1>6, <1>9, <1>11, <1>12 DEF Done, AllowanceComputed
<1>17. AllowanceWritten'
  BY <1>2, <1>3, <1>4, <1>6, <1>9, <1>11, <1>12 DEF Done, AllowanceWritten
<1>18. BalancesWritten' /\ SupplyWritten' /\ BadgesWritten'
  BY <1>2, <1>3, <1>9, <1>14 DEF BalancesWritten, SupplyWritten, BadgesWritten, Minting
<1>19. Recorded'
  <2>1. "record_event" \in Todo /\ run.event = Contract!NoEvent
    BY <1>3, <1>4, <1>5 DEF Done, Recorded, Changing, WithAmount
  <2>2. QED
    BY <1>2, <1>3, <1>11, <1>12, <2>1 DEF Recorded
<1>20. QED
  BY <1>8, <1>15, <1>16, <1>17, <1>18, <1>19 DEF Done

(***************************************************************************)
(* Every step keeps the stage                                              *)
(***************************************************************************)
StageInv == run # Idle => Stage

LEMMA StageNext ==
  ASSUME ExecutionInv, ConfigInv, UnwrittenInv, SuffixInv, StageInv, Next
  PROVE  StageInv'
<1>1. SUFFICES ASSUME run' # Idle PROVE Stage'
  BY DEF StageInv
<1>2. CASE run = Idle
  <2>1. PICK account \in Account, source \in {"session", "client"}, e \in Called :
          Start(account, source, e)
    BY <1>2, IdleStarts
  <2>2. Control'
    BY <2>1, StartControl
  <2>3. copy = ledger
    BY <1>2 DEF ExecutionInv, CopyInv
  <2>4. QED
    BY <2>1, <2>2, <2>3, StartBegun, BegunStage
<1>3. CASE run # Idle
  <2>1. /\ Control /\ Args /\ New /\ Config /\ Unwritten /\ Suffix /\ Stage
        /\ StateTyped(copy) /\ StateTyped(ledger) /\ DOMAIN copy = StateFields
    BY <1>3 DEF ExecutionInv, ControlInv, ArgsInv, NewInv, TypesInv, ConfigInv, UnwrittenInv,
                SuffixInv, StageInv, StateTyped
  <2>2. CASE Asks
    BY <1>1, <2>1, <2>2, AskStage
  <2>3. CASE Checks
    BY <1>1, <2>1, <2>3, CheckStage
  <2>4. CASE Computes
    BY <1>1, <2>1, <2>4, ComputeStage
  <2>5. CASE Writes
    BY <1>1, <2>1, <2>5, WriteStage
  <2>6. CASE record_event_dictionary
    BY <1>1, <2>1, <2>6, RecordStage
  <2>7. CASE return_if_zero \/ call_transfer_balance
    BY <2>1, <2>7, ReturnStage, TransferStage
  <2>8. CASE new_contract
    <3>1. run.entry_point = "call" /\ run'.deployed = run.deployed
      <4>1. Head(run.steps) = "new_contract" /\ run.steps # <<>>
        BY <2>8 DEF new_contract, At
      <4>2. QED
        BY <2>1, <2>8, <4>1, HeadOwn, StepOf, NewContractFields DEF Control, Popped, Kept
    <3>2. run.deployed = "call"
      BY <2>1, <3>1, CallTable DEF Control
    <3>3. QED
      BY <3>1, <3>2 DEF Stage
  <2>9. CASE call_contract
    <3>1. CASE run.deployed = "call"
      BY <2>1, <2>9, <3>1, CallFields DEF Stage
    <3>2. CASE run.deployed # "call"
      <4>1. /\ Head(run.steps) = "call_contract" /\ run.steps # <<>>
        BY <2>9 DEF call_contract, At
      <4>2. copy = ledger
        BY <2>1, <3>2, <4>1, HeadTodo DEF Unwritten, Late
      <4>3. run.event = Contract!NoEvent
        BY <2>1, <2>9, <3>2, CallBegun, CallTable
           DEF Stage, Done, Recorded, Changing, WithAmount
      <4>4. /\ Control' /\ Elements(Program[run'.entry_point]) \subseteq Todo'
        BY <2>1, <2>9, CallBegun, CallControl
      <4>5. /\ run'.event = Contract!NoEvent /\ copy' = ledger'
        BY <2>1, <2>9, <4>2, <4>3, CallFields
      <4>6. QED
        BY <4>4, <4>5, BegunStage
    <3>3. QED
      BY <3>1, <3>2
  <2>10. CASE Commit \/ OutOfGas
    BY <1>1, <2>10, FailEnds DEF Commit, OutOfGas
  <2>11. QED
    BY <1>3, <2>2, <2>3, <2>4, <2>5, <2>6, <2>7, <2>8, <2>9, <2>10, Kinds
<1>4. QED
  BY <1>2, <1>3

-----------------------------------------------------------------------------
(***************************************************************************)
(* What an installation has written so far                                 *)
(***************************************************************************)
Installer == get_caller(run.stack)

\* Before init is called, nothing but what new_contract is given.
Prepared ==
    /\ ~copy.initialized
    /\ copy.balances = ledger.balances
    /\ copy.security_badges = ledger.security_badges
    /\ "new_contract" \notin Todo =>
          /\ copy.total_supply = run.args["total_supply"]
          /\ copy.events_mode = Given("events_mode", 0)
          /\ copy.enable_mint_burn = Given("enable_mint_burn", 0)

\* What the session was given for the supply, the modes and the lists is what init works with.
Passed ==
    /\ copy.total_supply = Outer("total_supply", 0)
    /\ copy.events_mode = Outer("events_mode", 0)
    /\ copy.enable_mint_burn = Outer("enable_mint_burn", 0)
    /\ List("admin_list") = Outer("admin_list", {})
    /\ List("minter_list") = Outer("minter_list", {})

WithInstaller == Over(Uniform({Installer}, "Admin"), ledger.security_badges)
WithMinters   == Over(Uniform(List("minter_list"), "Minter"), WithInstaller)
WithAdmins    == Over(Uniform(List("admin_list"), "Admin"), WithMinters)

\* Before each of the three writes of badges, and after the last.
BadgesSoFar ==
    /\ "write_installer_badge" \in Todo => copy.security_badges = ledger.security_badges
    /\ "write_installer_badge" \notin Todo /\ "write_minters" \in Todo =>
          copy.security_badges = WithInstaller
    /\ "write_minters" \notin Todo /\ "write_admins" \in Todo =>
          copy.security_badges = WithMinters
    /\ "write_admins" \notin Todo => copy.security_badges = WithAdmins

Initialising ==
    /\ run.stack = <<Session(Installer), StoredContract(Token)>>
    /\ copy.total_supply = run.args["total_supply"] /\ Passed
    /\ "new_dictionaries" \in Todo => ~copy.initialized
    /\ "new_dictionaries" \notin Todo => copy.initialized = TRUE
    /\ copy.balances = IF "write_initial_balance" \in Todo THEN ledger.balances
                       ELSE [ledger.balances EXCEPT ![Installer] = copy.total_supply]
    /\ BadgesSoFar
    /\ "record_event" \notin Todo =>
          /\ Todo = {}
          /\ run.event = Contract!record_event_dictionary(copy.events_mode,
                             Contract!Mint(Installer, copy.total_supply))

Install ==
    run.deployed = "call" =>
        /\ Installer \in Account /\ copy.allowances = ledger.allowances
        /\ run.entry_point = "call" => Prepared
        /\ run.entry_point = "init" => Initialising

InstallInv == run # Idle => Install

\* An installation runs its session code or the init it has called.
LEMMA InstallEntry ==
  ASSUME Control, run.deployed = "call"
  PROVE  /\ run.entry_point \in {"call", "init"}
         /\ run.entry_point = "init" => run.source = "contract"
         /\ run.entry_point = "call" => run.source # "contract"
         /\ Todo \subseteq Own(run.entry_point)
BY CallTable DEF Control, After

LEMMA StartInstall ==
  ASSUME NEW account \in Account, NEW source \in {"session", "client"}, NEW e \in Called,
         Start(account, source, e), copy = ledger
  PROVE  Install'
<1>1. SUFFICES ASSUME e = "call" PROVE Install'
  BY StartBegun DEF Install
<1>2. Control' /\ run'.entry_point = "call" /\ run'.deployed = "call"
      /\ Todo' = Elements(Program["call"]) /\ copy' = ledger /\ ledger' = ledger
  BY <1>1, StartControl, StartBegun
<1>3. "new_contract" \in Todo'
  BY <1>2, ProgramExact, OwnSteps DEF EntryPoint
<1>4. ~ledger.initialized
  BY <1>2 DEF Control
<1>5. Prepared'
  BY <1>2, <1>3, <1>4 DEF Prepared
<1>6. Installer' \in Account
  <2>1. PICK a \in Account : run'.stack = <<Session(a)>>
    BY <1>2 DEF Control, StackOf
  <2>2. QED
    BY <2>1 DEF Installer, get_caller, Session
<1>7. QED
  BY <1>2, <1>5, <1>6 DEF Install

LEMMA InstallRanks ==
    /\ \A h \in {"name", "symbol", "decimals", "total_supply", "events_mode", "admin_list",
                 "minter_list", "enable_mint_burn"} : ~(Rank("new_contract") <= Rank(h))
    /\ ~(Rank("new_contract") <= Rank("total_supply"))
    /\ ~(Rank("call_contract") <= Rank("new_contract"))
BY RankTable

\* The session code before new_contract.
LEMMA AskPrepared ==
  ASSUME Control, Suffix, Prepared, run.deployed = "call", run.entry_point = "call",
         Asks, run' # Idle
  PROVE  Prepared'
<1>1. /\ Popped /\ ledger' = ledger /\ copy' = copy /\ Head(run.steps) \in Arguments
      /\ Todo' = Todo \ {Head(run.steps)} /\ Head(run.steps) \in Todo
  BY AskPops, ArgumentNames, Pops, HeadTodo DEF Popped
<1>2. Head(run.steps) \in Own("call") \cap Arguments
  BY <1>1, InstallEntry
<1>3. Head(run.steps) \in {"name", "symbol", "decimals", "total_supply", "events_mode",
                           "admin_list", "minter_list", "enable_mint_burn"}
  BY <1>2, OwnSteps DEF Arguments
<1>4. "new_contract" \in Elements(Program["call"])
  BY ProgramExact, OwnSteps DEF EntryPoint
<1>5. "new_contract" \in Todo
  BY <1>1, <1>3, <1>4, InstallRanks DEF Suffix
<1>6. "new_contract" \in Todo'
  BY <1>1, <1>3, <1>5
<1>7. QED
  BY <1>1, <1>6 DEF Prepared

LEMMA GivenBound ==
  ASSUME NEW name, NEW other, name # other, NEW value, NEW default,
         run'.args = Bind(other, value, run.args)
  PROVE  Given(name, default)' = Given(name, default)
BY DEF Given, Bind, Over

LEMMA NewContractPrepared ==
  ASSUME Control, Args, Prepared, DOMAIN copy = StateFields, run.deployed = "call",
         run.entry_point = "call", new_contract
  PROVE  Prepared' /\ copy'.allowances = copy.allowances
<1>1. Head(run.steps) = "new_contract" /\ run.steps # <<>>
  BY DEF new_contract, At
<1>2. "total_supply" \in Own("call") \cap Arguments /\ "total_supply" \in Required
  BY OwnSteps, OptionalTable DEF Arguments, Required
<1>3. "total_supply" \in DOMAIN run.args
  BY <1>1, <1>2, ArgumentRead, InstallRanks
<1>4. run'.args = Bind("package_hash", Token, run.args) /\ ledger' = ledger
  BY NewContractFields
<1>5. Bind("package_hash", Token, run.args)["total_supply"] = run.args["total_supply"]
  BY <1>3, BindOther
<1>6. /\ Given("events_mode", 0)' = Given("events_mode", 0)
      /\ Given("enable_mint_burn", 0)' = Given("enable_mint_burn", 0)
  BY <1>4, GivenBound
<1>7. QED
  BY <1>4, <1>5, <1>6, NewContractEffect DEF Prepared

\* init begins with everything before it.
LEMMA CallInitialising ==
  ASSUME Control, Args, Prepared, run.deployed = "call", run.entry_point = "call",
         Installer \in Account, call_contract
  PROVE  Initialising' /\ Installer' = Installer
<1>1. /\ run'.entry_point = "init" /\ run'.deployed = "call" /\ run'.source = "contract"
      /\ run'.stack = Append(run.stack, StoredContract(Token))
      /\ ledger' = ledger /\ copy' = copy
  BY CallFields, CallTable
<1>2. Todo' = Own("init")
  BY <1>1, CallBegun, ProgramExact DEF After, EntryPoint
<1>3. {"new_dictionaries", "write_initial_balance", "write_installer_badge", "write_minters",
       "write_admins", "record_event"} \subseteq Todo'
  BY <1>2, OwnSteps
<1>4. PICK a \in Account : run.stack = <<Session(a)>>
  BY DEF Control, StackOf
<1>5. run'.stack = <<Session(a), StoredContract(Token)>>
  BY <1>1, <1>4, OneFrameMore
<1>6. Installer = a /\ Installer' = a
  BY <1>4, <1>5 DEF Installer, get_caller, Session
<1>7. "new_contract" \notin Todo
  BY HeadTodo, InstallRanks DEF call_contract, At
<1>8. copy.total_supply = run.args["total_supply"]
  BY <1>7 DEF Prepared
<1>9. "total_supply" \in DOMAIN run'.args
  <2>1. "total_supply" \in Own("init") \cap Required
    BY OwnSteps, OptionalTable DEF Arguments, Required
  <2>2. Args'
    BY CallArgs
  <2>3. QED
    BY <1>1, <2>1, <2>2 DEF Args
<1>10. run'.args["total_supply"] = run.args["total_supply"]
  BY <1>9, CallPasses
<1>11. Passed'
  <2>1. /\ run'.outer = run.args
        /\ run'.args = [x \in Calls["call"].passes \cap DOMAIN run.args |-> run.args[x]]
    BY CallFields
  <2>2. {"total_supply", "admin_list", "minter_list"} \subseteq Calls["call"].passes
    BY CallTable
  <2>3. /\ copy.events_mode = Given("events_mode", 0)
        /\ copy.enable_mint_burn = Given("enable_mint_burn", 0)
    BY <1>7 DEF Prepared
  <2>4. "total_supply" \in DOMAIN run.args
    BY <1>9, <2>1
  <2>5. /\ Outer("total_supply", 0)' = run.args["total_supply"]
        /\ Outer("events_mode", 0)' = Given("events_mode", 0)
        /\ Outer("enable_mint_burn", 0)' = Given("enable_mint_burn", 0)
    BY <2>1, <2>4 DEF Outer, Given
  <2>6. /\ List("admin_list")' = Outer("admin_list", {})'
        /\ List("minter_list")' = Outer("minter_list", {})'
    BY <2>1, <2>2 DEF Outer, List, Given
  <2>7. QED
    BY <1>1, <1>8, <2>3, <2>5, <2>6 DEF Passed
<1>12. QED
  BY <1>1, <1>3, <1>5, <1>6, <1>8, <1>10, <1>11 DEF Initialising, BadgesSoFar, Prepared

\* No step of init changes any of it.
LEMMA PassedSame ==
  ASSUME Passed, Kept, run'.args = run.args, copy'.total_supply = copy.total_supply,
         copy'.events_mode = copy.events_mode, copy'.enable_mint_burn = copy.enable_mint_burn
  PROVE  Passed'
BY DEF Passed, Kept, Outer, List, Given

\* The steps of init that write nothing.
LEMMA InitialisingSame ==
  ASSUME Initialising, Kept, run'.args = run.args, ledger' = ledger, copy' = copy,
         run'.event = run.event, Todo' = Todo \ {Head(run.steps)},
         Head(run.steps) \in Arguments \cup CheckSteps
  PROVE  Initialising'
<1>1. \A x \in {"new_dictionaries", "write_initial_balance", "write_installer_badge",
                "write_minters", "write_admins", "record_event"} : x \in Todo' <=> x \in Todo
  BY DEF Arguments, CheckSteps
<1>2. Installer' = Installer
  BY DEF Installer, Kept
<1>3. WithInstaller' = WithInstaller /\ WithMinters' = WithMinters /\ WithAdmins' = WithAdmins
  BY <1>2 DEF WithInstaller, WithMinters, WithAdmins, List, Given
<1>4. BadgesSoFar'
  BY <1>1, <1>3 DEF Initialising, BadgesSoFar
<1>5. Passed'
  BY PassedSame DEF Initialising
<1>6. QED
  BY <1>1, <1>2, <1>4, <1>5 DEF Initialising, Kept

LEMMA InitRanks ==
    /\ \A x \in {"write_initial_balance", "write_installer_badge", "write_minters",
                 "write_admins", "record_event"} : ~(Rank(x) <= Rank("new_dictionaries"))
    /\ \A x \in {"write_installer_badge", "write_minters", "write_admins", "record_event"} :
          ~(Rank(x) <= Rank("write_initial_balance"))
    /\ \A x \in {"write_minters", "write_admins", "record_event"} :
          ~(Rank(x) <= Rank("write_installer_badge"))
    /\ \A x \in {"write_admins", "record_event"} : ~(Rank(x) <= Rank("write_minters"))
    /\ ~(Rank("record_event") <= Rank("write_admins"))
    /\ ~(Rank("new_dictionaries") <= Rank("not_initialized"))
BY RankTable

LEMMA InitialisingWrites ==
  ASSUME Control, Suffix, Initialising, DOMAIN copy = StateFields, run.deployed = "call",
         run.entry_point = "init", Writes
  PROVE  Initialising' /\ copy'.allowances = copy.allowances
<1> DEFINE h == Head(run.steps)
<1>1. /\ Kept /\ run'.args = run.args /\ ledger' = ledger /\ run'.event = run.event
      /\ Todo' = Todo \ {h} /\ h \in Todo /\ \A y \in Todo : Rank(h) <= Rank(y)
  BY WritePops, ActsOf, RunStays DEF Popped, Acts
<1>2. h \in {"new_dictionaries", "write_initial_balance", "write_installer_badge",
             "write_minters", "write_admins"}
  BY <1>1, WritePops, InstallEntry, OwnSteps
<1>3. Installer' = Installer
  BY <1>1 DEF Installer, Kept
<1>4. WithInstaller' = WithInstaller /\ WithMinters' = WithMinters /\ WithAdmins' = WithAdmins
  BY <1>1, <1>3 DEF WithInstaller, WithMinters, WithAdmins, List, Given
<1>5. Elements(Program["init"]) = Own("init")
  BY ProgramExact DEF EntryPoint
<1>6. "record_event" \in Todo /\ "record_event" \in Todo'
  <2>1. "record_event" \in Elements(Program["init"])
    BY <1>5, OwnSteps
  <2>2. ~(Rank("record_event") <= Rank(h))
    BY <1>2, InitRanks
  <2>3. QED
    BY <1>1, <1>2, <2>1, <2>2 DEF Suffix
<1>7. /\ run'.stack = <<Session(Installer'), StoredContract(Token)>>
      /\ run'.args["total_supply"] = run.args["total_supply"]
      /\ copy.total_supply = run.args["total_supply"]
  BY <1>1, <1>3 DEF Initialising, Kept
<1>11. ASSUME NEW f \in {"initialized", "balances", "security_badges"}, Only(f) PROVE Passed'
  <2>1. /\ copy'.total_supply = copy.total_supply /\ copy'.events_mode = copy.events_mode
        /\ copy'.enable_mint_burn = copy.enable_mint_burn
    BY <1>11 DEF Only, StateFields
  <2>2. QED
    BY <1>1, <2>1, PassedSame DEF Initialising
<1> HIDE DEF h
<1>8. CASE h = "new_dictionaries"
  <2>1. Only("initialized") /\ copy'.initialized = TRUE
    BY <1>8, WriteEffect DEF h
  <2>2. /\ copy'.allowances = copy.allowances /\ copy'.balances = copy.balances
        /\ copy'.total_supply = copy.total_supply /\ copy'.security_badges = copy.security_badges
    BY <2>1 DEF Only, StateFields
  <2>3. \A x \in {"write_initial_balance", "write_installer_badge", "write_minters",
                  "write_admins"} : x \in Todo' <=> x \in Todo
    BY <1>1, <1>8
  <2>4. BadgesSoFar'
    BY <1>1, <1>4, <2>2, <2>3 DEF Initialising, BadgesSoFar
  <2>5. QED
    BY <1>1, <1>3, <1>6, <1>7, <1>8, <1>11, <2>1, <2>2, <2>3, <2>4 DEF Initialising
<1>9. CASE h = "write_initial_balance"
  <2>1. /\ Only("balances")
        /\ copy'.balances = [copy.balances EXCEPT ![Installer] = run.args["total_supply"]]
    BY <1>9, WriteEffect DEF h, Installer
  <2>2. /\ copy'.allowances = copy.allowances /\ copy'.initialized = copy.initialized
        /\ copy'.total_supply = copy.total_supply /\ copy'.security_badges = copy.security_badges
    BY <2>1 DEF Only, StateFields
  <2>3. \A x \in {"new_dictionaries", "write_installer_badge", "write_minters",
                  "write_admins"} : x \in Todo' <=> x \in Todo
    BY <1>1, <1>9
  <2>4. BadgesSoFar'
    BY <1>1, <1>4, <2>2, <2>3 DEF Initialising, BadgesSoFar
  <2>5. copy.balances = ledger.balances
    BY <1>1, <1>9 DEF Initialising
  <2>6. QED
    BY <1>1, <1>3, <1>6, <1>7, <1>9, <1>11, <2>1, <2>2, <2>3, <2>4, <2>5 DEF Initialising
<1>10. CASE h \in {"write_installer_badge", "write_minters", "write_admins"}
  <2>1. Only("security_badges")
    BY <1>10, WriteEffect DEF h
  <2>2. /\ copy'.allowances = copy.allowances /\ copy'.initialized = copy.initialized
        /\ copy'.total_supply = copy.total_supply /\ copy'.balances = copy.balances
    BY <2>1 DEF Only, StateFields
  <2>3. \A x \in {"new_dictionaries", "write_initial_balance"} : x \in Todo' <=> x \in Todo
    BY <1>1, <1>10
  <2>4. BadgesSoFar'
    <3>1. CASE h = "write_installer_badge"
      <4>1. "write_minters" \in Todo' /\ "write_admins" \in Todo'
        BY <1>1, <1>5, <3>1, OwnSteps, InitRanks DEF Suffix
      <4>2. copy'.security_badges = WithInstaller
        <5>1. copy'.security_badges = Over(Uniform({Installer}, "Admin"), copy.security_badges)
          BY <3>1, WriteEffect DEF h, Installer
        <5>2. QED
          BY <1>1, <3>1, <5>1 DEF Initialising, BadgesSoFar, WithInstaller
      <4>3. QED
        BY <1>1, <1>4, <3>1, <4>1, <4>2 DEF BadgesSoFar
    <3>2. CASE h = "write_minters"
      <4>1. "write_admins" \in Todo' /\ "write_installer_badge" \notin Todo
        BY <1>1, <1>5, <3>2, OwnSteps, InitRanks DEF Suffix
      <4>2. copy'.security_badges = WithMinters
        <5>1. copy'.security_badges =
                Over(Uniform(List("minter_list"), "Minter"), copy.security_badges)
          BY <3>2, WriteEffect DEF h
        <5>2. QED
          BY <1>1, <3>2, <4>1, <5>1 DEF Initialising, BadgesSoFar, WithMinters
      <4>3. QED
        BY <1>1, <1>4, <3>2, <4>1, <4>2 DEF BadgesSoFar
    <3>3. CASE h = "write_admins"
      <4>1. "write_minters" \notin Todo /\ "write_installer_badge" \notin Todo
        BY <1>1, <3>3, InitRanks
      <4>2. copy'.security_badges = WithAdmins
        <5>1. copy'.security_badges =
                Over(Uniform(List("admin_list"), "Admin"), copy.security_badges)
          BY <3>3, WriteEffect DEF h
        <5>2. QED
          BY <1>1, <3>3, <4>1, <5>1 DEF Initialising, BadgesSoFar, WithAdmins
      <4>3. QED
        BY <1>1, <1>4, <3>3, <4>1, <4>2 DEF BadgesSoFar
    <3>4. QED
      BY <1>10, <3>1, <3>2, <3>3
  <2>5. QED
    BY <1>1, <1>3, <1>6, <1>7, <1>10, <1>11, <2>1, <2>2, <2>3, <2>4 DEF Initialising
<1>12. QED
  BY <1>2, <1>8, <1>9, <1>10

LEMMA InitialisingRecord ==
  ASSUME Control, Initialising, run.deployed = "call", run.entry_point = "init",
         record_event_dictionary, run' # Idle
  PROVE  Initialising' /\ copy' = copy
<1>1. /\ Acts /\ copy' = copy /\ run.steps # <<>> /\ Head(run.steps) = "record_event"
      /\ run'.event = Contract!record_event_dictionary(copy.events_mode, EventOf)
      /\ \A y \in Todo : Rank("record_event") <= Rank(y)
  BY ActsOf, RecordFields DEF record_event_dictionary, At
<1>2. Installer' = Installer
  BY <1>1 DEF Installer, Acts, Kept
<1>3. WithInstaller' = WithInstaller /\ WithMinters' = WithMinters /\ WithAdmins' = WithAdmins
  BY <1>1, <1>2 DEF WithInstaller, WithMinters, WithAdmins, List, Given, Acts
<1>4. \A x \in {"new_dictionaries", "write_initial_balance", "write_installer_badge",
                "write_minters", "write_admins"} : x \in Todo' <=> x \in Todo
  BY <1>1 DEF Acts
<1>5. BadgesSoFar'
  BY <1>1, <1>3, <1>4 DEF Initialising, BadgesSoFar, Acts
<1>6. EventOf = Contract!Mint(Installer, copy.total_supply)
  BY DEF EventOf, Installer, Initialising
<1>7. Todo' = {}
  <2>1. Todo \subseteq Own("init")
    BY InstallEntry
  <2>2. \A x \in Own("init") \ {"record_event"} : ~(Rank("record_event") <= Rank(x))
    <3>1. Own("init") \subseteq Step
      BY ProgramSteps DEF EntryPoint, Own, Elements
    <3>2. "ret" \notin Own("init") /\ "store_result" \notin Own("init")
      BY OwnSteps
    <3>3. QED
      BY <3>1, <3>2, RecordRanks
  <2>3. QED
    BY <1>1, <2>1, <2>2 DEF Acts
<1>8. /\ run'.stack = run.stack /\ run'.args = run.args /\ ledger' = ledger
  BY <1>1 DEF Acts, Kept
<1>9. Passed'
  BY <1>1, PassedSame DEF Initialising, Acts
<1>10. QED
  BY <1>1, <1>2, <1>4, <1>5, <1>6, <1>7, <1>8, <1>9 DEF Initialising

LEMMA InstallNext ==
  ASSUME ExecutionInv, SuffixInv, InstallInv, Next
  PROVE  InstallInv'
<1>1. SUFFICES ASSUME run' # Idle PROVE Install'
  BY DEF InstallInv
<1>2. CASE run = Idle
  BY <1>2, IdleStarts, StartInstall DEF ExecutionInv, CopyInv
<1>3. CASE run # Idle
  <2>1. SUFFICES ASSUME run'.deployed = "call" PROVE Install'
    BY DEF Install
  <2>2. /\ Control /\ Args /\ Suffix /\ DOMAIN copy = StateFields
    BY <1>3 DEF ExecutionInv, ControlInv, ArgsInv, TypesInv, SuffixInv, StateTyped
  <2>3. ~Commit /\ ~OutOfGas
    BY <1>1, FailEnds DEF Commit, OutOfGas
  <2>4. CASE call_contract
    <3>1. run.deployed = "call" /\ run.entry_point = "call" /\ run'.entry_point = "init"
          /\ ledger' = ledger /\ copy' = copy
      <4>1. /\ run'.deployed = run.deployed /\ run'.entry_point = Calls[run.entry_point].callee
            /\ ledger' = ledger /\ copy' = copy
        BY <2>2, <2>4, CallFields
      <4>2. run.entry_point = run.deployed
        BY <2>2, <2>4, CallControl
      <4>3. QED
        BY <2>1, <4>1, <4>2, CallTable
    <3>2. Prepared /\ Installer \in Account /\ copy.allowances = ledger.allowances
      BY <1>3, <3>1 DEF InstallInv, Install
    <3>3. Initialising' /\ Installer' = Installer
      BY <2>2, <2>4, <3>1, <3>2, CallInitialising
    <3>4. QED
      BY <3>1, <3>2, <3>3 DEF Install
  <2>5. CASE ~call_contract
    <3>1. Kept /\ ledger' = ledger /\ run.steps # <<>>
      <4>1. CASE Asks \/ Checks \/ Computes \/ Writes \/ new_contract \/ record_event_dictionary
        BY <1>1, <2>2, <4>1, Pops DEF Popped
      <4>2. CASE return_if_zero \/ call_transfer_balance
        BY <2>2, <4>2, ReturnFields, TransferFields DEF return_if_zero, call_transfer_balance, At
      <4>3. QED
        BY <1>3, <2>3, <2>5, <4>1, <4>2, Kinds
    <3>2. /\ run.deployed = "call" /\ run'.entry_point = run.entry_point
          /\ Installer' = Installer
      BY <2>1, <3>1 DEF Kept, Installer
    <3>3. /\ Installer \in Account /\ copy.allowances = ledger.allowances
          /\ run.entry_point = "call" => Prepared
          /\ run.entry_point = "init" => Initialising
      BY <1>3, <3>2 DEF InstallInv, Install
    <3>4. /\ run.entry_point \in {"call", "init"} /\ Head(run.steps) \in Own(run.entry_point)
      BY <2>2, <3>1, <3>2, InstallEntry, HeadTodo
    <3>5. ~return_if_zero /\ ~call_transfer_balance /\ ~Computes
      <4>1. Head(run.steps) \notin {"return_if_zero", "transfer_balance", "new_allowance",
               "new_sender_balance", "new_recipient_balance", "new_supply", "ret"}
        BY <3>4, OwnSteps
      <4>2. QED
        BY <1>1, <2>2, <4>1, ComputePops DEF return_if_zero, call_transfer_balance, At
    <3>6. CASE run.entry_point = "call"
      <4>1. CASE Asks
        BY <1>1, <2>2, <3>1, <3>2, <3>3, <3>6, <4>1, AskPrepared, AskPops DEF Install
      <4>2. CASE new_contract
        BY <1>1, <2>2, <3>1, <3>2, <3>3, <3>6, <4>2, NewContractPrepared DEF Install
      <4>3. ~Checks /\ ~Writes /\ ~record_event_dictionary
        <5>1. Head(run.steps) \in {"name", "symbol", "decimals", "total_supply", "events_mode",
                 "admin_list", "minter_list", "enable_mint_burn", "new_contract", "call_contract"}
          BY <3>4, <3>6, OwnSteps
        <5>2. QED
          BY <1>1, <2>2, <5>1, CheckPops, WritePops DEF record_event_dictionary, At
      <4>4. QED
        BY <1>3, <2>3, <2>5, <3>5, <4>1, <4>2, <4>3, Kinds
    <3>7. CASE run.entry_point = "init"
      <4>1. run.source = "contract"
        BY <2>2, <3>2, <3>7, InstallEntry
      <4>2. CASE Asks \/ Checks
        <5>1. /\ run'.args = run.args /\ run'.event = run.event /\ copy' = copy
              /\ Head(run.steps) \in Arguments \cup CheckSteps
          <6>1. CASE Asks
            BY <1>1, <2>2, <4>1, <6>1, AskPops, AskOthers, ArgumentNames
          <6>2. CASE Checks
            BY <1>1, <2>2, <6>2, CheckPops DEF CheckSteps
          <6>3. QED
            BY <4>2, <6>1, <6>2
        <5>2. Todo' = Todo \ {Head(run.steps)}
          BY <1>1, <2>2, <4>2, Pops
        <5>3. Initialising'
          BY <3>1, <3>3, <3>7, <5>1, <5>2, InitialisingSame
        <5>4. QED
          BY <3>1, <3>2, <3>3, <3>7, <5>1, <5>3 DEF Install
      <4>3. CASE Writes
        BY <2>2, <3>1, <3>2, <3>3, <3>7, <4>3, InitialisingWrites DEF Install
      <4>4. CASE record_event_dictionary
        BY <1>1, <2>2, <3>1, <3>2, <3>3, <3>7, <4>4, InitialisingRecord DEF Install
      <4>5. ~new_contract
        <5>1. "new_contract" \notin Own("init")
          BY OwnSteps
        <5>2. QED
          BY <3>4, <3>7, <5>1 DEF new_contract, At
      <4>6. QED
        BY <1>3, <2>3, <2>5, <3>5, <4>2, <4>3, <4>4, <4>5, Kinds
    <3>8. QED
      BY <3>4, <3>6, <3>7
  <2>6. QED
    BY <2>4, <2>5
<1>4. QED
  BY <1>2, <1>3

-----------------------------------------------------------------------------
(***************************************************************************)
(* Everything together                                                     *)
(***************************************************************************)
\* Before the installation no key has a badge.
BadgesInv == ~ledger.initialized => ledger.security_badges = [k \in Key |-> Contract!Absent]

\* Nothing is committed but by Commit.
LEMMA LedgerStays ==
  ASSUME ControlInv, Next, ~Commit
  PROVE  ledger' = ledger
<1>1. CASE run = Idle
  BY <1>1, IdleStarts, StartBegun
<1>2. CASE run' = Idle /\ run # Idle
  BY <1>2, EndsByFail, FailEnds DEF ControlInv
<1>3. CASE run' # Idle /\ run # Idle
  <2>1. Control
    BY <1>3 DEF ControlInv
  <2>2. CASE Asks \/ Checks \/ Computes \/ Writes \/ new_contract \/ record_event_dictionary
    BY <1>3, <2>1, <2>2, Pops
  <2>3. CASE return_if_zero \/ call_transfer_balance \/ call_contract
    BY <2>1, <2>3, ReturnFields, TransferFields, CallFields
  <2>4. CASE OutOfGas
    BY <2>4, FailEnds DEF OutOfGas
  <2>5. QED
    BY <1>3, <2>2, <2>3, <2>4, Kinds
<1>4. QED
  BY <1>1, <1>2, <1>3

\* After a deploy the token is initialised.
LEMMA CommitInitialised ==
  ASSUME Control, Config, Install, Commit
  PROVE  ledger' = copy /\ copy.initialized
<1>1. ledger' = copy /\ Todo = {} /\ run # Idle
  BY EmptySteps DEF Commit, Todo
<1>2. CASE run.deployed = "call"
  BY <1>1, <1>2, CommittedInit DEF Install, Initialising
<1>3. CASE run.deployed # "call"
  BY <1>1, <1>3 DEF Config, Control
<1>4. QED
  BY <1>1, <1>2, <1>3

LEMMA BadgesNext ==
  ASSUME ExecutionInv, ConfigInv, InstallInv, BadgesInv, Next
  PROVE  BadgesInv'
<1>1. CASE Commit
  BY <1>1, CommitInitialised
     DEF Commit, ExecutionInv, ControlInv, ConfigInv, InstallInv, BadgesInv
<1>2. CASE ~Commit
  BY <1>2, LedgerStays DEF ExecutionInv, BadgesInv
<1>3. QED
  BY <1>1, <1>2

StagesInv == ChecksInv /\ SuffixInv /\ ArgsOwnInv /\ StageInv /\ InstallInv /\ BadgesInv

LEMMA StagesStutter == StagesInv /\ UNCHANGED vars => StagesInv'
<1> SUFFICES ASSUME StagesInv, UNCHANGED vars PROVE StagesInv'
  OBVIOUS
<1>1. ledger' = ledger /\ copy' = copy /\ run' = run
  BY DEF vars
<1>2. ExecutionInv'
  BY Stutters DEF StagesInv, ChecksInv
<1>3. ConfigInv' /\ UnwrittenInv'
  BY <1>1 DEF StagesInv, ChecksInv, ConfigInv, Config, UnwrittenInv, Unwritten, Todo
<1>4. SuffixInv' /\ ArgsOwnInv'
  BY <1>1 DEF StagesInv, SuffixInv, Suffix, ArgsOwnInv, ArgsOwn, Todo
<1>5. Todo' = Todo /\ Installer' = Installer
  BY <1>1 DEF Todo, Installer
<1>6. InstallInv'
  <2>1. WithInstaller' = WithInstaller /\ WithMinters' = WithMinters /\ WithAdmins' = WithAdmins
    BY <1>1, <1>5 DEF WithInstaller, WithMinters, WithAdmins, List, Given
  <2>2. BadgesSoFar' <=> BadgesSoFar
    BY <1>1, <1>5, <2>1 DEF BadgesSoFar
  <2>3. Initialising' <=> Initialising
    BY <1>1, <1>5, <2>2 DEF Initialising, Passed, Outer, List, Given
  <2>4. Prepared' <=> Prepared
    BY <1>1, <1>5 DEF Prepared, Given
  <2>5. QED
    BY <1>1, <1>5, <2>3, <2>4 DEF StagesInv, InstallInv, Install
<1>7. BadgesInv'
  BY <1>1 DEF StagesInv, BadgesInv
<1>8. StageInv'
  <2>1. /\ caller' = caller /\ sec_check_list' = sec_check_list /\ Amount' = Amount
    BY <1>1 DEF caller, sec_check_list, Amount
  <2>2. From' = From
    BY <1>1, <2>1 DEF From, Given
  <2>3. To' = To /\ Grant' = Grant
    BY <1>1, <2>1, <2>2 DEF To, Grant, Given
  <2>4. NewAllowance' = NewAllowance /\ Debited' = Debited /\ Credited' = Credited
        /\ NewSupply' = NewSupply
    BY <1>1, <2>1, <2>2, <2>3 DEF NewAllowance, Debited, Credited, NewSupply
  <2>5. BadgeMap' = BadgeMap
    BY <1>1, <2>1 DEF BadgeMap, List, Given
  <2>6. (Zero' <=> Zero) /\ (Moves' <=> Moves)
    BY <1>1, <1>5, <2>1 DEF Zero, Moves
  <2>7. Checked' <=> Checked
    BY <1>1, <1>5, <2>1, <2>2, <2>3 DEF Checked
  <2>8. /\ AllowanceComputed' <=> AllowanceComputed
        /\ BalancesComputed' <=> BalancesComputed
        /\ SupplyComputed' <=> SupplyComputed
        /\ Entered' <=> Entered
    BY <1>1, <1>5, <2>1, <2>2, <2>3, <2>4, <2>6
       DEF AllowanceComputed, BalancesComputed, SupplyComputed, Entered
  <2>9. /\ AllowanceWritten' <=> AllowanceWritten
        /\ SupplyWritten' <=> SupplyWritten
        /\ BadgesWritten' <=> BadgesWritten
    BY <1>1, <1>5, <2>3, <2>4, <2>5, <2>6 DEF AllowanceWritten, SupplyWritten, BadgesWritten
  <2>10. BalancesWritten' <=> BalancesWritten
    BY <1>1, <1>5, <2>2, <2>3, <2>4, <2>6 DEF BalancesWritten, SenderWritten, RecipientWritten
  <2>11. EventOf' = EventOf
    BY <1>1, <2>1, <2>2, <2>3 DEF EventOf, List, Given
  <2>12. Recorded' <=> Recorded
    <3>1. run' = run /\ Todo' = Todo /\ ledger' = ledger /\ (Zero' <=> Zero) /\ EventOf' = EventOf
      BY <1>1, <1>5, <2>6, <2>11
    <3> QED
      BY <3>1 DEF Recorded
  <2>13. Done' <=> Done
    BY <2>8, <2>9, <2>10, <2>12 DEF Done
  <2>14. QED
    BY <1>1, <2>7, <2>13 DEF StagesInv, StageInv, Stage
<1>9. QED
  BY <1>2, <1>3, <1>4, <1>6, <1>7, <1>8 DEF StagesInv, ChecksInv

\* Where every deploy stands between two of its steps: what it has checked still holds, what it
\* has computed comes from what is committed, and its copy differs from that by what it has
\* written.
THEOREM StagesInvariant == Spec => []StagesInv
<1>1. Init => SuffixInv /\ ArgsOwnInv /\ StageInv /\ InstallInv /\ BadgesInv
  BY DEF Init, SuffixInv, ArgsOwnInv, StageInv, InstallInv, BadgesInv
<1>2. ChecksInv /\ StagesInv /\ [Next]_vars => StagesInv' \/ ~ChecksInv'
  <2>1. ASSUME ChecksInv', StagesInv, Next PROVE StagesInv'
    BY <2>1, SuffixNext, ArgsOwnNext, StageNext, InstallNext, BadgesNext
       DEF StagesInv, ChecksInv, ExecutionInv
  <2>2. QED
    BY <2>1, StagesStutter
<1>3. Spec => []ChecksInv
  BY ChecksInvariant
<1>4. ChecksInv /\ SuffixInv /\ ArgsOwnInv /\ StageInv /\ InstallInv /\ BadgesInv => StagesInv
  BY DEF StagesInv
<1>5. QED
  BY <1>1, <1>2, <1>3, <1>4, PTL DEF Spec

-----------------------------------------------------------------------------
(***************************************************************************)
(* How an installation ends                                                *)
(***************************************************************************)
\* Three writes, each over what was there before it.
LEMMA BadgesInstalled ==
  ASSUME NEW k \in Key, NEW admins \in SUBSET Key, NEW minters \in SUBSET Key
  PROVE  Over(Uniform(admins, "Admin"),
              Over(Uniform(minters, "Minter"),
                   Over(Uniform({k}, "Admin"), [key \in Key |-> Contract!Absent])))
         = Contract!init_badges(k, admins, minters)
<1> DEFINE none    == [key \in Key |-> Contract!Absent]
           first   == Over(Uniform({k}, "Admin"), none)
           second  == Over(Uniform(minters, "Minter"), first)
           third   == Over(Uniform(admins, "Admin"), second)
<1>1. /\ DOMAIN first = Key
      /\ \A key \in Key : first[key] = IF key = k THEN "Admin" ELSE Contract!Absent
  BY DEF Over, Uniform
<1>2. /\ DOMAIN second = Key
      /\ \A key \in Key : second[key] = IF key \in minters THEN "Minter" ELSE first[key]
  <2> HIDE DEF first
  <2>1. QED
    BY <1>1 DEF Over, Uniform
<1>3. third = [key \in Key |-> IF key \in admins THEN "Admin" ELSE second[key]]
  <2> HIDE DEF second
  <2>1. QED
    BY <1>2 DEF Over, Uniform
<1>4. \A key \in Key : (IF key \in admins THEN "Admin" ELSE second[key])
         = CASE key \in admins -> "Admin"
             [] key \in minters \ admins -> "Minter"
             [] key \notin admins \cup minters -> IF key = k THEN "Admin" ELSE Contract!Absent
  <2> HIDE DEF first, second
  <2>1. QED
    BY <1>1, <1>2
<1>5. third = Contract!init_badges(k, admins, minters)
  <2> HIDE DEF third, second, first
  <2>1. QED
    BY <1>3, <1>4 DEF Contract!init_badges, Contract!Key, Key
<1>6. QED
  BY <1>5

\* What an installation commits.
LEMMA InstallationCommits ==
  ASSUME StagesInv, Commit, run.deployed = "call"
  PROVE  /\ ~ledger.initialized /\ run.entry_point = "init"
         /\ Installer \in Account
         /\ List("admin_list") \in SUBSET Key /\ List("minter_list") \in SUBSET Key
         /\ run.stack = <<Session(Installer), StoredContract(Token)>>
         /\ copy.initialized = TRUE /\ copy.allowances = ledger.allowances /\ Passed
         /\ copy.balances = [ledger.balances EXCEPT ![Installer] = copy.total_supply]
         /\ copy.security_badges =
               Contract!init_badges(Installer, List("admin_list"), List("minter_list"))
         /\ copy.events_mode \in EventsMode
         /\ run.event = Contract!record_event_dictionary(copy.events_mode,
                            Contract!Mint(Installer, copy.total_supply))
<1>1. run # Idle /\ run.steps = <<>>
  BY DEF Commit
<1>2. /\ Control /\ Args /\ Config /\ Install
  BY <1>1 DEF StagesInv, ChecksInv, ExecutionInv, ControlInv, ArgsInv, ConfigInv, InstallInv
<1>3. run.entry_point = "init" /\ Todo = {}
  BY <1>2, CommittedInit
<1>4. /\ List("admin_list") \in SUBSET Key /\ List("minter_list") \in SUBSET Key
  BY <1>2, <1>3, CallTable, PartiesKeys
<1>5. ~ledger.initialized
  BY <1>2 DEF Control
<1>6. Initialising /\ Installer \in Account /\ copy.allowances = ledger.allowances
  BY <1>2, <1>3 DEF Install
<1>7. ledger.security_badges = [key \in Key |-> Contract!Absent]
  BY <1>5 DEF StagesInv, BadgesInv
<1>8. copy.security_badges =
        Contract!init_badges(Installer, List("admin_list"), List("minter_list"))
  <2>1. copy.security_badges = WithAdmins
    BY <1>3, <1>6 DEF Initialising, BadgesSoFar
  <2>2. Installer \in Key
    BY <1>6 DEF Key
  <2>3. QED
    BY <1>4, <1>7, <2>1, <2>2, BadgesInstalled DEF WithAdmins, WithMinters, WithInstaller
<1>9. QED
  BY <1>2, <1>3, <1>4, <1>5, <1>6, <1>8 DEF Initialising, Config

\* A new token has an Admin unless its installer is on minter_list and admin_list is empty,
\* whatever the arguments: the three writes of badges are made one over the other.
THEOREM AdminUnlessMinter == Spec => AdminUnlessInstallerIsMinter
<1>1. ASSUME StagesInv, Next, ledger'.initialized, ~ledger.initialized
      PROVE  (\E k \in Key : ledger'.security_badges[k] = "Admin")
               <=> \/ Outer("admin_list", {}) # {}
                   \/ get_caller(run.stack) \notin Outer("minter_list", {})
  <2>1. Commit
    BY <1>1, LedgerStays DEF StagesInv, ChecksInv, ExecutionInv
  <2>2. ledger' = copy /\ run.deployed = "call"
    BY <1>1, <2>1 DEF Commit, StagesInv, ChecksInv, ExecutionInv, ControlInv, Control
  <2> DEFINE admins == List("admin_list")
             minters == List("minter_list")
  <2>3. /\ copy.security_badges = Contract!init_badges(Installer, admins, minters)
        /\ Installer \in Key /\ admins \in SUBSET Key /\ minters \in SUBSET Key
        /\ admins = Outer("admin_list", {}) /\ minters = Outer("minter_list", {})
    BY <1>1, <2>1, <2>2, InstallationCommits DEF Key, Passed
  <2> HIDE DEF admins, minters
  <2>4. \A k \in Key : copy.security_badges[k] = "Admin" <=>
           k \in admins \/ (k = Installer /\ k \notin minters)
    BY <2>3 DEF Contract!init_badges, Contract!Absent, Contract!Key, Key
  <2>5. (\E k \in Key : ledger'.security_badges[k] = "Admin")
           <=> (admins # {} \/ Installer \notin minters)
    BY <2>2, <2>3, <2>4
  <2>6. QED
    BY <2>3, <2>5 DEF Installer
<1>2. StagesInv /\ [Next]_vars =>
        [ledger'.initialized /\ ~ledger.initialized =>
          ((\E k \in Key : ledger'.security_badges[k] = "Admin")
              <=> \/ Outer("admin_list", {}) # {}
                  \/ get_caller(run.stack) \notin Outer("minter_list", {}))]_vars
  BY <1>1
<1>3. QED
  BY <1>2, StagesInvariant, PTL DEF Spec, AdminUnlessInstallerIsMinter

-----------------------------------------------------------------------------
(***************************************************************************)
(* How any other deploy ends                                               *)
(***************************************************************************)
Standing ==
    /\ Control /\ Args /\ Config /\ Unwritten /\ Suffix /\ ArgsOwn /\ Checked /\ Done
    /\ StateTyped(ledger) /\ run.deployed # "call"

\* It commits what it has written, ...
Answers ==
    /\ Todo = {}
    /\ ledger' = copy
    /\ deploy' = [entry_point |-> run.entry_point, stack |-> run.stack, error |-> Ok,
                  event |-> run.event]

\* ... or is refused by the token for what is committed.
Refuses ==
    /\ run.steps # <<>>
    /\ \/ /\ Head(run.steps) = "owner_is_not_spender" /\ caller = run.args["spender"]
          /\ Fail("CannotTargetSelfUser")
       \/ /\ Head(run.steps) = "sender_is_not_recipient" /\ From = To
          /\ Fail("CannotTargetSelfUser")
       \/ /\ Head(run.steps) = "owner_is_caller" /\ From # caller
          /\ Fail("InvalidBurnTarget")
       \/ /\ Head(run.steps) = "enabled" /\ ledger.enable_mint_burn = 0
          /\ Fail("MintBurnDisabled")
       \/ Head(run.steps) = "not_initialized" /\ Fail("AlreadyInitialized")
       \/ /\ Head(run.steps) = "sec_check"
          /\ ledger.security_badges[caller] \notin sec_check_list
          /\ Fail("InsufficientRights")
       \/ /\ Head(run.steps) = "new_allowance" /\ run.entry_point = "transfer_from"
          /\ SubUnderflows(ledger.allowances[Grant], Amount)
          /\ Fail("InsufficientAllowance")
       \/ /\ Head(run.steps) = "new_sender_balance"
          /\ SubUnderflows(ledger.balances[From], Amount)
          /\ Fail("InsufficientBalance")
       \/ /\ Head(run.steps) = "new_recipient_balance"
          /\ AddOverflows(ledger.balances[To], Amount)
          /\ Fail("Overflow")
       \/ Head(run.steps) = "new_supply" /\ NewSupply \notin U256 /\ Fail("Overflow")

LEMMA Proceeds ==
  ASSUME Control, run.steps # <<>>
  PROVE  /\ Proceed => run' # Idle
         /\ \A name, value : Compute(name, value) => run' # Idle
BY ProceedFields, ComputeFields, RunStays DEF Popped

LEMMA CheckRefuses ==
  ASSUME Control, Unwritten, Checks, run' = Idle, run.deployed # "call", Config
  PROVE  Refuses
<1>1. run.steps # <<>> /\ ~Proceed
  BY Proceeds DEF Checks, Check, At, sec_check, init_events
<1>2. Head(run.steps) \in CheckSteps
  BY DEF Checks, Check, At, sec_check, init_events, CheckSteps
<1>3. copy = ledger
  BY <1>1, <1>2, HeadTodo DEF Unwritten, Late, CheckSteps
<1>4. Head(run.steps) # "init_events"
  <2>1. Head(run.steps) = "init_events" => run.entry_point = "init"
    BY <1>1, HeadOwn, StepOf DEF Control
  <2>2. QED
    BY <1>1, <2>1, InitSteps
<1>5. QED
  BY <1>1, <1>3, <1>4 DEF Checks, Check, At, sec_check, init_events, Refuses

LEMMA ComputeRefuses ==
  ASSUME Control, Unwritten, Computes, run' = Idle, run.deployed # "call"
  PROVE  Refuses
<1>1. run.steps # <<>>
  BY DEF Computes, new_allowance, new_sender_balance, new_recipient_balance, new_total_supply,
         ret, At
<1>2. \A name, value : ~Compute(name, value)
  BY <1>1, Proceeds
<1>3. Head(run.steps) \in {"new_allowance", "new_sender_balance", "new_recipient_balance",
                           "new_supply"}
  BY <1>2 DEF Computes, new_allowance, new_sender_balance, new_recipient_balance,
              new_total_supply, ret, At
<1>4. copy = ledger
  BY <1>1, <1>3, HeadTodo DEF Unwritten, Late
<1>5. CASE new_allowance
  BY <1>1, <1>2, <1>4, <1>5 DEF new_allowance, Refuses, At, Amount
<1>6. CASE new_sender_balance
  BY <1>1, <1>2, <1>4, <1>6 DEF new_sender_balance, Refuses, At, Amount
<1>7. CASE new_recipient_balance
  BY <1>1, <1>2, <1>4, <1>7 DEF new_recipient_balance, Refuses, At, Amount
<1>8. CASE new_total_supply
  BY <1>1, <1>2, <1>4, <1>8 DEF new_total_supply, Refuses, At, Amount, NewSupply
<1>9. ~ret
  BY <1>2 DEF ret
<1>10. QED
  BY <1>5, <1>6, <1>7, <1>8, <1>9 DEF Computes

LEMMA Ending ==
  ASSUME StagesInv, Next, Ends, run.deployed # "call", deploy'.error # "OutOfGas",
         ~(AtArgument /\ deploy'.error # Ok)
  PROVE  Standing /\ (Answers \/ Refuses)
<1>1. run # Idle /\ run' = Idle
  BY DEF Ends
<1>2. Standing /\ ConfigInv
  BY <1>1 DEF StagesInv, ChecksInv, ExecutionInv, ControlInv, ArgsInv, TypesInv, ConfigInv,
              UnwrittenInv, SuffixInv, ArgsOwnInv, StageInv, Stage, Standing
<1>3. CASE Commit
  <2>1. Todo = {}
    BY <1>1, <1>2, <1>3, EndError DEF Standing
  <2>2. Answers
    BY <1>3, <2>1 DEF Commit, Answer, Answers
  <2>3. QED
    BY <1>2, <2>2
<1>4. CASE ~Commit
  <2>1. deploy'.error # Ok /\ run.steps # <<>>
    BY <1>1, <1>2, <1>4, EndError, EndsByFail DEF Standing
  <2>2. Head(run.steps) \notin Arguments
    BY <2>1, ArgumentNames DEF AtArgument
  <2>3. ~record_event_dictionary
    BY <1>1, <1>2, RecordNeverFails DEF Standing
  <2>4. Checks \/ Computes
    BY <1>1, <1>2, <1>4, <2>2, <2>3, FailsAt DEF Standing
  <2>5. QED
    BY <1>1, <1>2, <2>4, CheckRefuses, ComputeRefuses DEF Standing
<1>5. QED
  BY <1>3, <1>4

\* A refusal is what CEP18 calls a revert.
LEMMA Reverts ==
  ASSUME run.deployed # "call", NEW error, error # Ok, Fail(error)
  PROVE  Contract!Revert(run.entry_point, run.stack, error)
BY DEF Fail, Answer, Contract!Revert, Contract!Ok, Ok, Contract!state, Contract!config

\* The arguments of the call; what was not read before it failed does not matter.
LEMMA CalledAs ==
  ASSUME LET spender   == Given("spender", caller)
             owner     == Given("owner", caller)
             recipient == Given("recipient", caller)
             amount    == Given("amount", 0)
         IN  \/ /\ run.entry_point = "transfer"
                /\ Contract!transfer(run.stack, recipient, amount)
             \/ /\ run.entry_point = "transfer_from"
                /\ Contract!transfer_from(run.stack, owner, recipient, amount)
             \/ /\ run.entry_point = "approve"
                /\ Contract!approve(run.stack, spender, amount)
             \/ /\ run.entry_point = "increase_allowance"
                /\ Contract!increase_allowance(run.stack, spender, amount)
             \/ /\ run.entry_point = "decrease_allowance"
                /\ Contract!decrease_allowance(run.stack, spender, amount)
             \/ /\ run.entry_point = "mint"
                /\ Contract!mint(run.stack, owner, amount)
             \/ /\ run.entry_point = "burn"
                /\ Contract!burn(run.stack, owner, amount)
             \/ /\ run.entry_point = "change_security"
                /\ Contract!change_security(run.stack, List("admin_list"), List("minter_list"),
                                            List("none_list"))
             \/ /\ run.deployed = "init"
                /\ Contract!init(run.stack)
             \/ /\ run.deployed = "call"
                /\ Contract!install_contract(Installer, Outer("total_supply", 0),
                     Outer("events_mode", 0), Outer("enable_mint_burn", 0),
                     Outer("admin_list", {}), Outer("minter_list", {}))
  PROVE  AsCalled
<1>1. \A name, value : Given(name, value) \in Read(name, {value})
  BY DEF Given, Read
<1>2. /\ Given("spender", caller) \in Read("spender", {caller})
      /\ Given("owner", caller) \in Read("owner", {caller})
      /\ Given("recipient", caller) \in Read("recipient", {caller})
      /\ Given("amount", 0) \in Read("amount", {0})
  BY <1>1
<1>3. QED
  BY <1>2 DEF AsCalled, Installer

\* What an entry point has no business with is as it was.
LEMMA AnswersRest ==
  ASSUME Standing, Answers
  PROVE  /\ ledger'.initialized = ledger.initialized
         /\ ledger'.events_mode = ledger.events_mode
         /\ ledger'.enable_mint_burn = ledger.enable_mint_burn
         /\ run.entry_point \notin Granting \/ Zero => ledger'.allowances = ledger.allowances
         /\ run.entry_point \in Granting /\ ~Zero =>
               ledger'.allowances = [ledger.allowances EXCEPT ![Grant] = NewAllowance]
         /\ run.entry_point \notin Moving \cup Minting => ledger'.balances = ledger.balances
         /\ run.entry_point \notin Minting => ledger'.total_supply = ledger.total_supply
         /\ run.entry_point # "change_security" =>
               ledger'.security_badges = ledger.security_badges
         /\ run.entry_point \in Changing =>
               deploy'.event = IF Zero THEN Contract!NoEvent
                               ELSE Contract!record_event_dictionary(ledger.events_mode, EventOf)
<1>1. Todo = {} /\ ledger' = copy /\ deploy'.event = run.event
  BY DEF Answers
<1>2. /\ copy.initialized = ledger.initialized /\ copy.events_mode = ledger.events_mode
      /\ copy.enable_mint_burn = ledger.enable_mint_burn
  BY DEF Standing, Config
<1>3. /\ run.entry_point \notin Granting \/ Zero => copy.allowances = ledger.allowances
      /\ run.entry_point \in Granting /\ ~Zero =>
            copy.allowances = [ledger.allowances EXCEPT ![Grant] = NewAllowance]
  BY <1>1 DEF Standing, Done, AllowanceWritten
<1>4. run.entry_point \notin Moving \cup Minting => copy.balances = ledger.balances
  BY DEF Standing, Done, BalancesWritten, SenderWritten, RecipientWritten, Moves, Minting
<1>5. /\ run.entry_point \notin Minting => copy.total_supply = ledger.total_supply
      /\ run.entry_point # "change_security" => copy.security_badges = ledger.security_badges
  BY DEF Standing, Done, SupplyWritten, BadgesWritten
<1>6. run.entry_point \in Changing =>
        run.event = IF Zero THEN Contract!NoEvent
                    ELSE Contract!record_event_dictionary(ledger.events_mode, EventOf)
  BY <1>1 DEF Standing, Done, Recorded
<1>7. QED
  BY <1>1, <1>2, <1>3, <1>4, <1>5, <1>6

\* An argument that has been read, at the end or before a step that comes after it.
LEMMA HasArgument ==
  ASSUME Standing, NEW x \in Own(run.entry_point) \cap Arguments, x \notin DOMAIN Optional,
         \/ Todo = {}
         \/ run.steps # <<>> /\ ~(Rank(Head(run.steps)) <= Rank(x))
  PROVE  x \in DOMAIN run.args /\ \A default : Given(x, default) = run.args[x]
<1>1. x \in Required
  BY DEF Required
<1>2. x \in DOMAIN run.args
  <2>1. CASE Todo = {}
    BY <1>1, <2>1 DEF Standing, Args
  <2>2. CASE run.steps # <<>> /\ ~(Rank(Head(run.steps)) <= Rank(x))
    BY <1>1, <2>2, ArgumentRead DEF Standing
  <2>3. QED
    BY <2>1, <2>2
<1>3. QED
  BY <1>2 DEF Given

\* An argument the entry point does not read is not there.
LEMMA NoArgument ==
  ASSUME Standing, NEW x, x \notin Own(run.entry_point), x # "package_hash"
  PROVE  x \notin DOMAIN run.args /\ \A default : Given(x, default) = default
BY DEF Standing, ArgsOwn, Given

LEMMA RefusedAt ==
  ASSUME Standing, Refuses
  PROVE  Head(run.steps) \in Own(run.entry_point)
<1>1. Head(run.steps) # "store_result" /\ run.steps # <<>>
  BY DEF Refuses
<1>2. QED
  BY <1>1, HeadOwn DEF Standing

LEMMA EndRanks ==
    /\ ~(Rank("owner_is_not_spender") <= Rank("spender"))
    /\ ~(Rank("sender_is_not_recipient") <= Rank("recipient"))
    /\ ~(Rank("sender_is_not_recipient") <= Rank("owner"))
    /\ ~(Rank("owner_is_caller") <= Rank("owner"))
    /\ \A x \in {"new_allowance", "new_sender_balance", "new_recipient_balance", "new_supply"} :
          /\ ~(Rank(x) <= Rank("recipient")) /\ ~(Rank(x) <= Rank("owner"))
          /\ ~(Rank(x) <= Rank("spender")) /\ ~(Rank(x) <= Rank("amount"))
BY RankTable

(***************************************************************************)
(* Allowances                                                              *)
(***************************************************************************)
LEMMA ApprovingEnds ==
  ASSUME Standing, Answers \/ Refuses, run.entry_point \in Approving
  PROVE  LET spender == Given("spender", caller)
             amount  == Given("amount", 0)
         IN  /\ run.entry_point = "approve" => Contract!approve(run.stack, spender, amount)
             /\ run.entry_point = "increase_allowance" =>
                   Contract!increase_allowance(run.stack, spender, amount)
             /\ run.entry_point = "decrease_allowance" =>
                   Contract!decrease_allowance(run.stack, spender, amount)
<1> DEFINE spender == Given("spender", caller)
           amount  == Given("amount", 0)
<1>1. /\ run.entry_point \in {"approve", "increase_allowance", "decrease_allowance"}
      /\ Own(run.entry_point) = {"spender", "owner_is_not_spender", "amount", "new_allowance",
                                 "write_allowance", "record_event"}
  BY OwnSteps DEF Approving
<1>2. From = caller
  BY <1>1, NoArgument DEF From
<1>3. caller = Contract!get_immediate_caller_address(run.stack)
  BY DEF caller
<1>4. /\ "spender" \in Own(run.entry_point) \cap Arguments
      /\ "amount" \in Own(run.entry_point) \cap Arguments
      /\ "spender" \notin DOMAIN Optional /\ "amount" \notin DOMAIN Optional
  BY <1>1, OptionalTable DEF Arguments
<1>5. Grant = <<caller, spender>>
  BY <1>2 DEF Grant
<1>6. CASE Refuses
  <2>1. Head(run.steps) = "owner_is_not_spender" /\ caller = run.args["spender"]
        /\ Fail("CannotTargetSelfUser") /\ run.steps # <<>>
    BY <1>1, <1>6, RefusedAt DEF Refuses
  <2>2. spender = caller
    BY <1>4, <2>1, HasArgument, EndRanks
  <2>3. Contract!Revert(run.entry_point, run.stack, "CannotTargetSelfUser")
    BY <2>1, Reverts DEF Standing, Ok
  <2>4. Contract!spender_error(caller, spender) = "CannotTargetSelfUser"
    BY <2>2 DEF Contract!spender_error
  <2> HIDE DEF spender, amount
  <2>5. QED
    BY <1>1, <1>3, <2>3, <2>4
       DEF Contract!approve, Contract!increase_allowance, Contract!decrease_allowance
           , spender, amount
<1>7. CASE Answers
  <2>1. Todo = {}
    BY <1>7 DEF Answers
  <2>2. spender = run.args["spender"] /\ amount = Amount
    BY <1>4, <2>1, HasArgument DEF Amount
  <2>3. spender # caller
    BY <1>1, <2>1, <2>2 DEF Standing, Checked, Approving
  <2>4. Contract!spender_error(caller, spender) = Contract!Ok
    BY <2>3 DEF Contract!spender_error
  <2>5. ~Zero /\ run.entry_point \in Granting /\ run.entry_point \in Changing
        /\ run.entry_point \notin Moving \cup Minting /\ run.entry_point # "change_security"
    BY <1>1 DEF Zero, Granting, Approving, Changing, WithAmount, Moving, Minting
  <2>6. ledger'.allowances = [ledger.allowances EXCEPT ![<<caller, spender>>] = NewAllowance]
    BY <1>5, <1>7, <2>5, AnswersRest
  <2>7. UNCHANGED <<ledger.balances, ledger.total_supply, ledger.security_badges,
                    ledger.initialized, ledger.events_mode, ledger.enable_mint_burn>>
    BY <1>7, <2>5, AnswersRest
  <2>8. deploy' = [entry_point |-> run.entry_point, stack |-> run.stack, error |-> Contract!Ok,
                   event |-> Contract!record_event_dictionary(ledger.events_mode, EventOf)]
    BY <1>7, <2>5, AnswersRest DEF Answers, Ok, Contract!Ok
  <2> HIDE DEF spender, amount
  <2>9. CASE run.entry_point = "approve"
    <3>1. NewAllowance = amount /\ EventOf = Contract!SetAllowance(caller, spender, amount)
      BY <1>5, <2>2, <2>9 DEF NewAllowance, EventOf, Amount
    <3>2. Contract!approve(run.stack, spender, amount)
      BY <1>3, <2>4, <2>6, <2>7, <2>8, <2>9, <3>1
         DEF Contract!approve, Contract!write_allowance_to, Contract!Emit, Contract!Return,
             Contract!config
    <3>3. QED
      BY <2>9, <3>2 DEF spender, amount
  <2>10. CASE run.entry_point = "increase_allowance"
    <3>1. NewAllowance = Contract!saturating_add(ledger.allowances[<<caller, spender>>], amount)
      BY <1>5, <2>2, <2>10
         DEF NewAllowance, saturating_add, AddOverflows, Contract!saturating_add,
             Contract!AddOverflows
    <3>2. run.new["allowance"] = NewAllowance
      BY <2>1, <2>5 DEF Standing, Done, AllowanceComputed
    <3>3. EventOf = Contract!IncreaseAllowance(caller, spender, NewAllowance, amount)
      BY <1>5, <2>2, <2>10, <3>2 DEF EventOf, Amount
    <3>4. Contract!increase_allowance(run.stack, spender, amount)
      BY <1>3, <2>4, <2>6, <2>7, <2>8, <2>10, <3>1, <3>3
         DEF Contract!increase_allowance, Contract!write_allowance_to, Contract!Emit,
             Contract!Return, Contract!config
    <3>5. QED
      BY <2>10, <3>4 DEF spender, amount
  <2>11. CASE run.entry_point = "decrease_allowance"
    <3>1. NewAllowance = Contract!saturating_sub(ledger.allowances[<<caller, spender>>], amount)
      BY <1>5, <2>2, <2>11
         DEF NewAllowance, saturating_sub, SubUnderflows, Contract!saturating_sub,
             Contract!SubUnderflows
    <3>2. run.new["allowance"] = NewAllowance
      BY <2>1, <2>5 DEF Standing, Done, AllowanceComputed
    <3>3. EventOf = Contract!DecreaseAllowance(caller, spender, NewAllowance, amount)
      BY <1>5, <2>2, <2>11, <3>2 DEF EventOf, Amount
    <3>4. Contract!decrease_allowance(run.stack, spender, amount)
      BY <1>3, <2>4, <2>6, <2>7, <2>8, <2>11, <3>1, <3>3
         DEF Contract!decrease_allowance, Contract!write_allowance_to, Contract!Emit,
             Contract!Return, Contract!config
    <3>5. QED
      BY <2>11, <3>4 DEF spender, amount
  <2>12. QED
    BY <1>1, <2>9, <2>10, <2>11
<1>8. QED
  BY <1>6, <1>7

(***************************************************************************)
(* Transfers                                                               *)
(***************************************************************************)
LEMMA MoveRanks ==
    /\ \A x \in {"new_sender_balance", "new_recipient_balance"} :
          /\ ~(Rank(x) <= Rank("sender_is_not_recipient"))
          /\ ~(Rank(x) <= Rank("new_allowance"))
    /\ ~(Rank("new_recipient_balance") <= Rank("new_sender_balance"))
    /\ ~(Rank("new_allowance") <= Rank("sender_is_not_recipient"))
    /\ ~(Rank("new_allowance") <= Rank("return_if_zero"))
BY RankTable

\* transfer_balance refuses what CEP18 says it does ...
LEMMA MoveRefused ==
  ASSUME Standing, Refuses, run.entry_point \in Moving,
         Head(run.steps) \in {"new_sender_balance", "new_recipient_balance"}
  PROVE  /\ From # To /\ Amount # 0
         /\ run.entry_point = "transfer_from" => ~SubUnderflows(ledger.allowances[Grant], Amount)
         /\ Contract!transfer_balance_error(From, To, Amount) # Ok
         /\ Fail(Contract!transfer_balance_error(From, To, Amount))
<1>1. /\ Head(run.steps) \in Todo /\ \A y \in Todo : Rank(Head(run.steps)) <= Rank(y)
      /\ run.steps # <<>>
  BY HeadTodo DEF Standing, Refuses
<1>2. Amount # 0 /\ "transfer_balance" \notin Todo
  BY <1>1, TransferBalanceSteps DEF Standing, Done, Entered, Control
<1>3. From # To
  BY <1>1, MoveRanks DEF Standing, Checked
<1>4. Moves /\ ~Zero
  BY <1>2 DEF Moves, Zero
<1>5. run.entry_point = "transfer_from" => ~SubUnderflows(ledger.allowances[Grant], Amount)
  BY <1>1, <1>4, MoveRanks DEF Standing, Done, AllowanceComputed, Granting
<1>6. CASE Head(run.steps) = "new_sender_balance"
  <2>1. SubUnderflows(ledger.balances[From], Amount) /\ Fail("InsufficientBalance")
    BY <1>6 DEF Refuses
  <2>2. Contract!transfer_balance_error(From, To, Amount) = "InsufficientBalance"
    BY <1>2, <1>3, <2>1
       DEF Contract!transfer_balance_error, Contract!SubUnderflows, SubUnderflows
  <2>3. QED
    BY <1>2, <1>3, <1>5, <2>1, <2>2 DEF Ok
<1>7. CASE Head(run.steps) = "new_recipient_balance"
  <2>1. AddOverflows(ledger.balances[To], Amount) /\ Fail("Overflow")
    BY <1>7 DEF Refuses
  <2>2. ~SubUnderflows(ledger.balances[From], Amount)
    BY <1>1, <1>4, <1>7, MoveRanks DEF Standing, Done, BalancesComputed
  <2>3. Contract!transfer_balance_error(From, To, Amount) = "Overflow"
    BY <1>2, <1>3, <2>1, <2>2
       DEF Contract!transfer_balance_error, Contract!SubUnderflows, SubUnderflows,
           Contract!AddOverflows, AddOverflows
  <2>4. QED
    BY <1>2, <1>3, <1>5, <2>1, <2>3 DEF Ok
<1>8. QED
  BY <1>6, <1>7

\* ... and writes what CEP18 says it does.
LEMMA MoveAnswered ==
  ASSUME Standing, Answers, run.entry_point \in Moving
  PROVE  /\ From # To
         /\ Contract!transfer_balance_error(From, To, Amount) = Contract!Ok
         /\ Contract!transfer_balance(From, To, Amount)
<1>1. Todo = {} /\ ledger' = copy
  BY DEF Answers
<1>2. From # To
  BY <1>1 DEF Standing, Checked
<1>3. CASE Amount # 0
  <2>1. Moves /\ SenderWritten /\ RecipientWritten
    BY <1>1, <1>3 DEF Moves, SenderWritten, RecipientWritten
  <2>2. /\ ~SubUnderflows(ledger.balances[From], Amount)
        /\ ~AddOverflows(ledger.balances[To], Amount)
    BY <1>1, <2>1 DEF Standing, Done, BalancesComputed
  <2>3. ledger'.balances = [ledger.balances EXCEPT ![From] = Debited, ![To] = Credited]
    BY <1>1, <2>1 DEF Standing, Done, BalancesWritten
  <2>4. Contract!transfer_balance_error(From, To, Amount) = Contract!Ok
    BY <2>2 DEF Contract!transfer_balance_error, Contract!SubUnderflows, SubUnderflows,
                Contract!AddOverflows, AddOverflows
  <2>5. [ledger.balances EXCEPT ![From] = Debited, ![To] = Credited]
          = [ledger.balances EXCEPT ![From] = @ - Amount, ![To] = @ + Amount]
    BY <1>2 DEF Debited, Credited
  <2>6. Contract!transfer_balance(From, To, Amount)
    BY <1>2, <1>3, <2>3, <2>5 DEF Contract!transfer_balance
  <2>7. QED
    BY <1>2, <2>4, <2>6
<1>4. CASE Amount = 0
  <2>1. ~SenderWritten /\ ~RecipientWritten
    BY <1>4 DEF SenderWritten, RecipientWritten, Moves, Moving
  <2>2. ledger'.balances = ledger.balances
    BY <1>1, <2>1 DEF Standing, Done, BalancesWritten
  <2>3. QED
    BY <1>2, <1>4, <2>2 DEF Contract!transfer_balance, Contract!transfer_balance_error
<1>5. QED
  BY <1>3, <1>4

LEMMA TransferEnds ==
  ASSUME Standing, Answers \/ Refuses, run.entry_point = "transfer"
  PROVE  Contract!transfer(run.stack, Given("recipient", caller), Given("amount", 0))
<1> DEFINE recipient == Given("recipient", caller)
           amount    == Given("amount", 0)
<1>1. Own(run.entry_point) =
        {"recipient", "sender_is_not_recipient", "amount", "transfer_balance",
         "new_sender_balance", "new_recipient_balance", "write_sender_balance",
         "write_recipient_balance", "record_event"}
  BY OwnSteps
<1>2. From = caller /\ To = recipient
  BY <1>1, NoArgument DEF From, To
<1>3. caller = Contract!get_immediate_caller_address(run.stack)
  BY DEF caller
<1>4. "amount" \in Own(run.entry_point) \cap Arguments /\ "amount" \notin DOMAIN Optional
  BY <1>1, OptionalTable DEF Arguments
<1>5. CASE Refuses
  <2>1. \/ Head(run.steps) = "sender_is_not_recipient" /\ From = To /\ Fail("CannotTargetSelfUser")
        \/ Head(run.steps) \in {"new_sender_balance", "new_recipient_balance"}
    BY <1>1, <1>5, RefusedAt DEF Refuses
  <2>2. CASE From = To /\ Fail("CannotTargetSelfUser")
    <3>1. Contract!Revert("transfer", run.stack, "CannotTargetSelfUser")
      BY <2>2, Reverts DEF Standing, Ok
    <3>2. Contract!transfer_error(caller, recipient, amount) = "CannotTargetSelfUser"
      BY <1>2, <2>2 DEF Contract!transfer_error
    <3> HIDE DEF recipient, amount
    <3>3. Contract!transfer(run.stack, recipient, amount)
      BY <1>3, <3>1, <3>2 DEF Contract!transfer
    <3>4. QED
      BY <3>3 DEF recipient, amount
  <2>3. CASE Head(run.steps) \in {"new_sender_balance", "new_recipient_balance"}
    <3>1. /\ From # To /\ Contract!transfer_balance_error(From, To, Amount) # Ok
          /\ Fail(Contract!transfer_balance_error(From, To, Amount))
      BY <1>5, <2>3, MoveRefused DEF Moving
    <3>2. amount = Amount
      BY <1>4, <1>5, <2>3, HasArgument, EndRanks DEF Amount, Refuses
    <3>3. Contract!transfer_error(caller, recipient, amount)
             = Contract!transfer_balance_error(From, To, Amount)
      BY <1>2, <3>1, <3>2 DEF Contract!transfer_error
    <3>4. Contract!Revert("transfer", run.stack, Contract!transfer_balance_error(From, To, Amount))
      BY <3>1, Reverts DEF Standing
    <3> HIDE DEF recipient, amount
    <3>5. Contract!transfer(run.stack, recipient, amount)
      BY <1>3, <3>3, <3>4 DEF Contract!transfer
    <3>6. QED
      BY <3>5 DEF recipient, amount
  <2>4. QED
    BY <2>1, <2>2, <2>3
<1>6. CASE Answers
  <2>1. amount = Amount
    BY <1>4, <1>6, HasArgument DEF Amount, Answers
  <2>2. Contract!transfer_error(caller, recipient, amount) = Contract!Ok
    BY <1>2, <1>6, <2>1, MoveAnswered DEF Contract!transfer_error, Moving
  <2>3. Contract!transfer_balance(caller, recipient, amount)
    BY <1>2, <1>6, <2>1, MoveAnswered DEF Moving
  <2>4. UNCHANGED <<ledger.allowances, ledger.total_supply, ledger.security_badges,
                    ledger.initialized, ledger.events_mode, ledger.enable_mint_burn>>
    BY <1>6, AnswersRest DEF Granting, Approving, Minting
  <2>5. deploy' = [entry_point |-> run.entry_point, stack |-> run.stack, error |-> Contract!Ok,
                   event |-> Contract!record_event_dictionary(ledger.events_mode, EventOf)]
    BY <1>6, AnswersRest DEF Answers, Ok, Contract!Ok, Zero, Changing, WithAmount
  <2>6. EventOf = Contract!Transfer(caller, recipient, amount)
    BY <1>2, <2>1 DEF EventOf, Amount
  <2> HIDE DEF recipient, amount
  <2>7. Contract!transfer(run.stack, recipient, amount)
    BY <1>3, <2>2, <2>3, <2>4, <2>5, <2>6
       DEF Contract!transfer, Contract!Emit, Contract!Return, Contract!config
  <2>8. QED
    BY <2>7 DEF recipient, amount
<1>7. QED
  BY <1>5, <1>6

LEMMA TransferFromEnds ==
  ASSUME Standing, Answers \/ Refuses, run.entry_point = "transfer_from"
  PROVE  Contract!transfer_from(run.stack, Given("owner", caller), Given("recipient", caller),
                                Given("amount", 0))
<1> DEFINE owner     == Given("owner", caller)
           recipient == Given("recipient", caller)
           amount    == Given("amount", 0)
<1>1. Own(run.entry_point) =
          {"recipient", "owner", "sender_is_not_recipient", "amount", "return_if_zero",
           "new_allowance", "transfer_balance", "new_sender_balance",
           "new_recipient_balance", "write_sender_balance", "write_recipient_balance",
           "write_allowance", "record_event"}
  BY OwnSteps
<1>2. From = owner /\ Grant = <<owner, caller>>
  BY <1>1, NoArgument DEF From, Grant
<1>3. caller = Contract!get_immediate_caller_address(run.stack)
  BY DEF caller
<1>4. /\ "recipient" \in Own(run.entry_point) \cap Arguments /\ "recipient" \notin DOMAIN Optional
      /\ "amount" \in Own(run.entry_point) \cap Arguments /\ "amount" \notin DOMAIN Optional
  BY <1>1, OptionalTable DEF Arguments
<1>5. CASE Refuses
  <2>1. \/ /\ Head(run.steps) = "sender_is_not_recipient" /\ From = To
           /\ Fail("CannotTargetSelfUser")
        \/ /\ Head(run.steps) = "new_allowance"
           /\ SubUnderflows(ledger.allowances[Grant], Amount) /\ Fail("InsufficientAllowance")
        \/ Head(run.steps) \in {"new_sender_balance", "new_recipient_balance"}
    BY <1>1, <1>5, RefusedAt DEF Refuses
  <2>2. To = recipient
    BY <1>4, <1>5, <2>1, HasArgument, EndRanks DEF To, Refuses
  <2>3. CASE From = To /\ Fail("CannotTargetSelfUser")
    <3>1. Contract!Revert("transfer_from", run.stack, "CannotTargetSelfUser")
      BY <2>3, Reverts DEF Standing, Ok
    <3>2. Contract!transfer_from_error(caller, owner, recipient, amount) = "CannotTargetSelfUser"
      BY <1>2, <2>2, <2>3 DEF Contract!transfer_from_error
    <3> HIDE DEF owner, recipient, amount
    <3>3. Contract!transfer_from(run.stack, owner, recipient, amount)
      BY <1>3, <3>1, <3>2 DEF Contract!transfer_from
    <3>4. QED
      BY <3>3 DEF owner, recipient, amount
  <2>4. CASE /\ Head(run.steps) = "new_allowance"
             /\ SubUnderflows(ledger.allowances[Grant], Amount) /\ Fail("InsufficientAllowance")
    <3>1. amount = Amount
      BY <1>4, <1>5, <2>4, HasArgument, EndRanks DEF Amount, Refuses
    <3>2. "sender_is_not_recipient" \notin Todo /\ "return_if_zero" \notin Todo
      BY <1>5, <2>4, HeadTodo, MoveRanks DEF Standing, Refuses
    <3>3. From # To
      BY <3>2 DEF Standing, Checked, Moving
    <3>4. Amount # 0
      <4>1. "new_allowance" \in Todo
        BY <1>5, <2>4, HeadTodo DEF Standing, Refuses
      <4>2. ~Zero
        BY <4>1 DEF Standing, Done, Recorded
      <4>3. QED
        BY <3>2, <4>2 DEF Zero
    <3>5. Contract!Revert("transfer_from", run.stack, "InsufficientAllowance")
      BY <2>4, Reverts DEF Standing, Ok
    <3>6. Contract!transfer_from_error(caller, owner, recipient, amount) = "InsufficientAllowance"
      BY <1>2, <2>2, <2>4, <3>1, <3>3, <3>4
         DEF Contract!transfer_from_error, Contract!SubUnderflows, SubUnderflows
    <3> HIDE DEF owner, recipient, amount
    <3>7. Contract!transfer_from(run.stack, owner, recipient, amount)
      BY <1>3, <3>5, <3>6 DEF Contract!transfer_from
    <3>8. QED
      BY <3>7 DEF owner, recipient, amount
  <2>5. CASE Head(run.steps) \in {"new_sender_balance", "new_recipient_balance"}
    <3>1. /\ From # To /\ Amount # 0 /\ ~SubUnderflows(ledger.allowances[Grant], Amount)
          /\ Contract!transfer_balance_error(From, To, Amount) # Ok
          /\ Fail(Contract!transfer_balance_error(From, To, Amount))
      BY <1>5, <2>5, MoveRefused DEF Moving
    <3>2. amount = Amount
      BY <1>4, <1>5, <2>5, HasArgument, EndRanks DEF Amount, Refuses
    <3>3. Contract!transfer_from_error(caller, owner, recipient, amount)
             = Contract!transfer_balance_error(From, To, Amount)
      BY <1>2, <2>2, <3>1, <3>2
         DEF Contract!transfer_from_error, Contract!SubUnderflows, SubUnderflows
    <3>4. Contract!Revert("transfer_from", run.stack,
                          Contract!transfer_balance_error(From, To, Amount))
      BY <3>1, Reverts DEF Standing
    <3> HIDE DEF owner, recipient, amount
    <3>5. Contract!transfer_from(run.stack, owner, recipient, amount)
      BY <1>3, <3>3, <3>4 DEF Contract!transfer_from
    <3>6. QED
      BY <3>5 DEF owner, recipient, amount
  <2>6. QED
    BY <2>1, <2>3, <2>4, <2>5
<1>6. CASE Answers
  <2>1. Todo = {} /\ amount = Amount /\ To = recipient
    BY <1>4, <1>6, HasArgument DEF Amount, Answers, To
  <2>2. /\ From # To /\ Contract!transfer_balance_error(From, To, Amount) = Contract!Ok
        /\ Contract!transfer_balance(From, To, Amount)
    BY <1>6, MoveAnswered DEF Moving
  <2>3. UNCHANGED <<ledger.total_supply, ledger.security_badges,
                    ledger.initialized, ledger.events_mode, ledger.enable_mint_burn>>
    BY <1>6, AnswersRest DEF Minting
  <2>4. CASE Amount = 0
    <3>1. Zero
      BY <2>1, <2>4 DEF Zero
    <3>2. Contract!transfer_from_error(caller, owner, recipient, amount) = Contract!Ok
      BY <1>2, <2>1, <2>2, <2>4 DEF Contract!transfer_from_error
    <3>3. ledger'.allowances = ledger.allowances
      BY <1>6, <3>1, AnswersRest
    <3>4. ledger'.balances = ledger.balances
      BY <2>2, <2>4 DEF Contract!transfer_balance
    <3>5. deploy' = [entry_point |-> "transfer_from", stack |-> run.stack,
                     error |-> Contract!Ok, event |-> Contract!NoEvent]
      BY <1>6, <3>1, AnswersRest DEF Answers, Ok, Contract!Ok, Changing, WithAmount
    <3>6. amount = 0
      BY <2>1, <2>4
    <3> HIDE DEF owner, recipient, amount
    <3>7. Contract!transfer_from(run.stack, owner, recipient, amount)
      BY <1>3, <2>3, <3>2, <3>3, <3>4, <3>5, <3>6
         DEF Contract!transfer_from, Contract!Return, Contract!config, Contract!state
    <3>8. QED
      BY <3>7 DEF owner, recipient, amount
  <2>5. CASE Amount # 0
    <3>1. ~Zero
      BY <2>5 DEF Zero
    <3>2. ~SubUnderflows(ledger.allowances[Grant], Amount)
      BY <2>1, <3>1 DEF Standing, Done, AllowanceComputed, Granting
    <3>3. Contract!transfer_from_error(caller, owner, recipient, amount) = Contract!Ok
      BY <1>2, <2>1, <2>2, <2>5, <3>2
         DEF Contract!transfer_from_error, Contract!SubUnderflows, SubUnderflows
    <3>4. ledger'.allowances = [ledger.allowances EXCEPT ![<<owner, caller>>] =
                                   ledger.allowances[<<owner, caller>>] - amount]
      BY <1>2, <1>6, <2>1, <3>1, AnswersRest DEF Granting, NewAllowance
    <3>5. deploy' = [entry_point |-> "transfer_from", stack |-> run.stack,
                     error |-> Contract!Ok,
                     event |-> Contract!record_event_dictionary(ledger.events_mode, EventOf)]
      BY <1>6, <3>1, AnswersRest DEF Answers, Ok, Contract!Ok, Changing, WithAmount
    <3>6. EventOf = Contract!TransferFrom(caller, owner, recipient, amount)
      BY <1>2, <2>1 DEF EventOf, Amount
    <3>7. Contract!transfer_balance(owner, recipient, amount) /\ amount # 0
      BY <1>2, <2>1, <2>2, <2>5
    <3> HIDE DEF owner, recipient, amount
    <3>8. Contract!transfer_from(run.stack, owner, recipient, amount)
      BY <1>3, <2>3, <3>3, <3>4, <3>5, <3>6, <3>7
         DEF Contract!transfer_from, Contract!Emit, Contract!Return, Contract!config,
             Contract!write_allowance_to
    <3>9. QED
      BY <3>8 DEF owner, recipient, amount
  <2>6. QED
    BY <2>4, <2>5
<1>7. QED
  BY <1>5, <1>6

(***************************************************************************)
(* Mint, burn and badges                                                   *)
(***************************************************************************)
LEMMA MintRanks ==
    /\ ~(Rank("sec_check") <= Rank("enabled"))
    /\ ~(Rank("owner_is_caller") <= Rank("enabled"))
    /\ \A x \in {"new_sender_balance", "new_recipient_balance", "new_supply"} :
          /\ ~(Rank(x) <= Rank("enabled")) /\ ~(Rank(x) <= Rank("sec_check"))
          /\ ~(Rank(x) <= Rank("owner_is_caller"))
    /\ ~(Rank("new_supply") <= Rank("new_sender_balance"))
    /\ ~(Rank("new_supply") <= Rank("new_recipient_balance"))
BY RankTable

LEMMA NumbersTyped ==
  ASSUME Standing, "amount" \in DOMAIN run.args
  PROVE  /\ Amount \in Nat /\ ledger.total_supply \in Nat /\ ledger.total_supply <= MaxU256
         /\ MaxU256 \in Nat
         /\ run.entry_point = "mint" =>
               (NewSupply \in U256 <=> ~AddOverflows(ledger.total_supply, Amount))
         /\ run.entry_point = "burn" =>
               (NewSupply \in U256 <=> ~SubUnderflows(ledger.total_supply, Amount))
<1>1. Amount \in U256 /\ ledger.total_supply \in U256 /\ MaxU256 \in Nat
  BY CasperAssumption DEF Standing, Args, ArgsTyped, StateTyped, Amount
<1>2. /\ Amount \in Nat /\ ledger.total_supply \in Nat /\ ledger.total_supply <= MaxU256
  BY <1>1 DEF U256
<1>3. QED
  BY <1>1, <1>2 DEF NewSupply, U256, AddOverflows, SubUnderflows

LEMMA MintEnds ==
  ASSUME Standing, Answers \/ Refuses, run.entry_point = "mint"
  PROVE  Contract!mint(run.stack, Given("owner", caller), Given("amount", 0))
<1> DEFINE owner  == Given("owner", caller)
           amount == Given("amount", 0)
<1>1. Own(run.entry_point) = {"enabled", "sec_check", "owner", "amount",
        "new_recipient_balance", "new_supply", "write_recipient_balance", "write_supply",
        "record_event"}
  BY OwnSteps
<1>2. From = owner /\ To = owner
  BY <1>1, NoArgument DEF From, To
<1>3. caller = Contract!get_immediate_caller_address(run.stack)
  BY DEF caller
<1>4. "amount" \in Own(run.entry_point) \cap Arguments /\ "amount" \notin DOMAIN Optional
  BY <1>1, OptionalTable DEF Arguments
<1>5. sec_check_list = {"Admin", "Minter"}
  BY DEF sec_check_list
<1>6. CASE Refuses
  <2>1. run.steps # <<>> /\ \A y \in Todo : Rank(Head(run.steps)) <= Rank(y)
    BY <1>6, HeadTodo DEF Standing, Refuses
  <2>2. \E error : /\ error # Ok /\ Fail(error)
                   /\ Contract!mint_error(caller, owner, amount) = error
    <3>1. CASE Head(run.steps) = "enabled"
      <4>1. Fail("MintBurnDisabled") /\ ledger.enable_mint_burn = 0
        BY <1>6, <3>1 DEF Refuses
      <4>2. QED
        BY <4>1 DEF Contract!mint_error, Ok
    <3>2. CASE Head(run.steps) = "sec_check"
      <4>1. /\ Fail("InsufficientRights")
            /\ ledger.security_badges[caller] \notin {"Admin", "Minter"}
        BY <1>5, <1>6, <3>2 DEF Refuses
      <4>2. ledger.enable_mint_burn # 0
        BY <2>1, <3>2, MintRanks DEF Standing, Checked, Guarded, Minting
      <4>3. QED
        BY <4>1, <4>2 DEF Contract!mint_error, Contract!sec_check, Ok
    <3>3. CASE Head(run.steps) \in {"new_recipient_balance", "new_supply"}
      <4>1. /\ ledger.enable_mint_burn # 0
            /\ ledger.security_badges[caller] \in {"Admin", "Minter"}
        BY <1>5, <2>1, <3>3, MintRanks DEF Standing, Checked, Guarded, Minting
      <4>2. "amount" \in DOMAIN run.args /\ amount = Amount
        BY <1>4, <2>1, <3>3, HasArgument, EndRanks DEF Amount
      <4>3. CASE Head(run.steps) = "new_recipient_balance"
        <5>1. Fail("Overflow") /\ AddOverflows(ledger.balances[owner], amount)
          BY <1>2, <1>6, <4>2, <4>3 DEF Refuses
        <5>2. QED
          BY <4>1, <5>1 DEF Contract!mint_error, Contract!sec_check, Ok,
                            Contract!AddOverflows, AddOverflows
      <4>4. CASE Head(run.steps) = "new_supply"
        <5>1. ~AddOverflows(ledger.balances[owner], amount)
          BY <1>2, <2>1, <4>2, <4>4, MintRanks DEF Standing, Done, BalancesComputed
        <5>2. Fail("Overflow") /\ AddOverflows(ledger.total_supply, amount)
          BY <1>6, <4>2, <4>4, NumbersTyped DEF Refuses
        <5>3. QED
          BY <4>1, <5>1, <5>2 DEF Contract!mint_error, Contract!sec_check, Ok,
                            Contract!AddOverflows, AddOverflows
      <4>5. QED
        BY <3>3, <4>3, <4>4
    <3>4. QED
      BY <1>1, <1>6, <3>1, <3>2, <3>3, RefusedAt DEF Refuses
  <2>3. Contract!Revert("mint", run.stack, Contract!mint_error(caller, owner, amount))
    BY <2>2, Reverts DEF Standing
  <2> HIDE DEF owner, amount
  <2>4. Contract!mint(run.stack, owner, amount)
    BY <1>3, <2>3 DEF Contract!mint
  <2>5. QED
    BY <2>4 DEF owner, amount
<1>7. CASE Answers
  <2>1. Todo = {} /\ ledger' = copy
    BY <1>7 DEF Answers
  <2>2. "amount" \in DOMAIN run.args /\ amount = Amount
    BY <1>4, <2>1, HasArgument DEF Amount
  <2>3. /\ ledger.enable_mint_burn # 0
        /\ ledger.security_badges[caller] \in {"Admin", "Minter"}
    BY <1>5, <2>1 DEF Standing, Checked, Guarded, Minting
  <2>4. ~AddOverflows(ledger.balances[owner], amount)
    BY <1>2, <2>1, <2>2 DEF Standing, Done, BalancesComputed
  <2>5. ~AddOverflows(ledger.total_supply, amount)
    BY <2>1, <2>2, NumbersTyped DEF Standing, Done, SupplyComputed, Minting
  <2>6. Contract!mint_error(caller, owner, amount) = Contract!Ok
    BY <2>3, <2>4, <2>5
       DEF Contract!mint_error, Contract!sec_check, Contract!AddOverflows, AddOverflows
  <2>7. ledger'.balances = [ledger.balances EXCEPT ![owner] = @ + amount]
    <3>1. ~SenderWritten /\ RecipientWritten
      BY <2>1 DEF SenderWritten, RecipientWritten, Moves, Moving
    <3>2. ledger'.balances = [ledger.balances EXCEPT ![To] = Credited]
      BY <2>1, <3>1 DEF Standing, Done, BalancesWritten
    <3>3. QED
      BY <1>2, <2>2, <3>2 DEF Credited
  <2>8. ledger'.total_supply = ledger.total_supply + amount
    BY <2>1, <2>2 DEF Standing, Done, SupplyWritten, Minting, NewSupply
  <2>9. UNCHANGED <<ledger.allowances, ledger.security_badges,
                    ledger.initialized, ledger.events_mode, ledger.enable_mint_burn>>
    BY <1>7, AnswersRest DEF Granting, Approving
  <2>10. deploy' = [entry_point |-> "mint", stack |-> run.stack, error |-> Contract!Ok,
                    event |-> Contract!record_event_dictionary(ledger.events_mode, EventOf)]
    BY <1>7, AnswersRest DEF Answers, Ok, Contract!Ok, Zero, Changing, WithAmount
  <2>11. EventOf = Contract!Mint(owner, amount)
    BY <1>2, <2>2 DEF EventOf, Amount
  <2> HIDE DEF owner, amount
  <2>12. Contract!mint(run.stack, owner, amount)
    BY <1>3, <2>6, <2>7, <2>8, <2>9, <2>10, <2>11
       DEF Contract!mint, Contract!Emit, Contract!Return, Contract!config
  <2>13. QED
    BY <2>12 DEF owner, amount
<1>8. QED
  BY <1>6, <1>7

LEMMA BurnEnds ==
  ASSUME Standing, Answers \/ Refuses, run.entry_point = "burn"
  PROVE  Contract!burn(run.stack, Given("owner", caller), Given("amount", 0))
<1> DEFINE owner  == Given("owner", caller)
           amount == Given("amount", 0)
<1>1. Own(run.entry_point) = {"enabled", "owner", "owner_is_caller", "amount",
        "new_sender_balance", "new_supply", "write_sender_balance", "write_supply",
        "record_event"}
  BY OwnSteps
<1>2. From = owner
  BY DEF From
<1>3. caller = Contract!get_immediate_caller_address(run.stack)
  BY DEF caller
<1>4. "amount" \in Own(run.entry_point) \cap Arguments /\ "amount" \notin DOMAIN Optional
  BY <1>1, OptionalTable DEF Arguments
<1>6. CASE Refuses
  <2>1. run.steps # <<>> /\ \A y \in Todo : Rank(Head(run.steps)) <= Rank(y)
    BY <1>6, HeadTodo DEF Standing, Refuses
  <2>2. \E error : /\ error # Ok /\ Fail(error)
                   /\ Contract!burn_error(caller, owner, amount) = error
    <3>1. CASE Head(run.steps) = "enabled"
      <4>1. Fail("MintBurnDisabled") /\ ledger.enable_mint_burn = 0
        BY <1>6, <3>1 DEF Refuses
      <4>2. QED
        BY <4>1 DEF Contract!burn_error, Ok
    <3>2. CASE Head(run.steps) = "owner_is_caller"
      <4>1. Fail("InvalidBurnTarget") /\ owner # caller
        BY <1>2, <1>6, <3>2 DEF Refuses
      <4>2. ledger.enable_mint_burn # 0
        BY <2>1, <3>2, MintRanks DEF Standing, Checked, Guarded, Minting
      <4>3. QED
        BY <4>1, <4>2 DEF Contract!burn_error, Ok
    <3>3. CASE Head(run.steps) \in {"new_sender_balance", "new_supply"}
      <4>1. ledger.enable_mint_burn # 0 /\ owner = caller
        BY <1>2, <2>1, <3>3, MintRanks DEF Standing, Checked, Guarded, Minting
      <4>2. "amount" \in DOMAIN run.args /\ amount = Amount
        BY <1>4, <2>1, <3>3, HasArgument, EndRanks DEF Amount
      <4>3. CASE Head(run.steps) = "new_sender_balance"
        <5>1. Fail("InsufficientBalance") /\ SubUnderflows(ledger.balances[owner], amount)
          BY <1>2, <1>6, <4>2, <4>3 DEF Refuses
        <5>2. QED
          BY <4>1, <5>1 DEF Contract!burn_error, Ok, Contract!SubUnderflows, SubUnderflows
      <4>4. CASE Head(run.steps) = "new_supply"
        <5>1. ~SubUnderflows(ledger.balances[owner], amount)
          BY <1>2, <2>1, <4>2, <4>4, MintRanks DEF Standing, Done, BalancesComputed
        <5>2. Fail("Overflow") /\ SubUnderflows(ledger.total_supply, amount)
          BY <1>6, <4>2, <4>4, NumbersTyped DEF Refuses
        <5>3. QED
          BY <4>1, <5>1, <5>2 DEF Contract!burn_error, Ok, Contract!SubUnderflows, SubUnderflows
      <4>5. QED
        BY <3>3, <4>3, <4>4
    <3>4. QED
      BY <1>1, <1>6, <3>1, <3>2, <3>3, RefusedAt DEF Refuses
  <2>3. Contract!Revert("burn", run.stack, Contract!burn_error(caller, owner, amount))
    BY <2>2, Reverts DEF Standing
  <2> HIDE DEF owner, amount
  <2>4. Contract!burn(run.stack, owner, amount)
    BY <1>3, <2>3 DEF Contract!burn
  <2>5. QED
    BY <2>4 DEF owner, amount
<1>7. CASE Answers
  <2>1. Todo = {} /\ ledger' = copy
    BY <1>7 DEF Answers
  <2>2. "amount" \in DOMAIN run.args /\ amount = Amount
    BY <1>4, <2>1, HasArgument DEF Amount
  <2>3. ledger.enable_mint_burn # 0 /\ owner = caller
    BY <1>2, <2>1 DEF Standing, Checked, Guarded, Minting
  <2>4. ~SubUnderflows(ledger.balances[owner], amount)
    BY <1>2, <2>1, <2>2 DEF Standing, Done, BalancesComputed
  <2>5. ~SubUnderflows(ledger.total_supply, amount)
    BY <2>1, <2>2, NumbersTyped DEF Standing, Done, SupplyComputed, Minting
  <2>6. Contract!burn_error(caller, owner, amount) = Contract!Ok
    BY <2>3, <2>4, <2>5 DEF Contract!burn_error, Contract!SubUnderflows, SubUnderflows
  <2>7. ledger'.balances = [ledger.balances EXCEPT ![owner] = @ - amount]
    <3>1. SenderWritten /\ ~RecipientWritten
      BY <2>1 DEF SenderWritten, RecipientWritten, Moves, Moving
    <3>2. ledger'.balances = [ledger.balances EXCEPT ![From] = Debited]
      BY <2>1, <3>1 DEF Standing, Done, BalancesWritten
    <3>3. QED
      BY <1>2, <2>2, <3>2 DEF Debited
  <2>8. ledger'.total_supply = ledger.total_supply - amount
    BY <2>1, <2>2 DEF Standing, Done, SupplyWritten, Minting, NewSupply
  <2>9. UNCHANGED <<ledger.allowances, ledger.security_badges,
                    ledger.initialized, ledger.events_mode, ledger.enable_mint_burn>>
    BY <1>7, AnswersRest DEF Granting, Approving
  <2>10. deploy' = [entry_point |-> "burn", stack |-> run.stack, error |-> Contract!Ok,
                    event |-> Contract!record_event_dictionary(ledger.events_mode, EventOf)]
    BY <1>7, AnswersRest DEF Answers, Ok, Contract!Ok, Zero, Changing, WithAmount
  <2>11. EventOf = Contract!Burn(owner, amount)
    BY <1>2, <2>2 DEF EventOf, Amount
  <2> HIDE DEF owner, amount
  <2>12. Contract!burn(run.stack, owner, amount)
    BY <1>3, <2>6, <2>7, <2>8, <2>9, <2>10, <2>11
       DEF Contract!burn, Contract!Emit, Contract!Return, Contract!config
  <2>13. QED
    BY <2>12 DEF owner, amount
<1>8. QED
  BY <1>6, <1>7

LEMMA ChangeSecurityEnds ==
  ASSUME Standing, Answers \/ Refuses, run.entry_point = "change_security"
  PROVE  Contract!change_security(run.stack, List("admin_list"), List("minter_list"),
                                  List("none_list"))
<1>1. Own(run.entry_point) = {"enabled", "sec_check", "admin_list", "minter_list", "none_list",
                              "change_sec_badge", "record_event"}
  BY OwnSteps
<1>2. caller = Contract!get_immediate_caller_address(run.stack)
  BY DEF caller
<1>3. sec_check_list = {"Admin"}
  BY DEF sec_check_list
<1>4. CASE Refuses
  <2>1. run.steps # <<>> /\ \A y \in Todo : Rank(Head(run.steps)) <= Rank(y)
    BY <1>4, HeadTodo DEF Standing, Refuses
  <2>2. \E error : error # Ok /\ Fail(error) /\ Contract!change_security_error(caller) = error
    <3>1. CASE Head(run.steps) = "enabled"
      <4>1. Fail("MintBurnDisabled") /\ ledger.enable_mint_burn = 0
        BY <1>4, <3>1 DEF Refuses
      <4>2. QED
        BY <4>1 DEF Contract!change_security_error, Ok
    <3>2. CASE Head(run.steps) = "sec_check"
      <4>1. /\ Fail("InsufficientRights") /\ ledger.security_badges[caller] \notin {"Admin"}
        BY <1>3, <1>4, <3>2 DEF Refuses
      <4>2. ledger.enable_mint_burn # 0
        BY <2>1, <3>2, MintRanks DEF Standing, Checked, Guarded
      <4>3. QED
        BY <4>1, <4>2 DEF Contract!change_security_error, Contract!sec_check, Ok
    <3>3. QED
      BY <1>1, <1>4, <3>1, <3>2, RefusedAt DEF Refuses
  <2>3. Contract!Revert("change_security", run.stack, Contract!change_security_error(caller))
    BY <2>2, Reverts DEF Standing
  <2>4. QED
    BY <1>2, <2>3 DEF Contract!change_security
<1>5. CASE Answers
  <2>1. Todo = {} /\ ledger' = copy
    BY <1>5 DEF Answers
  <2>2. /\ ledger.enable_mint_burn # 0 /\ ledger.security_badges[caller] \in {"Admin"}
    BY <1>3, <2>1 DEF Standing, Checked, Guarded
  <2>3. Contract!change_security_error(caller) = Contract!Ok
    BY <2>2 DEF Contract!change_security_error, Contract!sec_check
  <2>4. Contract!change_sec_badge(BadgeMap)
    <3>1. ledger'.security_badges = Over(BadgeMap, ledger.security_badges)
      BY <2>1 DEF Standing, Done, BadgesWritten
    <3>2. DOMAIN BadgeMap \subseteq Key
      <4>1. run.entry_point \notin DOMAIN Calls
        BY CallTable
      <4>2. QED
        BY <4>1, PartiesKeys, BadgeMapTyped DEF Standing, BadgeMap
    <3>3. DOMAIN ledger.security_badges = Key
      BY DEF Standing, StateTyped
    <3>4. Over(BadgeMap, ledger.security_badges) =
            [k \in Key |-> IF k \in DOMAIN BadgeMap THEN BadgeMap[k] ELSE ledger.security_badges[k]]
      BY <3>2, <3>3 DEF Over
    <3>5. QED
      BY <3>1, <3>4 DEF Contract!change_sec_badge, Contract!Key, Key
  <2>5. UNCHANGED <<ledger.balances, ledger.allowances, ledger.total_supply,
                    ledger.initialized, ledger.events_mode, ledger.enable_mint_burn>>
    BY <1>5, AnswersRest DEF Granting, Approving, Moving, Minting
  <2>6. deploy' = [entry_point |-> "change_security", stack |-> run.stack,
                   error |-> Contract!Ok,
                   event |-> Contract!record_event_dictionary(ledger.events_mode, EventOf)]
    BY <1>5, AnswersRest DEF Answers, Ok, Contract!Ok, Zero, Changing
  <2>7. EventOf = Contract!ChangeSecurity(caller, BadgeMap)
    BY DEF EventOf, BadgeMap
  <2>8. QED
    BY <1>2, <2>3, <2>4, <2>5, <2>6, <2>7
       DEF Contract!change_security, Contract!Emit, Contract!Return, Contract!config, BadgeMap
<1>6. QED
  BY <1>4, <1>5

(***************************************************************************)
(* Initialisation                                                          *)
(***************************************************************************)
\* init, called by anyone after the installation, is refused at its first step.
LEMMA InitEnds ==
  ASSUME Standing, Answers \/ Refuses, run.deployed = "init"
  PROVE  Contract!init(run.stack)
<1>1. run.entry_point = "init" /\ ledger.initialized /\ "not_initialized" \in Todo
  BY CallTable DEF Standing, Control, Config
<1>2. Refuses
  BY <1>1 DEF Answers
<1>3. Head(run.steps) = "not_initialized"
  BY <1>1, <1>2, InitSteps DEF Standing, Refuses
<1>4. Fail("AlreadyInitialized")
  BY <1>2, <1>3 DEF Refuses
<1>5. Contract!Revert("init", run.stack, "AlreadyInitialized")
  BY <1>1, <1>4, Reverts DEF Standing, Ok
<1>6. QED
  BY <1>1, <1>5 DEF Contract!init

\* The one thing an installation finds out on the way is that its events_mode is none.
LEMMA InstallationRefused ==
  ASSUME StagesInv, Next, Ends, ~Commit, run.deployed = "call", deploy'.error # "OutOfGas",
         ~(AtArgument /\ deploy'.error # Ok)
  PROVE  /\ run.stack = <<Session(Installer), StoredContract(Token)>> /\ Passed
         /\ ~ledger.initialized /\ copy.events_mode \notin EventsMode
         /\ Fail("InvalidEventsMode")
<1>1. run # Idle /\ run' = Idle
  BY DEF Ends
<1>2. /\ Control /\ Config /\ ConfigInv /\ Suffix /\ Install
  BY <1>1 DEF StagesInv, ChecksInv, ExecutionInv, ControlInv, ConfigInv, SuffixInv, InstallInv
<1>3. deploy'.error # Ok /\ run.steps # <<>>
  BY <1>1, <1>2, EndError, EndsByFail
<1>4. Head(run.steps) \notin Arguments
  BY <1>3, ArgumentNames DEF AtArgument
<1>5. ~record_event_dictionary
  BY <1>1, <1>2, RecordNeverFails
<1>6. Checks \/ Computes
  BY <1>1, <1>2, <1>4, <1>5, FailsAt
<1>7. Head(run.steps) \in Own(run.entry_point) /\ run.entry_point \in {"call", "init"}
  BY <1>2, <1>3, InstallEntry, HeadTodo
<1>8. Head(run.steps) \in CheckSteps \cup {"new_allowance", "new_sender_balance",
                            "new_recipient_balance", "new_supply", "ret"}
  BY <1>6 DEF Checks, Check, At, sec_check, init_events, CheckSteps, Computes, new_allowance,
              new_sender_balance, new_recipient_balance, new_total_supply, ret
<1>9. run.entry_point = "init" /\ Head(run.steps) \in {"not_initialized", "init_events"}
  BY <1>7, <1>8, OwnSteps DEF CheckSteps
<1>10. Initialising /\ ~ledger.initialized
  BY <1>2, <1>9 DEF Install, Control
<1>11. ~Proceed
  BY <1>1, <1>2, <1>3, Proceeds
<1>12. Checks
  BY <1>6, <1>9 DEF Computes, At, new_allowance, new_sender_balance, new_recipient_balance,
                    new_total_supply, ret
<1>13. Head(run.steps) # "not_initialized"
  <2>1. SUFFICES ASSUME Head(run.steps) = "not_initialized" PROVE FALSE
    OBVIOUS
  <2>2. "new_dictionaries" \in Todo
    <3>1. "new_dictionaries" \in Elements(Program["init"])
      BY ProgramExact, OwnSteps DEF EntryPoint
    <3>2. "not_initialized" \in Todo
      BY <1>2, <1>3, <2>1, HeadTodo
    <3>3. QED
      BY <1>2, <1>9, <3>1, <3>2, InitRanks DEF Suffix
  <2>3. ~copy.initialized
    BY <1>10, <2>2 DEF Initialising
  <2>4. QED
    BY <1>11, <1>12, <2>1, <2>3 DEF Checks, Check, At, sec_check, init_events
<1>14. Fail("InvalidEventsMode") /\ copy.events_mode \notin EventsMode
  BY <1>9, <1>11, <1>12, <1>13 DEF Checks, Check, At, sec_check, init_events
<1>15. QED
  BY <1>10, <1>14 DEF Initialising

LEMMA InstallationEnds ==
  ASSUME StagesInv, Next, Ends, run.deployed = "call", deploy'.error # "OutOfGas",
         ~(AtArgument /\ deploy'.error # Ok)
  PROVE  Contract!install_contract(Installer, Outer("total_supply", 0),
             Outer("events_mode", 0), Outer("enable_mint_burn", 0),
             Outer("admin_list", {}), Outer("minter_list", {}))
<1> DEFINE stack == <<Contract!Session(Installer), Contract!StoredContract(Token)>>
<1>1. stack = <<Session(Installer), StoredContract(Token)>>
  BY DEF Contract!Session, Contract!StoredContract, Session, StoredContract
<1>2. Contract!get_caller(stack) = Installer
  BY DEF Contract!get_caller, Contract!Session
<1>3. CASE Commit
  <2>1. /\ ~ledger.initialized /\ run.stack = stack /\ Passed
        /\ copy.initialized = TRUE /\ copy.allowances = ledger.allowances
        /\ copy.balances = [ledger.balances EXCEPT ![Installer] = copy.total_supply]
        /\ copy.security_badges =
              Contract!init_badges(Installer, List("admin_list"), List("minter_list"))
        /\ copy.events_mode \in EventsMode
        /\ run.event = Contract!record_event_dictionary(copy.events_mode,
                           Contract!Mint(Installer, copy.total_supply))
    BY <1>1, <1>3, InstallationCommits
  <2>2. /\ ledger' = copy
        /\ deploy' = [entry_point |-> "call", stack |-> stack, error |-> Contract!Ok,
                      event |-> run.event]
    BY <1>3, <2>1 DEF Commit, Answer, Ok, Contract!Ok
  <2>3. Contract!init_events_error(copy.events_mode) = Contract!Ok
    BY <2>1 DEF Contract!init_events_error, EventsMode
  <2> HIDE DEF stack
  <2>4. QED
    BY <1>2, <2>1, <2>2, <2>3 DEF Contract!install_contract, Contract!Return, Passed, stack
<1>4. CASE ~Commit
  <2>1. /\ run.stack = stack /\ ~ledger.initialized /\ copy.events_mode \notin EventsMode
        /\ Fail("InvalidEventsMode") /\ Passed
    BY <1>1, <1>4, InstallationRefused
  <2>2. Contract!init_events_error(copy.events_mode) = "InvalidEventsMode"
    BY <2>1 DEF Contract!init_events_error, EventsMode
  <2>3. Contract!Revert("call", stack, "InvalidEventsMode")
    BY <2>1 DEF Fail, Answer, Contract!Revert, Contract!Ok, Ok, Contract!state, Contract!config
  <2> HIDE DEF stack
  <2>4. QED
    BY <2>1, <2>2, <2>3 DEF Contract!install_contract, Passed, stack
<1>5. QED
  BY <1>3, <1>4

-----------------------------------------------------------------------------
(***************************************************************************)
(* Every deploy is one step of CEP18                                       *)
(***************************************************************************)
\* A deploy that ends as an entry point that may change something is that entry point's action.
LEMMA EndsAsCalled ==
  ASSUME StagesInv, Next, Ends, deploy'.error # "OutOfGas", run.entry_point \notin ReadOnly,
         ~(AtArgument /\ deploy'.error # Ok)
  PROVE  AsCalled
<1>1. CASE run.deployed = "call"
  <2>1. Contract!install_contract(Installer, Outer("total_supply", 0),
            Outer("events_mode", 0), Outer("enable_mint_burn", 0),
            Outer("admin_list", {}), Outer("minter_list", {}))
    BY <1>1, InstallationEnds
  <2>2. QED
    BY <1>1, <2>1, CalledAs
<1>2. CASE run.deployed # "call"
  <2>1. Standing /\ (Answers \/ Refuses)
    BY <1>2, Ending
  <2>2. CASE run.entry_point \in Approving
    BY <2>1, <2>2, ApprovingEnds, CalledAs DEF Approving
  <2>3. CASE run.entry_point = "transfer"
    BY <2>1, <2>3, TransferEnds, CalledAs
  <2>4. CASE run.entry_point = "transfer_from"
    BY <2>1, <2>4, TransferFromEnds, CalledAs
  <2>5. CASE run.entry_point = "mint"
    BY <2>1, <2>5, MintEnds, CalledAs
  <2>6. CASE run.entry_point = "burn"
    BY <2>1, <2>6, BurnEnds, CalledAs
  <2>7. CASE run.entry_point = "change_security"
    BY <2>1, <2>7, ChangeSecurityEnds, CalledAs
  <2>8. CASE run.entry_point = "init"
    <3>1. run.deployed = "init"
      BY <1>2, <2>1, <2>8, CallTable DEF Standing, Control
    <3>2. QED
      BY <2>1, <3>1, InitEnds, CalledAs
  <2>9. CASE run.entry_point \in DOMAIN Calls
    <3>1. "call_contract" \in Todo
      BY <2>1, <2>9 DEF Standing, Control
    <3>2. Refuses
      BY <2>1, <3>1 DEF Answers
    <3>3. Head(run.steps) \in Own(run.entry_point)
      BY <2>1, <3>2, RefusedAt
    <3>4. QED
      BY <2>9, <3>2, <3>3, CallTable, OwnSteps DEF Refuses
  <2>10. run.entry_point \in EntryPoint
    BY <2>1 DEF Standing, Control
  <2>11. QED
    BY <2>2, <2>3, <2>4, <2>5, <2>6, <2>7, <2>8, <2>9, <2>10, CallTable
       DEF EntryPoint, ReadOnly, Approving
<1>3. QED
  BY <1>1, <1>2

\* Any other step leaves the token as it was.
LEMMA OthersLeave ==
  ASSUME StagesInv, Next,
         ~(Ends /\ deploy'.error # "OutOfGas" /\ run.entry_point \notin ReadOnly
             /\ ~(AtArgument /\ deploy'.error # Ok))
  PROVE  UNCHANGED Contract!state
<1>1. CASE ~Commit
  <2>1. ledger' = ledger
    BY <1>1, LedgerStays DEF StagesInv, ChecksInv, ExecutionInv
  <2>2. QED
    BY <2>1 DEF Contract!state, Contract!config
<1>2. CASE Commit
  <2>1. Ends /\ run.steps = <<>>
    BY <1>2 DEF Commit, Ends
  <2>2. deploy'.error = Ok /\ deploy'.error # "OutOfGas"
    BY <1>2 DEF Commit, Answer, Ok
  <2>3. run.entry_point \in ReadOnly
    BY <2>1, <2>2
  <2>4. run.deployed # "call"
    BY <1>2, <2>3, CallTable
       DEF Commit, StagesInv, ChecksInv, ExecutionInv, ControlInv, Control, ReadOnly
  <2>5. Standing /\ (Answers \/ Refuses)
    BY <2>1, <2>2, <2>4, Ending
  <2>6. Answers
    BY <2>1, <2>5 DEF Refuses
  <2>7. /\ run.entry_point \notin Granting \cup Moving \cup Minting
        /\ run.entry_point # "change_security"
    BY <2>3 DEF ReadOnly, Granting, Approving, Moving, Minting
  <2>8. QED
    BY <2>5, <2>6, <2>7, AnswersRest DEF Contract!state, Contract!config
<1>3. QED
  BY <1>1, <1>2

\* Entry points are atomic: from the committed state every deploy looks like the one step of
\* CEP18 it called, for every set of accounts, packages and arguments, and one that only reads,
\* runs out of gas or is refused an argument leaves the token as it was.
THEOREM ExecutionImplementsCEP18 == Spec => ImplementsCEP18
<1>1. Init => Contract!Init
  BY DEF Init, Contract!Init, Contract!Key, Key, Contract!Absent, Contract!NoEvent, Ok, Contract!Ok
<1>2. StagesInv /\ [Next]_vars =>
        [IF Ends /\ deploy'.error # "OutOfGas" /\ run.entry_point \notin ReadOnly
              /\ ~(AtArgument /\ deploy'.error # Ok)
         THEN AsCalled
         ELSE UNCHANGED Contract!state]_vars
  BY EndsAsCalled, OthersLeave
<1>3. QED
  BY <1>1, <1>2, StagesInvariant, PTL DEF Spec, ImplementsCEP18

====
