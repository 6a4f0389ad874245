# TLA+ development for the CEP-18 token

This directory models the CEP-18 fungible token contract for the Casper network (`src/cep18`)
in TLA+, checks it with TLC on small instances and proves its central properties with TLAPS
for every instance.

## The system

| Part | Source | State it keeps | Operations |
| --- | --- | --- | --- |
| Ledger | `cep18/src/main.rs`, `balances.rs`, `allowances.rs` | dictionaries `balances`, `allowances` | `transfer`, `transfer_from`, `approve`, `increase_allowance`, `decrease_allowance` |
| Mint and burn | `main.rs` | named key `total_supply`, modality `enable_mint_burn` | `mint`, `burn` |
| Security badges | `main.rs`, `utils.rs` | dictionary `security_badges` | `change_security`, `sec_check` |
| Initialisation | `main.rs`, `events.rs`, `modalities.rs` | all of the above, `events_mode` | `install_contract`, `init` |
| Events | `events.rs` | the CES event dictionary | `record_event_dictionary` |
| Caller identification | `utils.rs` | none (the platform's call stack) | `get_immediate_caller_address` |
| Installer and upgrade | `main.rs` (`call`, `upgrade`) | named keys of the account, package versions | `install_contract`, `upgrade` |
| Reads and arguments | `main.rs`, `utils.rs` | none | `name` ... `allowance`, `get_named_arg_*` |
| Entry point table | `entry_points.rs` | none | declarations: everything is public |
| Test contract | `cep18-test-contract` | named key `result` | calls the token from a contract |
| JavaScript client | `client-js/src` | listeners, parser, contract hash | deploys, queries, event stream |
| Tests, CI, benchmarks | `tests`, `ci`, `cost-benchmarking` | none | not part of the program |

A deploy is session code of one account; it calls the token directly, through stored session
code, or through other contracts. The token never calls anyone. It reads the signer only in
`init`; everywhere else the caller is the frame just below its own in the call stack. A revert
anywhere undoes the whole deploy, and deploys run one after the other. What is hard is
therefore not concurrency inside the contract but long sequences of legal calls: a supply
stored apart from the balances it sums, allowances spent by third parties through chains of
contracts, badge lists that overlap, arithmetic at the end of a 256-bit range, and an
installation made of many steps. Within a deploy it is the order of host calls: an argument that
is missing, a check that fails or gas that runs out may end it anywhere, in the token or in a
contract that called it. In the client it is asynchronous set-up, state that is stale after an
upgrade, and listeners that change the list they are called from.

What makes each part correct:

- ledger: tokens are moved, never made; they leave a key only with its consent;
- mint and burn: the supply equals the sum of the balances and changes only by right;
- badges: changed by another key's Admin, never by a call to the point where no Admin is left
  (the documentation warns that this can happen: see the violations);
- events: an observer of the events knows the balances, the allowances and the supply;
- installer: a second deploy of the same name upgrades the contract and keeps its state;
- a deploy: it is one step of the contract or none, and who calls passes what is read;
- event stream: the newest set-up delivers, and what it delivers reaches every listener.

## The modules

| Module | Models |
| --- | --- |
| `Casper` | keys, U256 arithmetic, the call stack: the platform, as the contract uses it |
| `TokenUnits` | the sum of the balances, as the number of tokens |
| `CEP18` | the contract: state, installation, every entry point that writes, its properties |
| `EventReplay` | what an observer of the events can reconstruct |
| `TokenLedger` | the abstract specification: what the token promises its holders |
| `LedgerRefinement` | the mapping under which `CEP18` implements `TokenLedger` |
| `Installer` | the session code: `call`, `install_contract`, `upgrade`, the account's named keys, package versions |
| `GrantHistory` | `CEP18` with the history of what one owner offered one spender, and what the spender took |
| `Execution` | a deploy as a sequence of host calls, of a session, of the client's deploys or through the test contract |
| `EventEnabledContract` | the client's event stream: set-up, listeners, dispatch |
| `MC_CEP18`, `MC_Installer`, `MC_GrantHistory`, `MC_Execution` | the instances TLC checks; `EventEnabledContract` needs no module of its own |
| `CEP18Proofs` | how writing a balance changes the number of tokens; types, the supply, overflow, self-allowances, authorisation, who changes badges and the supply, proved |
| `EventReplayProofs` | that the events suffice, proved |
| `LedgerRefinementProofs` | the refinement, proved |
| `GrantHistoryProofs` | what a spender can take, proved |
| `InstallerProofs` | the invariants of the installer, proved |
| `EventEnabledContractProofs` | the safety of the event stream, proved |
| `ExecutionProofs` | deploys one host call at a time: types, arguments, checks before writes, stored results, proved |
| `ExecutionRefinementProofs` | that a deploy is one step of `CEP18`, and when a new token has an Admin, proved |

`CEP18` implements `TokenLedger` (through `LedgerRefinement`), and `Execution` implements `CEP18`:
what holds of the abstract token holds of deploys taken one host call at a time. `GrantHistory`
extends `CEP18`; `Installer` and `EventEnabledContract` meet the others only in the identity of a
contract.

### How CEP18 follows the code

- The variables `balances`, `allowances`, `total_supply`, `security_badges`, `events_mode` and
  `enable_mint_burn` are the dictionaries and named keys of those names. Dictionaries are total
  functions: what is not stored reads as 0 (`unwrap_or_default`), a missing badge as `Absent`.
  `initialized` says that the key `ALLOWANCES`, which `init` tests, exists.
- `deploy` records the last call: entry point, call stack, answer and event. Nothing reads it;
  the properties do.
- One action per entry point, with the names of the source. The operator `x_error` is the
  chain of checks of entry point `x` in the order of the code, answering the first that fails;
  the action either reverts with that answer and changes nothing, or makes all the writes of
  the entry point and emits its event. `transfer_from` has a third branch, its early return for
  amount 0, which precedes the allowance check and emits no event.
- Installation is one action because `install_contract` calls `init` in the same deploy. It
  fails as a whole when `init_events` finds an unknown events mode.
- Lists are sets: the loops that write badges give every key on a list the same badge, so order
  and repetition within one list do not matter. The order between lists does and is kept.
- Left to `Execution`: arguments that are missing or malformed, and gas. Left out:
  `InvalidContext`, which would need an empty call stack; names, symbol, decimals.
- Operators commented "Variant with a bug" are not used by the specification. Each is what a
  plausible slip would make of the definition below it, and each is caught by a property.

### What TokenLedger promises

`TokenLedger` knows no error codes, call stacks, badges or counters that overflow. It has
holders, the tokens each has, the grants between them, and who may issue tokens and appoint
others. Each step is made by one holder (`by`) and is a payment, a grant, a collection against a
grant, an issue, a retirement, an appointment, the creation, or nothing. The supply is no
variable: it is the number of tokens. `LedgerRefinement` maps balances to tokens, allowances to
grants, the Admin badges to `managers`, Admin and Minter badges to `issuers`, and the record of
the last call to `by`: the keys for which, by its call stack, the call acts (`ActsFor`, which is
written independently of `get_immediate_caller_address`). The refinement says that there is always
exactly one such key, that a revert and an early return change nothing, and that the checks of
the code, which compare a `total_supply` stored apart, amount to the bound on the tokens.

### How Installer follows the code

- `named_keys` are those of each account. A name is a sequence of parts, prefix first, and two
  names are equal when the strings are: for this a leading `access_` of a token's name must be a
  part of its own, which is a convention on `Name` (strings have no parts in TLA+, so no assumption
  can say it). So the package hash of a token called `access_X` has the
  name of the access URef of the token `X`, as `HASH_KEY_NAME_PREFIX` begins
  `ACCESS_KEY_NAME_PREFIX`. `put_key` overwrites what is stored.
- `call` takes the branch of the code: the access key decides between `upgrade` and
  `install_contract`. Each is one action with the reverts of the code in its order, and one deploy.
- Packages and contracts belong to the platform. It lets a session change a package only while a
  named key of its account holds the package's access URef, and gives a new version the named keys
  of the current one. `storage` identifies what those lead to: all of the state of `CEP18`.
- What `init` does with the arguments is reduced to its answer; `CEP18` has the rest.

### How GrantHistory follows the code

Every action is one of `CEP18` with what it adds to four counters: `offered` and `latest` grow by
the amount of the owner's `approve` and `increase_allowance`, and `approve` starts `latest` and
`used` again; `taken` and `used` grow by what the owner's balance lost in the spender's
`transfer_from`. The history is told from calls and balances, never from the allowance it is
compared with. The race between an `approve` that lowers an allowance and a `transfer_from` is
any order of the two: by `WithinOffers` and `WithinLatest` the spender gains at most the older
offers. `MaxOffered` bounds the owner's offers in the run; the theorem has any bound.

### How Execution follows the code

- `ledger` is what is committed, `copy` the platform's tracking copy, `run` the deploy under way:
  its arguments, the steps it still has to make and the values it has computed. Each entry point
  is the list of its steps in the order of the source: reads of arguments (steps named like the
  argument), checks, computations, single writes, the event, `ret`. One action per kind of step.
- A deploy starts as a session, which may pass or omit any argument and pass malformed ones; as
  a deploy the JavaScript client builds, with the arguments its methods insert; or calls an entry
  point of the test contract. `call_contract` puts the callee's steps in front of the caller's and
  hands on the arguments the caller inserts, one that was absent staying absent. Arguments are
  chosen when they are read, and remembered.
- A required argument that is missing or malformed reverts; an optional one is absent, or reverts
  with the error the code names, as in `get_optional_named_arg_with_user_errors`. The bytes, and
  the sizes asked for first, are abstracted to these three cases.
- Gas may run out at any step (`OutOfGas`); any revert drops the tracking copy (`Fail`).
- Reads are of the tracking copy, so `sec_check`, the flag and the events mode see what the same
  deploy has written. `new_contract` writes the named keys; package versions are in `Installer`.
- `store_result` writes the named key `result` of the test contract; as the key has one form
  only, it is a set that is empty or holds the last answer.
- `Contract` is `CEP18` over the committed state. `ImplementsCEP18` says that the step in which a
  deploy ends is the action of `CEP18` it called, with the arguments and the call stack it ran
  with, and that every other step, and every end by gas or by an argument, changes nothing. An
  installation is compared with the arguments its session was given (`run.outer`), never with
  what is in the tracking copy.
- `CEP18` takes from the check in `init` that a second `init` answers `AlreadyInitialized` and changes
  nothing. That the writes of `init` are out of reach then, for any caller, is what the runs of
  `Execution`, where `init` is a sequence of steps like any other, add to those of `CEP18`.
- The table of entry points is `Parameters`. The platform does not enforce it, and neither does
  the model: `DeclaredIsWhatIsRead` compares it with what the steps read.

### How EventEnabledContract follows the code

- `setupEventStream` is cut at its two awaits: `setupEventStream`, `parserCreated`,
  `streamStarted`, `subscribe`. After each await it reads `this.eventStream` again, as the code
  does, so a set-up that was overtaken goes on with the newer stream. Before the contract hash is
  known it fails, with the stream already stored. Either await may reject.
- Listeners run to their end but may do, within `emit`, all that the application may do: set up
  again, set the contract hash, add and remove listeners, or throw. `emit` goes through the array
  it found; `removeEventListener` makes a new one, `addEventListener` appends to the one that is
  there, and `forEach` does not visit what was appended.
- The SDK is modelled as the code uses it: a stream sends every processed deploy from its start
  on, once for each time it was started, and hands it to the subscribed handler. A deploy here has
  one event of one contract; the parser finds only events of its own. A deploy that failed has no
  events and is not sent.
- `due`, `heard` and `wanted` are history: `wanted` is the contract hash at the call of the newest
  set-up, which only the documented property reads. An event is due to the listeners of the moment it
  is sent, if the newest stream is up, subscribed, and the parser is that of its contract.
- Extra deliveries, one per stream, are in the model; what is asked is that each is heard.

## What is checked

States that differ only in `deploy` are identified (`VIEW`): no step reads it, and action
properties are evaluated on every step, the steps to known states included. Accounts are
symmetric where the run does not name them. Deadlock is checked in all runs but those of the client, where the
application and the node may stop.

| Run | Instance | Shows |
| --- | --- | --- |
| `ledger` | 2 accounts, a contract, the token's key, counters up to 1, minting off | `SupplyIsSumOfBalances`, `NoSelfAllowance`, `NoMiddleman`, `AllowanceOnlyGrantedOrSpent`, `EventsTellEveryChange`, `ImplementsTokenLedger`, through every shape of call stack |
| `mint_burn` | 2 accounts and the token's key, counters up to 2, minting on or off, all badge changes among users | the supply, `OnlyMintOverflows`, `SupplyChangesAreAuthorised`, events, `ImplementsTokenLedger` |
| `security` | 2 accounts, a contract, the token's key, all lists over the three principals, all modes and flags | `AdminRemains`, `BadgesChangedByOtherAdmin`, `ImplementsTokenLedger` |
| `installer` | 2 accounts deploying three names, one of which shadows another, up to five contracts | `OneVersionEnabled`, `StorageFollowsPackage`, `NamedContractAnswers`, `NameKeepsToken`, and that a hash and a version are always under the keys of their kind; `DeployableUnlessShadowed` says which names cannot be deployed again, and that there are no others |
| `grants` | 2 accounts and the token's key, counters up to 2, offers up to 4 in all | `TakenWithinOffers`: in every order of the owner's grants and the spender's transfers |
| `execution` | 2 accounts, the test contract, counters up to 1, minting off | `ImplementsCEP18`, `ChecksPrecedeWrites`, `DeclaredIsWhatIsRead`, `CallersPassWhatIsRead`, `ResultIsCurrent`, and that no number ever written is out of range |
| `execution_minters` | 2 accounts, counters up to 2, minting on or off, all lists of accounts, all events modes, the invalid one included | `ImplementsCEP18` and `ChecksPrecedeWrites` for `mint`, `burn`, `change_security`, installation and a second `init`; `AdminUnlessInstallerIsMinter` says when a new token has no Admin |
| `events` | 2 set-ups, 2 contracts, 2 listeners, a list of up to 2, one deploy | `LatestStreamDelivers`, `DueIsOnItsWay`, that no set-up waits for a parser or stream nobody asked for, and under fairness `SetupsSettle`, `DueEventsAreHeard` |
| `optional_lists` | as `execution_minters`, no lists at installation | a violation: `burner_list` and `mint_and_burn_list`, which the entry point table names and the client sends, are never looked for |
| `mint_burn_flag` | as `mint_burn`, flag 1 or 2 | a violation: `enable_mint_burn` = 2 installs and enables minting, where the documentation knows 0 and 1 |
| `none_list` | as `mint_burn` | a violation: the last Admin puts itself on `admin_list` and `none_list` and keeps its badge, where the documentation says it is removed, and warns that no Admin would be left |
| `second_contract` | 2 set-ups, 2 contracts, 1 listener | a violation: after `setContractHash` and a second set-up that completes, the client decodes the events of the first contract |

Bounds, all constants of the modules: `MaxU256` stands for 2^256 - 1, and with 1 and 2 every
boundary (full, empty, one too many) is reached within a few calls; three holders and a spender
of each kind cover owner, spender and recipient all different; two frames between session and
token cover every case the contract tells apart; `InstallSupplies`, `InstallLists`,
`CallAmounts` and `BadgeLists` are the arguments offered. `ledger` leaves badges alone and
`security` leaves amounts alone because the two do not interact but through `mint`, which
`mint_burn` checks with both moving. In `installer` five contracts are enough for a token that is
upgraded twice while two others are installed, in either order of the two names that collide; an
account does not read what another one stored, so two of them show their independence.

In `execution` an entry point is one of `Called`, and keys in arguments are `Named`: everyone who
calls. Deploys do not overlap, so the committed states are those of `CEP18` at the same bounds, and
a deploy is checked from each of them. In `events` two set-ups are enough for one to overtake another
at either await, and two places in the list for a listener that removes itself or the next, or is
there twice; events of different deploys never meet in the code, so one is enough.

### Fairness

The contract has no process of its own and nothing obliges an account to send a deploy, so nothing
is claimed to happen there. In `EventEnabledContract` weak fairness is assumed of three things: that
a promise of the SDK settles, one way or the other (`Progress`), that a deploy which a stream has sent
arrives (`deployProcessed`), and that a listener returns or throws (`emit`, `emitEnds`). The event loop
of JavaScript gives the rest: once it is free, what is ready is run. Nothing is assumed of the
application or of the node; and a stream is not assumed to be ever set up.

Liveness is checked without symmetry or views.

### What the violations show

- `enable_mint_burn` is documented as 0 or 1 and installs with any value, all but 0 enabling.
- `none_list` is documented to be stronger than `admin_list`; the caller is exempt from both.
- Three places (`main.rs`, line 323, `cep18/README.md`, line 122, `docs/3-transfer.md`, line 433) warn that
  removing the last Admin locks out all admin functionality. It cannot be done: only an Admin may
  remove badges, and never its own (`AdminRemains`, and its proof). The one way to a token without an
  Admin is its installation (`AdminUnlessInstallerIsMinter`).
- `client-js/README.md` (lines 220 and 236 to 241) says that after `setContractHash` and
  `setupEventStream` one can listen to the token's events. `setupEventStream` makes a parser only if
  there is none, so the first contract's stays: a second contract, or the next version of an
  upgraded one, is never heard, though every call succeeds. Two overlapping set-ups that both find no
  parser make one each, and the answer that arrives last wins.
- `change_security` ignores two lists named at its entry point (`entry_points.rs`, lines 191 to 196)
  and offered by the client: the deploy succeeds, an event is emitted, and nobody has a new right.

## What is proved

The contract for every finite set of accounts and packages, every `MaxU256` and every set of
arguments (`CasperAssumption`, `CEP18Assumption`), and so for the real width of the counters; the
installer for any accounts, names and number of contracts (`InstallerAssumption`); the event stream
for any number of set-ups, deploys and listeners and a list of any length
(`EventEnabledContractAssumption`); deploys for any accounts, packages, counters, arguments of the right
types and entry points called (`ExecutionAssumption`, `CalledAssumption`):

| Theorem | Statement |
| --- | --- |
| `TypeCorrect` | `Spec => []TypeOK` |
| `SupplyCorrect` | `Spec => []SupplyIsSumOfBalances` |
| `OverflowOnlyInMint` | `Spec => OnlyMintOverflows` |
| `NoSelfSpender` | `Spec => []NoSelfAllowance` |
| `NoMiddlemanActs` | `Spec => NoMiddleman` |
| `AllowancesAccounted` | `Spec => AllowanceOnlyGrantedOrSpent` |
| `AdminsRemain` | `Spec => AdminRemains` |
| `BadgesChangedByOthers` | `Spec => BadgesChangedByOtherAdmin` |
| `SupplyIsAuthorised` | `Spec => SupplyChangesAreAuthorised` |
| `SpenderBounded` | `HistSpec => []TakenWithinOffers` |
| `CEP18ImplementsTokenLedger` | `Spec => ImplementsTokenLedger` |
| `EventsSuffice` | `Spec => EventsTellEveryChange` |
| `InstallerTypes` | `Spec => []TypeOK` of `Installer` |
| `OneVersionTheorem` | `Spec => []OneVersionEnabled` |
| `StorageTheorem` | `Spec => []StorageFollowsPackage` |
| `NamedContractTheorem` | `Spec => []NamedContractAnswers` |
| `DeployableTheorem` | `Spec => []DeployableUnlessShadowed` |
| `NameKeepsTokenTheorem` | `Spec => NameKeepsToken` |
| `ClientTypes` | `Spec => []TypeOK` of `EventEnabledContract` |
| `LatestStreamTheorem` | `Spec => []LatestStreamDelivers` |
| `DueTheorem` | `Spec => []DueIsOnItsWay` |
| `ExecutionTypes` | `Spec => []TypeOK` of `Execution` |
| `CallersPass` | `Spec => CallersPassWhatIsRead` |
| `ChecksFirst` | `Spec => ChecksPrecedeWrites` |
| `DeclaredIsRead` | `Spec => DeclaredIsWhatIsRead` |
| `ResultsCurrent` | `Spec => ResultIsCurrent` |
| `AdminUnlessMinter` | `Spec => AdminUnlessInstallerIsMinter` |
| `ExecutionImplementsCEP18` | `Spec => ImplementsCEP18` of `Execution` |

`TypeOK` is inductive. The supply needs `SupplyInv`: the types, the equality, and that nothing
is in the ledger before installation, because `init` overwrites a balance and the supply. The
sum of the balances is the cardinality of `Units(balances)`, the set of the tokens that exist;
`UnitsWrite` says that writing `v` over a balance changes it by the difference, and everything
else about the supply follows: a transfer is two writes that cancel out, a mint one, and two
keys together never hold more than exists (`UnitsBound`), which is why the overflow check of a
transfer cannot fail. The authorisation theorems rest on `CallerActs`: the address the contract
computes from the stack is the key the call acts for. The refinement rests on `SupplyInv`, which
turns the overflow check of `mint` into a bound on the tokens, and on `ActsAlone`: no other key
is acted for. Each entry point has a lemma that gives the abstract step it makes.

The theorems on rights share one invariant, the types and that no key has a badge before
installation (`RightsInv`); that an Admin remains rests on `change_security` taking its caller, an
Admin, out of the map it writes. `SpenderBounded` needs only the types and that the counters
are numbers (`GrantInv`): the two bounds are then inductive, as a grant adds to both sides, a
collection moves its amount from one term to the other, and nothing else raises the allowance.

`EventsSuffice` has a lemma for each kind of event. What a call wrote is read off its action; that an
observer who knows only the event and the numbers before it computes the same, for every key,
is then a comparison of two functions, value by value. It needs `SupplyInv`, and that the two keys
of an event of a transfer differ, which the entry points check.

The invariants of `Installer` need each other and are proved as one, `InstallerInv`. Its parts say:
a package has versions of its own and all but the newest are disabled (`PackagesInv`); storage is
never younger than a contract that leads to it (`ContractsInv`); the names stored for a token lead to
its package and its newest contract, and no other name of any account leads there (`NamesInv`);
the access key of a name is the access URef of its package until the name that shadows it is
installed, and no other named key holds that URef (`AccessInv`). The equality of names as strings is
used through a few lemmas on which kinds of name can coincide; by them also, what is under a version
key is a version (`VersionsInv`).

The client has two invariants. `StreamInv` says how far each set-up can be: what it waits for
(`SetupsInv`), and that the set-up of the newest stream can start and subscribe only its own
(`NewestInv`). `EventsInv` is the types of the rest and `DueIsOnItsWay`, where an event
that is due can be: in a stream that will deliver it, or in the part of the list `emit` has still to
visit. `removeEventListener` filters a list by a recursive function on its positions; what that
computes is proved by the least number at which it could fail (`LeastNatural`, from the
well-foundedness of `<`), for lists of any length.

A deploy of `Execution` runs a program, a sequence of steps. The proofs see it as a set: the steps of
every program are listed in one common order (`Rank`), none twice, so that what is left to do is the
set `Todo` and the step at hand is its least (`HeadTodo`). Entering another program, with
`call_contract` or `transfer_balance`, keeps the order because of where the code makes these calls.
`ExecutionInv` then says what is left to do for whom (`Control`), that an argument is there once the
step that reads it is done and that a caller's arguments hold what the callee demands (`Args`), that a
number to be written has been computed or will be (`New`), and the types. `ChecksInv` adds what is set
at installation, so that recording an event never fails, and that nothing is written while anything
but writes is left (`Unwritten`); `ResultInv` follows an answer from the token to the key of the test
contract. The tables of declared, passed and read arguments enter as facts about sets of names.

That `Execution` implements `CEP18` rests on `StagesInv`, which says of every point of a deploy what it
has done so far, in terms of what is committed. The steps left are the last of the program (`Suffix`),
so what comes before the step at hand has been done; a program reads arguments of its own only
(`ArgsOwn`); what was checked holds (`Checked`); a number computed is the one `CEP18` would write, and
what is written so far is that number and nothing else, an event being recorded last (`Done`). An
installation differs, as it writes before it checks: `Initialising` says what each step of `init` has
left in the tracking copy, through the three writes of badges. The last step of a deploy either answers
(`Answers`: nothing is left, so the tracking copy is what the action of `CEP18` makes of the ledger) or
refuses (`Refuses`: the first check that fails in the program is the first in `x_error`); each entry point
has a lemma that shows both to be its action, with the same arguments and call stack (`TransferEnds`,
`MintEnds` ...). Every other step leaves the ledger alone (`OthersLeave`). `AdminUnlessMinter` follows
from `Initialising` at its end and from there being no badge before installation (`BadgesInv`).

Every safety property of a passing run is proved. Only model-checked: liveness, and so `SetupsSettle`
and `DueEventsAreHeard`, which is beyond the prover, as `ENABLED` is. What follows from composing the
refinements is not stated as a theorem about `Execution` again: each step of its ledger being an action of
`CEP18`, the invariants of `CEP18` hold of what is committed.

## Not modelled

- `name`, `symbol` and `decimals`: they return what installation stored and nothing else reads.
- Event schemas and encodings, dictionary item keys, and the conversions of `SecurityBadge` and
  `EventsMode` to bytes, beyond which values are accepted.
- The installation of the test contract, which stores a table; that its parameter `token_contract` is
  declared a `ContractHash` and read as a `Key`, as types are not modelled.
- In the client: signing, payment, queries of stored values and `parseDeployResult`, which are requests
  to the SDK and keep no state.
- The internals of the Casper platform and of the SDKs; gas prices and limits.
- Tests, benchmarks and CI scripts.

## Plan

1. Done: `Casper`, `CEP18`, `EventReplay`, with proofs of types, supply, authorisation and rights.
2. Done: `Installer`, with proofs of all its properties.
3. Done: `TokenLedger`, refined by `CEP18`, with a proof.
4. Done: `Execution`, composed with the test contract and the client's deploys.
5. Done: `EventEnabledContract`, checked, with liveness; its safety proved.
6. Done: `GrantHistory`, with a proof.
7. Done: proof of `EventsTellEveryChange`.
8. Done: proofs about `Execution`: types, arguments, `ChecksPrecedeWrites`, `ResultIsCurrent`.
9. Done: proof that `Execution` implements `CEP18`, and of `AdminUnlessInstallerIsMinter`.
10. Next: the supply of `CEP18` as an invariant of the ledger of `Execution`, proved through the refinement.
