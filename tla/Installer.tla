---- MODULE Installer ----
(***************************************************************************)
(* The session code of cep18.wasm: call installs a token under a name, or  *)
(* upgrades the one the deploying account already has under that name.     *)
(* What it knows of the past is in the account's named keys, whose names   *)
(* it builds from prefixes and the token's name; a named key is a sequence *)
(* of parts here, so that two of them are equal when the strings are.      *)
(***************************************************************************)
EXTENDS Integers, Sequences, FiniteSets

CONSTANTS Account,
          Name,        \* names of tokens, as sequences of parts: a leading "access_" of the
                       \* string is always a part of its own
          MaxContracts \* bound on the contracts the model stores

ASSUME InstallerAssumption ==
    /\ \A name \in Name : name \in Seq(STRING)
    /\ MaxContracts \in Nat

VARIABLES
    named_keys, \* of each account: a function from the names it uses to their values
    packages,   \* contract packages: their versions in order, and those disabled
    contracts,  \* contracts: their package and the storage their named keys lead to
    deploy      \* the last deploy: account, name, answer

vars == <<named_keys, packages, contracts, deploy>>

Ok == "Ok"

(***************************************************************************)
(* Names and values of named keys                                          *)
(***************************************************************************)
HASH_KEY_NAME_PREFIX    == <<"cep18_contract_package_">>
ACCESS_KEY_NAME_PREFIX  == <<"cep18_contract_package_", "access_">>
CONTRACT_NAME_PREFIX    == <<"cep18_contract_hash_">>
CONTRACT_VERSION_PREFIX == <<"cep18_contract_version_">>

hash_key(name)     == HASH_KEY_NAME_PREFIX \o name
access_key(name)   == ACCESS_KEY_NAME_PREFIX \o name
contract_key(name) == CONTRACT_NAME_PREFIX \o name
version_key(name)  == CONTRACT_VERSION_PREFIX \o name

PackageHash(p)  == [type |-> "package hash", id |-> p]   \* Key::Hash of a package
ContractHash(c) == [type |-> "contract hash", id |-> c]  \* Key::Hash of a contract
AccessURef(p)   == [type |-> "access uref", id |-> p]    \* right to change a package
VersionURef(n)  == [type |-> "version uref", id |-> n]   \* a URef holding the version

IsHash(value) == value.type \in {"package hash", "contract hash"}

Has(account, key)     == key \in DOMAIN named_keys[account]
get_key(account, key) == named_keys[account][key]

\* put_key overwrites silently; keys on the left win.
put_keys(account, keys) ==
    named_keys' = [named_keys EXCEPT ![account] =
        [key \in DOMAIN keys \cup DOMAIN @ |->
            IF key \in DOMAIN keys THEN keys[key] ELSE named_keys[account][key]]]

(***************************************************************************)
(* The platform's packages.  A session may change a package only while one *)
(* of its account's named keys holds the access URef.                      *)
(***************************************************************************)
HoldsAccess(account, p) ==
    \E key \in DOMAIN named_keys[account] : named_keys[account][key] = AccessURef(p)

Versions(p) == {packages[p].versions[i] : i \in DOMAIN packages[p].versions}
Enabled(p)  == Versions(p) \ packages[p].disabled

Answer(account, name, error) ==
    deploy' = [account |-> account, name |-> name, error |-> error]

Revert(account, name, error) ==
    /\ error # Ok
    /\ Answer(account, name, error)
    /\ UNCHANGED <<named_keys, packages, contracts>>

(***************************************************************************)
(* install_contract: a new package with one contract, its init included.   *)
(* init answers InvalidEventsMode for a bad argument and undoes it all.    *)
(***************************************************************************)
installed_keys(name, p, c) ==
    [key \in {hash_key(name), access_key(name), contract_key(name), version_key(name)} |->
        CASE key = hash_key(name)     -> PackageHash(p)
          [] key = access_key(name)   -> AccessURef(p)
          [] key = contract_key(name) -> ContractHash(c)
          [] key = version_key(name)  -> VersionURef(1)]

install_contract(account, name, init_answer) ==
    LET p == Len(packages) + 1
        c == Len(contracts) + 1
    IN  \/ Revert(account, name, init_answer)
        \/ /\ init_answer = Ok
           /\ c <= MaxContracts
           /\ packages' = Append(packages, [versions |-> <<c>>, disabled |-> {}])
           /\ contracts' = Append(contracts, [package |-> p, storage |-> c])
           /\ put_keys(account, installed_keys(name, p, c))
           /\ Answer(account, name, Ok)

(***************************************************************************)
(* upgrade: a new version in the package found under the name.  The        *)
(* platform gives it the named keys of the version before.                 *)
(***************************************************************************)
upgrade_error(account, name) ==
    IF ~Has(account, hash_key(name)) THEN "None"
    ELSE IF ~IsHash(get_key(account, hash_key(name))) THEN "MissingPackageHashForUpgrade"
    ELSE IF ~Has(account, contract_key(name)) THEN "None"
    ELSE IF ~IsHash(get_key(account, contract_key(name))) THEN "MissingPackageHashForUpgrade"
    ELSE IF ~HoldsAccess(account, get_key(account, hash_key(name)).id) THEN "ForgedReference"
    ELSE Ok

\* Variant with a bug: the new version starts with empty storage.
fresh_storage(p) == Len(contracts) + 1

\* What the new version is given as its storage: what the newest enabled version had.
carried_storage(p) ==
    contracts[CHOOSE c \in Enabled(p) : \A d \in Enabled(p) : d <= c].storage

\* Variant with a bug: the previous version stays enabled.
disabled_after_nothing(p, previous) == packages[p].disabled

\* disable_contract_version of the version that was current.
disabled_after(p, previous) == packages[p].disabled \cup {previous}

\* Variants with a bug: the key of the contract hash is not renewed, or the two new values are
\* put under each other's keys.
upgraded_keys_stale(name, c, version) ==
    [key \in {version_key(name)} |-> VersionURef(version)]
upgraded_keys_swapped(name, c, version) ==
    [key \in {contract_key(name), version_key(name)} |->
        IF key = contract_key(name) THEN VersionURef(version) ELSE ContractHash(c)]

upgraded_keys(name, c, version) ==
    [key \in {contract_key(name), version_key(name)} |->
        IF key = contract_key(name) THEN ContractHash(c) ELSE VersionURef(version)]

upgrade(account, name) ==
    LET error    == upgrade_error(account, name)
        p        == get_key(account, hash_key(name)).id
        previous == get_key(account, contract_key(name)).id
        c        == Len(contracts) + 1
    IN  \/ Revert(account, name, error)
        \/ /\ error = Ok
           /\ c <= MaxContracts
           /\ packages' = [packages EXCEPT ![p] =
                [versions |-> Append(@.versions, c), disabled |-> disabled_after(p, previous)]]
           /\ contracts' = Append(contracts, [package |-> p, storage |-> carried_storage(p)])
           /\ put_keys(account, upgraded_keys(name, c, Len(packages[p].versions) + 1))
           /\ Answer(account, name, Ok)

\* Variants with a bug: every deploy installs, or the package hash key decides.
upgrades_never(account, name) == FALSE
upgrades_by_hash(account, name) == Has(account, hash_key(name))

\* call decides by the access key alone.
upgrades(account, name) == Has(account, access_key(name))

call(account, name, init_answer) ==
    \/ upgrades(account, name) /\ upgrade(account, name)
    \/ ~upgrades(account, name) /\ install_contract(account, name, init_answer)

Init ==
    /\ named_keys = [a \in Account |-> <<>>]
    /\ packages = <<>>
    /\ contracts = <<>>
    /\ deploy = [account |-> "none", name |-> <<>>, error |-> Ok]

Next ==
    \E account \in Account, name \in Name, init_answer \in {Ok, "InvalidEventsMode"} :
        call(account, name, init_answer)

Spec == Init /\ [][Next]_vars

-----------------------------------------------------------------------------
Value == [type : {"package hash", "contract hash", "access uref", "version uref"},
          id : 1..MaxContracts]

TypeOK ==
    /\ \A a \in Account : \A key \in DOMAIN named_keys[a] : named_keys[a][key] \in Value
    /\ \A p \in DOMAIN packages :
          /\ packages[p].versions \in Seq(DOMAIN contracts)
          /\ packages[p].disabled \subseteq Versions(p)
    /\ contracts \in Seq([package : DOMAIN packages, storage : 1..MaxContracts])
    /\ \A a \in Account, name \in Name :
          /\ Has(a, contract_key(name)) => get_key(a, contract_key(name)).type = "contract hash"
          /\ Has(a, version_key(name)) => get_key(a, version_key(name)).type = "version uref"

\* However installs and upgrades of different names and accounts interleave, exactly one
\* version of a token answers calls, and it is its newest.
OneVersionEnabled ==
    \A p \in DOMAIN packages : Enabled(p) = {packages[p].versions[Len(packages[p].versions)]}

\* An upgrade keeps the balances, allowances and badges: all versions of a token lead to the
\* same storage, and no two tokens share one.
StorageFollowsPackage ==
    \A c, d \in DOMAIN contracts :
        contracts[c].storage = contracts[d].storage <=> contracts[c].package = contracts[d].package

\* The contract an account's named key leads users to is never a disabled version.
NamedContractAnswers ==
    \A a \in Account, name \in Name : Has(a, contract_key(name)) =>
        LET c == get_key(a, contract_key(name)).id IN c \in Enabled(contracts[c].package)

\* Once a name stands for a token it stands for that token: deploying the name again, or any
\* other name, never puts a different token in its place.
NameKeepsToken ==
    [][\A a \in Account, name \in Name : Has(a, contract_key(name)) =>
          LET before == get_key(a, contract_key(name)).id
              after  == named_keys'[a][contract_key(name)].id
          IN  contracts'[after].package = contracts[before].package]_vars

\* Deploying a name again always succeeds, by installing or by upgrading, but for one case: the
\* account also has a token whose name is "access_" and this name.  Its package hash is stored
\* under the key of this token's access URef, which is lost if it was there, and which makes
\* call upgrade a token that does not exist if it was not.
DeployableUnlessShadowed ==
    \A a \in Account, name \in Name :
        (upgrades(a, name) => upgrade_error(a, name) = Ok)
            <=> ~Has(a, contract_key(<<"access_">> \o name))
====
