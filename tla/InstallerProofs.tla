---- MODULE InstallerProofs ----
(***************************************************************************)
(* Installation and upgrade, for any accounts and any set of token names,  *)
(* those that shadow one another included: which package, contract and     *)
(* access key an account's named keys lead to after any deploys.           *)
(***************************************************************************)
EXTENDS Installer, SequenceTheorems, TLAPS

\* The name whose package hash is stored under the key of this name's access URef.
Shadow(name) == <<"access_">> \o name

\* Names that are deployed, and names that would shadow them.
Known == Name \cup {Shadow(name) : name \in Name}

Named(a, name)      == Has(a, contract_key(name))
ContractOf(a, name) == get_key(a, contract_key(name)).id
PackageOf(a, name)  == contracts[ContractOf(a, name)].package
Newest(p)           == packages[p].versions[Len(packages[p].versions)]

\* A package has versions, all of them its own, and all but the newest are disabled.
PackagesInv ==
    /\ packages \in Seq([versions : Seq(Nat), disabled : SUBSET Nat])
    /\ Len(packages) <= Len(contracts)
    /\ \A p \in DOMAIN packages :
          /\ packages[p].versions # <<>>
          /\ Len(packages[p].versions) <= Len(contracts)
          /\ packages[p].disabled = Versions(p) \ {Newest(p)}
          /\ \A v \in Versions(p) : v \in DOMAIN contracts /\ contracts[v].package = p

\* Storage is never younger than a contract that leads to it.
ContractsInv ==
    /\ contracts \in Seq([package : Nat, storage : Nat])
    /\ Len(contracts) <= MaxContracts
    /\ \A c \in DOMAIN contracts : contracts[c].package \in DOMAIN packages
                                   /\ contracts[c].storage \in 1..c
    /\ StorageFollowsPackage

\* A name that stands for a contract leads to its package and to its newest version; no other
\* name, of this account or another, leads to that package.
NamesInv ==
    /\ DOMAIN named_keys = Account
    /\ \A a \in Account : \A key \in DOMAIN named_keys[a] : named_keys[a][key] \in Value
    /\ \A a \in Account, n \in Known : Named(a, n) =>
          /\ ContractOf(a, n) \in DOMAIN contracts
          /\ get_key(a, contract_key(n)) = ContractHash(ContractOf(a, n))
          /\ ContractOf(a, n) = Newest(PackageOf(a, n))
          /\ Has(a, hash_key(n))
          /\ get_key(a, hash_key(n)) = PackageHash(PackageOf(a, n))
    /\ \A a, b \in Account, m, n \in Known :
          Named(a, m) /\ Named(b, n) /\ PackageOf(a, m) = PackageOf(b, n) => a = b /\ m = n

\* The access URef of a package is where installation put it until the name that shadows it is
\* installed, and nowhere else.
AccessInv ==
    /\ \A a \in Account, n \in Name :
          Has(a, access_key(n)) <=> Named(a, n) \/ Named(a, Shadow(n))
    /\ \A a \in Account, n \in Name : Named(a, n) /\ ~Named(a, Shadow(n)) =>
          get_key(a, access_key(n)) = AccessURef(PackageOf(a, n))
    /\ \A a \in Account : \A key \in DOMAIN named_keys[a] :
          get_key(a, key).type = "access uref" =>
              \E n \in Name : /\ key = access_key(n)
                              /\ Named(a, n) /\ ~Named(a, Shadow(n))
                              /\ get_key(a, key) = AccessURef(PackageOf(a, n))

\* Nothing but the URef of a version is ever put under the version key of a name.
VersionsInv ==
    \A a \in Account, n \in Name :
        Has(a, version_key(n)) => get_key(a, version_key(n)).type = "version uref"

InstallerInv == PackagesInv /\ ContractsInv /\ NamesInv /\ AccessInv /\ VersionsInv

-----------------------------------------------------------------------------
(***************************************************************************)
(* Names of named keys: the only two that can be equal are the package     *)
(* hash of a name and the access URef of the name it shadows.              *)
(***************************************************************************)
\* What names of named keys are made of.  The prefixes are strings, but the provers do not know
\* that a string literal is in STRING.
Part == STRING \cup {"cep18_contract_package_", "access_", "cep18_contract_hash_",
                     "cep18_contract_version_"}

LEMMA OnePart ==
  ASSUME NEW S, NEW x \in S
  PROVE  <<x>> \in Seq(S) /\ Len(<<x>>) = 1 /\ <<x>>[1] = x
OBVIOUS

LEMMA TwoParts ==
  ASSUME NEW S, NEW x \in S, NEW y \in S
  PROVE  /\ <<x, y>> \in Seq(S) /\ Len(<<x, y>>) = 2 /\ <<x, y>>[1] = x
         /\ <<x>> \o <<y>> = <<x, y>>
<1> DEFINE both == <<x>> \o <<y>>
<1>1. <<x, y>> \in Seq(S) /\ Len(<<x, y>>) = 2 /\ <<x, y>>[1] = x /\ <<x, y>>[2] = y
  OBVIOUS
<1>2. both \in Seq(S) /\ Len(both) = 2 /\ both[1] = x /\ both[2] = y
  <2>1. /\ both \in Seq(S) /\ Len(both) = Len(<<x>>) + Len(<<y>>)
        /\ \A i \in 1 .. Len(<<x>>) + Len(<<y>>) :
              both[i] = IF i <= Len(<<x>>) THEN <<x>>[i] ELSE <<y>>[i - Len(<<x>>)]
    BY OnePart, ConcatProperties
  <2>2. QED
    BY <2>1, OnePart
<1> HIDE DEF both
<1>3. Len(both) = Len(<<x, y>>) /\ \A i \in 1..Len(both) : both[i] = <<x, y>>[i]
  BY <1>1, <1>2
<1>4. both = <<x, y>>
  BY <1>1, <1>2, <1>3, SeqEqual
<1>5. QED
  BY <1>1, <1>4 DEF both

LEMMA Prefixes ==
  /\ HASH_KEY_NAME_PREFIX \in Seq(Part) /\ Len(HASH_KEY_NAME_PREFIX) = 1
  /\ ACCESS_KEY_NAME_PREFIX \in Seq(Part) /\ Len(ACCESS_KEY_NAME_PREFIX) = 2
  /\ CONTRACT_NAME_PREFIX \in Seq(Part) /\ Len(CONTRACT_NAME_PREFIX) = 1
  /\ CONTRACT_VERSION_PREFIX \in Seq(Part) /\ Len(CONTRACT_VERSION_PREFIX) = 1
  /\ <<"access_">> \in Seq(Part) /\ Len(<<"access_">>) = 1
  /\ ACCESS_KEY_NAME_PREFIX = HASH_KEY_NAME_PREFIX \o <<"access_">>
  /\ ACCESS_KEY_NAME_PREFIX[1] = HASH_KEY_NAME_PREFIX[1]
  /\ CONTRACT_NAME_PREFIX[1] # HASH_KEY_NAME_PREFIX[1]
  /\ CONTRACT_VERSION_PREFIX[1] # HASH_KEY_NAME_PREFIX[1]
  /\ CONTRACT_VERSION_PREFIX[1] # CONTRACT_NAME_PREFIX[1]
<1>1. /\ "cep18_contract_package_" \in Part /\ "access_" \in Part
      /\ "cep18_contract_hash_" \in Part /\ "cep18_contract_version_" \in Part
  BY DEF Part
<1>2. QED
  BY <1>1, OnePart, TwoParts DEF HASH_KEY_NAME_PREFIX, ACCESS_KEY_NAME_PREFIX,
     CONTRACT_NAME_PREFIX, CONTRACT_VERSION_PREFIX

LEMMA ConcatAt ==
  ASSUME NEW s \in Seq(Part), NEW n \in Seq(Part), Len(s) \in {1, 2}
  PROVE  /\ s \o n \in Seq(Part)
         /\ Len(s \o n) = Len(s) + Len(n)
         /\ (s \o n)[1] = s[1]
<1>1. Len(n) \in Nat
  BY LenProperties
<1>2. QED
  BY <1>1, ConcatProperties

LEMMA ConcatCancels ==
  ASSUME NEW s \in Seq(Part), NEW m \in Seq(Part), NEW n \in Seq(Part), s \o m = s \o n
  PROVE  m = n
BY ConcatSimplifications

LEMMA ShadowName ==
  ASSUME NEW n \in Seq(Part)
  PROVE  /\ Shadow(n) \in Seq(Part) /\ Shadow(n) # n
         /\ hash_key(Shadow(n)) = access_key(n)
<1>1. /\ Shadow(n) \in Seq(Part) /\ Len(Shadow(n)) = 1 + Len(n)
  BY Prefixes, ConcatAt DEF Shadow
<1>2. Len(n) \in Nat
  BY LenProperties
<1>3. hash_key(Shadow(n)) = access_key(n)
  BY Prefixes, ConcatAssociative DEF Shadow, hash_key, access_key
<1>4. QED
  BY <1>1, <1>2, <1>3

LEMMA KeysDiffer ==
  ASSUME NEW m \in Seq(Part), NEW n \in Seq(Part)
  PROVE  /\ hash_key(m) = hash_key(n) => m = n
         /\ access_key(m) = access_key(n) => m = n
         /\ contract_key(m) = contract_key(n) => m = n
         /\ version_key(m) = version_key(n) => m = n
         /\ hash_key(m) = access_key(n) <=> m = Shadow(n)
         /\ contract_key(m) \notin {hash_key(n), access_key(n), version_key(n)}
         /\ version_key(m) \notin {hash_key(n), access_key(n), contract_key(n)}
<1>1. ASSUME NEW i \in Seq(Part), NEW j \in Seq(Part)
      PROVE  /\ hash_key(i) = hash_key(j) => i = j
             /\ access_key(i) = access_key(j) => i = j
             /\ contract_key(i) = contract_key(j) => i = j
             /\ version_key(i) = version_key(j) => i = j
  BY Prefixes, ConcatCancels DEF hash_key, access_key, contract_key, version_key
<1>2. hash_key(m) = access_key(n) <=> m = Shadow(n)
  BY <1>1, ShadowName
<1>3. ASSUME NEW i \in Seq(Part)
      PROVE  /\ hash_key(i)[1] = HASH_KEY_NAME_PREFIX[1]
             /\ access_key(i)[1] = HASH_KEY_NAME_PREFIX[1]
             /\ contract_key(i)[1] = CONTRACT_NAME_PREFIX[1]
             /\ version_key(i)[1] = CONTRACT_VERSION_PREFIX[1]
  BY Prefixes, ConcatAt DEF hash_key, access_key, contract_key, version_key
<1>4. QED
  BY <1>1, <1>2, <1>3, Prefixes

LEMMA KnownNames ==
  /\ Name \subseteq Known
  /\ \A n \in Known : n \in Seq(Part)
  /\ \A n \in Name : n \in Seq(Part) /\ Shadow(n) \in Known
<1>1. STRING \subseteq Part
  BY DEF Part
<1>2. \A n \in Name : n \in Seq(Part)
  BY <1>1, InstallerAssumption, SeqMonotonic
<1>3. QED
  BY <1>2, ShadowName DEF Known

(***************************************************************************)
(* What a write of named keys leaves.                                      *)
(***************************************************************************)
LEMMA PutKeys ==
  ASSUME NEW account \in Account, NEW keys, DOMAIN named_keys = Account,
         put_keys(account, keys)
  PROVE  /\ DOMAIN named_keys' = Account
         /\ \A a \in Account \ {account} : named_keys'[a] = named_keys[a]
         /\ DOMAIN named_keys'[account] = DOMAIN keys \cup DOMAIN named_keys[account]
         /\ \A key \in DOMAIN keys : named_keys'[account][key] = keys[key]
         /\ \A key \in DOMAIN named_keys[account] \ DOMAIN keys :
               named_keys'[account][key] = named_keys[account][key]
BY DEF put_keys

(***************************************************************************)
(* What a deploy does, in the terms of the invariant.                      *)
(***************************************************************************)
Installed(account, name, p, c) ==
    /\ p = Len(packages) + 1 /\ c = Len(contracts) + 1 /\ c <= MaxContracts
    /\ ~Has(account, access_key(name))
    /\ packages' = Append(packages, [versions |-> <<c>>, disabled |-> {}])
    /\ contracts' = Append(contracts, [package |-> p, storage |-> c])
    /\ put_keys(account, installed_keys(name, p, c))

Upgraded(account, name, p, c) ==
    /\ Named(account, name)
    /\ p = PackageOf(account, name) /\ c = Len(contracts) + 1 /\ c <= MaxContracts
    /\ packages' = [packages EXCEPT ![p] = [versions |-> Append(@.versions, c),
                                            disabled |-> Versions(p)]]
    /\ contracts' = Append(contracts, [package |-> p, storage |-> contracts[Newest(p)].storage])
    /\ put_keys(account, upgraded_keys(name, c, Len(packages[p].versions) + 1))

LEMMA PackageFacts ==
  ASSUME PackagesInv, NEW p \in DOMAIN packages
  PROVE  /\ Newest(p) \in Versions(p)
         /\ Enabled(p) = {Newest(p)}
         /\ packages[p].versions \in Seq(Nat)
         /\ Len(packages[p].versions) \in Nat \ {0}
         /\ p \in Nat /\ p \in 1..Len(packages)
         /\ packages[p] \in [versions : Seq(Nat), disabled : SUBSET Nat]
<1>1. packages[p] \in [versions : Seq(Nat), disabled : SUBSET Nat] /\ p \in 1..Len(packages)
  BY LenProperties, ElementOfSeq DEF PackagesInv
<1>2. packages[p].versions \in Seq(Nat) /\ Len(packages[p].versions) \in Nat \ {0}
  BY <1>1, EmptySeq, LenProperties DEF PackagesInv
<1>3. Newest(p) \in Versions(p)
  BY <1>2, LenProperties DEF Newest, Versions
<1>4. Enabled(p) = {Newest(p)}
  BY <1>3 DEF PackagesInv, Enabled
<1>5. QED
  BY <1>1, <1>2, <1>3, <1>4, LenProperties DEF PackagesInv

LEMMA NamedFacts ==
  ASSUME InstallerInv, NEW a \in Account, NEW n \in Known, Named(a, n)
  PROVE  /\ ContractOf(a, n) \in DOMAIN contracts
         /\ PackageOf(a, n) \in DOMAIN packages
         /\ get_key(a, contract_key(n)) = ContractHash(ContractOf(a, n))
         /\ ContractOf(a, n) = Newest(PackageOf(a, n))
         /\ Has(a, hash_key(n))
         /\ get_key(a, hash_key(n)) = PackageHash(PackageOf(a, n))
BY DEF InstallerInv, NamesInv, ContractsInv, PackageOf

LEMMA UpgradeCase ==
  ASSUME InstallerInv, NEW account \in Account, NEW name \in Name, upgrade(account, name)
  PROVE  \/ UNCHANGED <<named_keys, packages, contracts>>
         \/ \E p, c : Upgraded(account, name, p, c)
<1> DEFINE p        == get_key(account, hash_key(name)).id
           previous == get_key(account, contract_key(name)).id
           c        == Len(contracts) + 1
<1>1. CASE Revert(account, name, upgrade_error(account, name))
  BY <1>1 DEF Revert
<1>2. CASE ~Revert(account, name, upgrade_error(account, name))
  <2>1. /\ upgrade_error(account, name) = Ok
        /\ c <= MaxContracts
        /\ packages' = [packages EXCEPT ![p] =
              [versions |-> Append(@.versions, c), disabled |-> disabled_after(p, previous)]]
        /\ contracts' = Append(contracts, [package |-> p, storage |-> carried_storage(p)])
        /\ put_keys(account, upgraded_keys(name, c, Len(packages[p].versions) + 1))
    BY <1>2 DEF upgrade
  <2>2. Named(account, name) /\ name \in Known
    BY <2>1, KnownNames DEF upgrade_error, Named, Ok
  <2>3. p = PackageOf(account, name) /\ previous = Newest(p) /\ p \in DOMAIN packages
    <3>1. /\ get_key(account, hash_key(name)) = PackageHash(PackageOf(account, name))
          /\ ContractOf(account, name) = Newest(PackageOf(account, name))
          /\ PackageOf(account, name) \in DOMAIN packages
      BY <2>2, NamedFacts
    <3>2. PackageHash(PackageOf(account, name)).id = PackageOf(account, name)
      BY DEF PackageHash
    <3>3. p = PackageOf(account, name)
      BY <3>1, <3>2
    <3>4. QED
      BY <3>1, <3>3 DEF ContractOf
  <2>4. Enabled(p) = {Newest(p)} /\ Newest(p) \in Versions(p)
    BY <2>3, PackageFacts DEF InstallerInv
  <2>5. Newest(p) \in Nat
    BY <2>3, PackageFacts, ElementOfSeq DEF InstallerInv, Newest
  <2>6. carried_storage(p) = contracts[Newest(p)].storage
    <3>1. (CHOOSE v \in Enabled(p) : \A w \in Enabled(p) : w <= v) = Newest(p)
      BY <2>4, <2>5
    <3>2. QED
      BY <3>1 DEF carried_storage
  <2>7. disabled_after(p, previous) = Versions(p)
    BY <2>3, <2>4 DEF disabled_after, InstallerInv, PackagesInv
  <2>8. Upgraded(account, name, p, c)
    BY <2>1, <2>2, <2>3, <2>6, <2>7 DEF Upgraded
  <2>9. QED
    BY <2>8
<1>3. QED
  BY <1>1, <1>2

LEMMA CallCase ==
  ASSUME InstallerInv, NEW account \in Account, NEW name \in Name, NEW answer,
         call(account, name, answer)
  PROVE  \/ UNCHANGED <<named_keys, packages, contracts>>
         \/ \E p, c : Installed(account, name, p, c) \/ Upgraded(account, name, p, c)
BY UpgradeCase DEF call, upgrades, install_contract, Revert, Installed

LEMMA InstalledKeys ==
  ASSUME InstallerInv, NEW account \in Account, NEW name \in Name, NEW p, NEW c,
         Installed(account, name, p, c)
  PROVE  /\ DOMAIN named_keys' = Account
         /\ \A a \in Account \ {account} : named_keys'[a] = named_keys[a]
         /\ DOMAIN named_keys'[account] = DOMAIN named_keys[account] \cup
              {hash_key(name), access_key(name), contract_key(name), version_key(name)}
         /\ named_keys'[account][hash_key(name)] = PackageHash(p)
         /\ named_keys'[account][access_key(name)] = AccessURef(p)
         /\ named_keys'[account][contract_key(name)] = ContractHash(c)
         /\ named_keys'[account][version_key(name)] = VersionURef(1)
         /\ \A key \in DOMAIN named_keys[account] :
              key \notin {hash_key(name), access_key(name), contract_key(name), version_key(name)}
                  => named_keys'[account][key] = named_keys[account][key]
<1> DEFINE keys == installed_keys(name, p, c)
<1>1. /\ hash_key(name) # access_key(name) /\ hash_key(name) # contract_key(name)
      /\ hash_key(name) # version_key(name) /\ access_key(name) # contract_key(name)
      /\ access_key(name) # version_key(name) /\ contract_key(name) # version_key(name)
  BY KnownNames, KeysDiffer, ShadowName
<1>2. /\ DOMAIN keys = {hash_key(name), access_key(name), contract_key(name), version_key(name)}
      /\ keys[hash_key(name)] = PackageHash(p) /\ keys[access_key(name)] = AccessURef(p)
      /\ keys[contract_key(name)] = ContractHash(c) /\ keys[version_key(name)] = VersionURef(1)
  BY <1>1 DEF installed_keys
<1>3. put_keys(account, keys) /\ DOMAIN named_keys = Account
  BY DEF Installed, InstallerInv, NamesInv
<1> HIDE DEF keys
<1>4. QED
  BY <1>2, <1>3, PutKeys

LEMMA UpgradedKeys ==
  ASSUME InstallerInv, NEW account \in Account, NEW name \in Name, NEW p, NEW c,
         Upgraded(account, name, p, c)
  PROVE  /\ DOMAIN named_keys' = Account
         /\ \A a \in Account \ {account} : named_keys'[a] = named_keys[a]
         /\ DOMAIN named_keys'[account] = DOMAIN named_keys[account] \cup
              {contract_key(name), version_key(name)}
         /\ named_keys'[account][contract_key(name)] = ContractHash(c)
         /\ named_keys'[account][version_key(name)] = VersionURef(Len(packages[p].versions) + 1)
         /\ \A key \in DOMAIN named_keys[account] :
              key \notin {contract_key(name), version_key(name)}
                  => named_keys'[account][key] = named_keys[account][key]
<1> DEFINE keys == upgraded_keys(name, c, Len(packages[p].versions) + 1)
<1>1. contract_key(name) # version_key(name)
  BY KnownNames, KeysDiffer
<1>2. /\ DOMAIN keys = {contract_key(name), version_key(name)}
      /\ keys[contract_key(name)] = ContractHash(c)
      /\ keys[version_key(name)] = VersionURef(Len(packages[p].versions) + 1)
  BY <1>1 DEF upgraded_keys
<1>3. put_keys(account, keys) /\ DOMAIN named_keys = Account
  BY DEF Upgraded, InstallerInv, NamesInv
<1> HIDE DEF keys
<1>4. QED
  BY <1>2, <1>3, PutKeys

(***************************************************************************)
(* Packages and contracts.                                                 *)
(***************************************************************************)
LEMMA AppendFacts ==
  ASSUME NEW S, NEW s \in Seq(S), NEW e \in S
  PROVE  /\ Append(s, e) \in Seq(S)
         /\ Len(Append(s, e)) = Len(s) + 1
         /\ DOMAIN Append(s, e) = DOMAIN s \cup {Len(s) + 1}
         /\ Len(s) \in Nat /\ DOMAIN s = 1..Len(s) /\ Len(s) + 1 \notin DOMAIN s
         /\ \A i \in DOMAIN s : Append(s, e)[i] = s[i]
         /\ Append(s, e)[Len(s) + 1] = e
<1>1. /\ Len(s) \in Nat /\ DOMAIN s = 1..Len(s)
      /\ DOMAIN Append(s, e) = 1..Len(Append(s, e))
  BY LenProperties, AppendProperties
<1>2. QED
  BY <1>1, AppendProperties

\* The only name under which an access URef is found.
LEMMA AccessOf ==
  ASSUME InstallerInv, NEW a \in Account, NEW key \in DOMAIN named_keys[a],
         get_key(a, key).type = "access uref"
  PROVE  \E n \in Name : /\ key = access_key(n)
                         /\ Named(a, n) /\ ~Named(a, Shadow(n))
                         /\ get_key(a, key) = AccessURef(PackageOf(a, n))
BY DEF InstallerInv, AccessInv

\* Contracts are only added, and their packages exist.
LEMMA ContractsGrow ==
  ASSUME InstallerInv, NEW p, NEW c, NEW new,
         c = Len(contracts) + 1, contracts' = Append(contracts, new),
         new \in [package : Nat, storage : Nat]
  PROVE  /\ contracts' \in Seq([package : Nat, storage : Nat])
         /\ Len(contracts') = c /\ c \in Nat \ {0}
         /\ Len(contracts) \in Nat /\ DOMAIN contracts = 1..Len(contracts)
         /\ DOMAIN contracts' = DOMAIN contracts \cup {c} /\ c \notin DOMAIN contracts
         /\ \A d \in DOMAIN contracts : contracts'[d] = contracts[d]
         /\ contracts'[c] = new
<1> DEFINE R == [package : Nat, storage : Nat]
<1>1. contracts \in Seq(R)
  BY DEF InstallerInv, ContractsInv
<1>2. new \in R
  OBVIOUS
<1> HIDE DEF R
<1>3. /\ Append(contracts, new) \in Seq(R)
      /\ Len(Append(contracts, new)) = Len(contracts) + 1
      /\ DOMAIN Append(contracts, new) = DOMAIN contracts \cup {Len(contracts) + 1}
      /\ Len(contracts) \in Nat /\ DOMAIN contracts = 1..Len(contracts)
      /\ Len(contracts) + 1 \notin DOMAIN contracts
      /\ \A i \in DOMAIN contracts : Append(contracts, new)[i] = contracts[i]
      /\ Append(contracts, new)[Len(contracts) + 1] = new
  BY <1>1, <1>2, AppendFacts
<1>4. QED
  BY <1>3 DEF R

\* Contract c is the newest of package p, and no other contract and no other package changed.
Grown(p, c) ==
    /\ DOMAIN contracts' = DOMAIN contracts \cup {c} /\ c \notin DOMAIN contracts
    /\ \A d \in DOMAIN contracts : contracts'[d] = contracts[d]
    /\ contracts'[c].package = p
    /\ Newest(p)' = c
    /\ \A q \in DOMAIN packages \ {p} : Newest(q)' = Newest(q)

LEMMA InstallContracts ==
  ASSUME InstallerInv, NEW account \in Account, NEW name \in Name, NEW p, NEW c,
         Installed(account, name, p, c)
  PROVE  /\ ContractsInv' /\ PackagesInv'
         /\ p \in 1..MaxContracts /\ c \in 1..MaxContracts /\ p \notin DOMAIN packages
         /\ Grown(p, c)
<1> DEFINE contract == [package |-> p, storage |-> c]
           package  == [versions |-> <<c>>, disabled |-> {}]
           PkgType  == [versions : Seq(Nat), disabled : SUBSET Nat]
<1>1. /\ p = Len(packages) + 1 /\ c = Len(contracts) + 1 /\ c <= MaxContracts
      /\ packages' = Append(packages, package) /\ contracts' = Append(contracts, contract)
  BY DEF Installed
<1>2. packages \in Seq(PkgType) /\ Len(packages) \in Nat /\ Len(contracts) \in Nat
  BY LenProperties DEF InstallerInv, PackagesInv, ContractsInv
<1>3. package \in PkgType /\ <<c>> \in Seq(Nat) /\ Len(<<c>>) = 1 /\ <<c>>[1] = c
  BY <1>1, <1>2
<1>4. /\ packages' \in Seq(PkgType) /\ Len(packages') = p
      /\ DOMAIN packages' = DOMAIN packages \cup {p} /\ p \notin DOMAIN packages
      /\ \A q \in DOMAIN packages : packages'[q] = packages[q]
      /\ packages'[p] = package
  BY <1>1, <1>2, <1>3, AppendFacts
<1>5. contract \in [package : Nat, storage : Nat]
  BY <1>1, <1>2
<1>6. /\ contracts' \in Seq([package : Nat, storage : Nat])
      /\ Len(contracts') = c /\ c \in Nat \ {0} /\ DOMAIN contracts = 1..Len(contracts)
      /\ DOMAIN contracts' = DOMAIN contracts \cup {c} /\ c \notin DOMAIN contracts
      /\ \A d \in DOMAIN contracts : contracts'[d] = contracts[d]
      /\ contracts'[c] = contract
  BY <1>1, <1>5, ContractsGrow
<1>7. \A d \in DOMAIN contracts' : /\ contracts'[d].package \in DOMAIN packages'
                                   /\ contracts'[d].storage \in 1..d
  <2>1. contract.package = p /\ contract.storage = c
    OBVIOUS
  <2>2. c \in 1..c
    <3>1. c \in Nat \ {0}
      BY <1>6
    <3> HIDE DEF contract, package
    <3>2. QED
      BY <3>1
  <2>3. \A d \in DOMAIN contracts : /\ contracts[d].package \in DOMAIN packages
                                    /\ contracts[d].storage \in 1..d
    BY DEF InstallerInv, ContractsInv
  <2> HIDE DEF contract, package
  <2>4. ASSUME NEW d \in DOMAIN contracts'
        PROVE  contracts'[d].package \in DOMAIN packages' /\ contracts'[d].storage \in 1..d
    <3>1. CASE d = c
      BY <1>4, <1>6, <2>1, <2>2, <3>1
    <3>2. CASE d \in DOMAIN contracts
      BY <1>4, <1>6, <2>3, <3>2
    <3>3. QED
      BY <1>6, <3>1, <3>2
  <2>5. QED
    BY <2>4
<1>8. StorageFollowsPackage'
  <2>1. \A d \in DOMAIN contracts : contracts[d].package # p /\ contracts[d].storage # c
    <3>1. \A d \in DOMAIN contracts : /\ contracts[d].package \in DOMAIN packages
                                      /\ contracts[d].storage \in 1..d
      BY DEF InstallerInv, ContractsInv
    <3>2. c \notin 1..Len(contracts) /\ \A d \in 1..Len(contracts) : c \notin 1..d
      BY <1>1, <1>6
    <3>3. QED
      BY <1>4, <1>6, <3>1, <3>2
  <2>2. \A d, e \in DOMAIN contracts :
           contracts[d].storage = contracts[e].storage <=> contracts[d].package = contracts[e].package
    BY DEF InstallerInv, ContractsInv, StorageFollowsPackage
  <2>3. contracts'[c].package = p /\ contracts'[c].storage = c
    <3>1. contract.package = p /\ contract.storage = c
      OBVIOUS
    <3> HIDE DEF contract, package
    <3>2. QED
      BY <1>6, <3>1
  <2> HIDE DEF contract, package
  <2>4. ASSUME NEW d \in DOMAIN contracts', NEW e \in DOMAIN contracts'
        PROVE  contracts'[d].storage = contracts'[e].storage
                  <=> contracts'[d].package = contracts'[e].package
    BY <1>6, <2>1, <2>2, <2>3
  <2>5. QED
    BY <2>4 DEF StorageFollowsPackage
<1>9. ContractsInv'
  BY <1>1, <1>6, <1>7, <1>8 DEF ContractsInv
<1>10. ASSUME NEW q \in DOMAIN packages'
       PROVE  /\ packages'[q].versions # <<>>
              /\ Len(packages'[q].versions) <= Len(contracts')
              /\ packages'[q].disabled = Versions(q)' \ {Newest(q)'}
              /\ \A v \in Versions(q)' : v \in DOMAIN contracts' /\ contracts'[v].package = q
  <2>1. CASE q = p
    <3>1. packages'[q].versions = <<c>> /\ packages'[q].disabled = {}
      BY <1>4, <2>1
    <3>2. DOMAIN <<c>> = {1}
      OBVIOUS
    <3>3. Versions(q)' = {c} /\ Newest(q)' = c
      BY <1>3, <3>1, <3>2 DEF Versions, Newest
    <3>4. QED
      BY <1>3, <1>6, <2>1, <3>1, <3>3
  <2>2. CASE q \in DOMAIN packages
    <3>1. packages'[q] = packages[q] /\ Versions(q)' = Versions(q) /\ Newest(q)' = Newest(q)
      BY <1>4, <2>2 DEF Versions, Newest
    <3>2. Len(packages[q].versions) \in Nat
      BY <2>2, PackageFacts DEF InstallerInv
    <3>3. /\ packages[q].versions # <<>> /\ Len(packages[q].versions) <= Len(contracts)
          /\ packages[q].disabled = Versions(q) \ {Newest(q)}
          /\ \A v \in Versions(q) : v \in DOMAIN contracts /\ contracts[v].package = q
      BY <2>2 DEF InstallerInv, PackagesInv
    <3>4. Len(packages[q].versions) <= Len(contracts')
      BY <1>1, <1>2, <1>6, <3>2, <3>3
    <3>5. \A v \in Versions(q)' : v \in DOMAIN contracts' /\ contracts'[v].package = q
      BY <1>6, <3>1, <3>3
    <3>6. QED
      BY <3>1, <3>3, <3>4, <3>5
  <2>3. QED
    BY <1>4, <2>1, <2>2
<1>11. Len(packages') <= Len(contracts')
  BY <1>1, <1>2, <1>4, <1>6 DEF InstallerInv, PackagesInv
<1>12. PackagesInv'
  BY <1>4, <1>10, <1>11 DEF PackagesInv
<1>13. p \in 1..MaxContracts /\ c \in 1..MaxContracts
  <2>1. Len(packages) <= Len(contracts) /\ MaxContracts \in Nat
    BY InstallerAssumption DEF InstallerInv, PackagesInv
  <2>2. QED
    BY <1>1, <1>2, <2>1
<1>14. Grown(p, c)
  <2>1. packages'[p].versions = <<c>>
    BY <1>4
  <2>2. Newest(p)' = c
    BY <1>3, <2>1 DEF Newest
  <2>3. \A q \in DOMAIN packages \ {p} : Newest(q)' = Newest(q)
    BY <1>4 DEF Newest
  <2>4. contracts'[c].package = p
    BY <1>6
  <2>5. QED
    BY <1>6, <2>2, <2>3, <2>4 DEF Grown
<1>15. QED
  BY <1>4, <1>9, <1>12, <1>13, <1>14

LEMMA UpgradeContracts ==
  ASSUME InstallerInv, NEW account \in Account, NEW name \in Name, NEW p, NEW c,
         Upgraded(account, name, p, c)
  PROVE  /\ ContractsInv' /\ PackagesInv'
         /\ Len(packages[p].versions) + 1 \in 1..MaxContracts /\ c \in 1..MaxContracts
         /\ Grown(p, c)
<1> DEFINE contract == [package |-> p, storage |-> contracts[Newest(p)].storage]
           package  == [versions |-> Append(packages[p].versions, c), disabled |-> Versions(p)]
           PkgType  == [versions : Seq(Nat), disabled : SUBSET Nat]
<1>1. /\ p \in DOMAIN packages /\ c = Len(contracts) + 1 /\ c <= MaxContracts
      /\ packages' = [packages EXCEPT ![p] = package]
      /\ contracts' = Append(contracts, contract)
  BY NamedFacts, KnownNames DEF Upgraded
<1>2. /\ packages \in Seq(PkgType) /\ Len(packages) \in Nat /\ Len(contracts) \in Nat
      /\ DOMAIN contracts = 1..Len(contracts)
  BY LenProperties DEF InstallerInv, PackagesInv, ContractsInv
<1>3. /\ Newest(p) \in Versions(p) /\ packages[p].versions \in Seq(Nat)
      /\ Len(packages[p].versions) \in Nat \ {0} /\ p \in 1..Len(packages)
  BY <1>1, PackageFacts DEF InstallerInv
<1>4. /\ Newest(p) \in DOMAIN contracts /\ contracts[Newest(p)].package = p
      /\ \A v \in Versions(p) : v \in DOMAIN contracts /\ contracts[v].package = p
      /\ Len(packages[p].versions) <= Len(contracts)
  BY <1>1, <1>3 DEF InstallerInv, PackagesInv
<1>5. /\ Append(packages[p].versions, c) \in Seq(Nat)
      /\ Append(packages[p].versions, c) # <<>>
      /\ Len(Append(packages[p].versions, c)) = Len(packages[p].versions) + 1
      /\ DOMAIN Append(packages[p].versions, c)
            = DOMAIN packages[p].versions \cup {Len(packages[p].versions) + 1}
      /\ \A i \in DOMAIN packages[p].versions :
            Append(packages[p].versions, c)[i] = packages[p].versions[i]
      /\ Append(packages[p].versions, c)[Len(packages[p].versions) + 1] = c
  <2>1. c \in Nat
    BY <1>1, <1>2
  <2>2. QED
    BY <1>3, <2>1, AppendFacts, AppendProperties
<1>6. package \in PkgType
  BY <1>2, <1>4, <1>5
<1>7. /\ packages' \in Seq(PkgType) /\ Len(packages') = Len(packages)
      /\ DOMAIN packages' = DOMAIN packages
      /\ \A q \in DOMAIN packages : q # p => packages'[q] = packages[q]
      /\ packages'[p] = package
  <2>1. packages' \in Seq(PkgType) /\ Len(packages') = Len(packages)
    BY <1>1, <1>2, <1>3, <1>6, ExceptSeq
  <2> HIDE DEF package
  <2>2. DOMAIN packages' = DOMAIN packages
    BY <1>1
  <2>3. \A q \in DOMAIN packages : q # p => packages'[q] = packages[q]
    BY <1>1
  <2>4. packages'[p] = package
    BY <1>1, <1>3
  <2>5. QED
    BY <2>1, <2>2, <2>3, <2>4
<1>8. contract \in [package : Nat, storage : Nat] /\ contracts[Newest(p)].storage \in 1..Newest(p)
  <2>1. Newest(p) \in DOMAIN contracts
    BY <1>4
  <2>2. /\ contracts[Newest(p)].storage \in 1..Newest(p)
        /\ contracts[Newest(p)].storage \in Nat
    BY <2>1 DEF InstallerInv, ContractsInv
  <2>3. QED
    BY <1>3, <2>2
<1>9. /\ contracts' \in Seq([package : Nat, storage : Nat])
      /\ Len(contracts') = c /\ c \in Nat \ {0}
      /\ DOMAIN contracts' = DOMAIN contracts \cup {c} /\ c \notin DOMAIN contracts
      /\ \A d \in DOMAIN contracts : contracts'[d] = contracts[d]
      /\ contracts'[c] = contract
  BY <1>1, <1>8, ContractsGrow
<1>10. \A d \in DOMAIN contracts' : /\ contracts'[d].package \in DOMAIN packages'
                                    /\ contracts'[d].storage \in 1..d
  <2>1. contracts[Newest(p)].storage \in 1..c
    BY <1>1, <1>2, <1>4, <1>8
  <2>2. \A d \in DOMAIN contracts : contracts[d].package \in DOMAIN packages
                                    /\ contracts[d].storage \in 1..d
    BY DEF InstallerInv, ContractsInv
  <2>3. contracts'[c].package = p /\ contracts'[c].storage = contracts[Newest(p)].storage
    BY <1>9
  <2>4. ASSUME NEW d \in DOMAIN contracts'
        PROVE  contracts'[d].package \in DOMAIN packages' /\ contracts'[d].storage \in 1..d
    <3>1. CASE d = c
      BY <1>1, <1>7, <2>1, <2>3, <3>1
    <3>2. CASE d \in DOMAIN contracts
      BY <1>7, <1>9, <2>2, <3>2
    <3>3. QED
      BY <1>9, <3>1, <3>2
  <2>5. QED
    BY <2>4
<1>11. StorageFollowsPackage'
  <2>1. \A d, e \in DOMAIN contracts :
           contracts[d].storage = contracts[e].storage <=> contracts[d].package = contracts[e].package
    BY DEF InstallerInv, ContractsInv, StorageFollowsPackage
  <2>2. \A d \in DOMAIN contracts :
           contracts[d].storage = contracts[Newest(p)].storage <=> contracts[d].package = p
    BY <1>4, <2>1
  <2>3. contracts'[c].package = p /\ contracts'[c].storage = contracts[Newest(p)].storage
    BY <1>9
  <2>4. ASSUME NEW d \in DOMAIN contracts', NEW e \in DOMAIN contracts'
        PROVE  contracts'[d].storage = contracts'[e].storage
                  <=> contracts'[d].package = contracts'[e].package
    BY <1>9, <2>1, <2>2, <2>3
  <2>5. QED
    BY <2>4 DEF StorageFollowsPackage
<1>12. ContractsInv'
  BY <1>1, <1>9, <1>10, <1>11 DEF ContractsInv
<1>13. Versions(p)' = Versions(p) \cup {c} /\ Newest(p)' = c
  <2>1. packages'[p].versions = Append(packages[p].versions, c)
    BY <1>7
  <2>2. Newest(p)' = c
    BY <1>5, <2>1 DEF Newest
  <2>3. ASSUME NEW v PROVE v \in Versions(p)' <=> v \in Versions(p) \/ v = c
    BY <1>5, <2>1 DEF Versions
  <2>4. QED
    BY <2>2, <2>3
<1>14. ASSUME NEW q \in DOMAIN packages'
       PROVE  /\ packages'[q].versions # <<>>
              /\ Len(packages'[q].versions) <= Len(contracts')
              /\ packages'[q].disabled = Versions(q)' \ {Newest(q)'}
              /\ \A v \in Versions(q)' : v \in DOMAIN contracts' /\ contracts'[v].package = q
  <2>1. CASE q = p
    <3>1. /\ packages'[q].versions = Append(packages[p].versions, c)
          /\ packages'[q].disabled = Versions(p)
      BY <1>7, <2>1
    <3>2. c \notin Versions(p)
      BY <1>4, <1>9
    <3>3. Len(packages'[q].versions) <= Len(contracts')
      <4>1. Len(packages'[q].versions) = Len(packages[p].versions) + 1
        BY <1>5, <3>1
      <4>2. Len(contracts') = Len(contracts) + 1
        BY <1>1, <1>9
      <4>3. QED
        BY <1>2, <1>3, <1>4, <4>1, <4>2
    <3>4. packages'[q].disabled = Versions(q)' \ {Newest(q)'}
      BY <1>13, <2>1, <3>1, <3>2
    <3>5. \A v \in Versions(q)' : v \in DOMAIN contracts' /\ contracts'[v].package = q
      BY <1>4, <1>9, <1>13, <2>1
    <3>6. QED
      BY <1>5, <3>1, <3>3, <3>4, <3>5
  <2>2. CASE q # p
    <3>1. packages'[q] = packages[q] /\ Versions(q)' = Versions(q) /\ Newest(q)' = Newest(q)
      BY <1>7, <2>2 DEF Versions, Newest
    <3>2. Len(packages[q].versions) \in Nat
      BY <1>7, <2>2, PackageFacts DEF InstallerInv
    <3>3. /\ packages[q].versions # <<>> /\ Len(packages[q].versions) <= Len(contracts)
          /\ packages[q].disabled = Versions(q) \ {Newest(q)}
          /\ \A v \in Versions(q) : v \in DOMAIN contracts /\ contracts[v].package = q
      BY <1>7 DEF InstallerInv, PackagesInv
    <3>4. Len(packages[q].versions) <= Len(contracts')
      BY <1>1, <1>2, <1>9, <3>2, <3>3
    <3>5. \A v \in Versions(q)' : v \in DOMAIN contracts' /\ contracts'[v].package = q
      BY <1>9, <3>1, <3>3
    <3>6. QED
      BY <3>1, <3>3, <3>4, <3>5
  <2>3. QED
    BY <2>1, <2>2
<1>15. Len(packages') <= Len(contracts')
  BY <1>1, <1>2, <1>7, <1>9 DEF InstallerInv, PackagesInv
<1>16. PackagesInv'
  BY <1>7, <1>14, <1>15 DEF PackagesInv
<1>17. Len(packages[p].versions) + 1 \in 1..MaxContracts /\ c \in 1..MaxContracts
  <2>1. c = Len(contracts) + 1 /\ c <= MaxContracts /\ MaxContracts \in Nat
    BY <1>1, InstallerAssumption
  <2>2. /\ Len(packages[p].versions) \in Nat /\ Len(contracts) \in Nat
        /\ Len(packages[p].versions) <= Len(contracts)
    BY <1>2, <1>3, <1>4
  <2>3. QED
    BY <2>1, <2>2
<1>18. Grown(p, c)
  <2>1. \A q \in DOMAIN packages \ {p} : Newest(q)' = Newest(q)
    BY <1>7 DEF Newest
  <2>2. contracts'[c].package = p
    BY <1>9
  <2>3. QED
    BY <1>9, <1>13, <2>1, <2>2 DEF Grown
<1>19. QED
  BY <1>12, <1>16, <1>17, <1>18

(***************************************************************************)
(* Names.                                                                  *)
(***************************************************************************)
\* After a deploy of a name, it leads to contract c of package p, which no other name leads to;
\* the other names of all accounts lead where they did.
Renamed(account, name, p, c) ==
    /\ \A a \in Account, n \in Known : Named(a, n)' <=> Named(a, n) \/ (a = account /\ n = name)
    /\ get_key(account, contract_key(name))' = ContractHash(c)
    /\ Has(account, hash_key(name))'
    /\ get_key(account, hash_key(name))' = PackageHash(p)
    /\ \A a \in Account, n \in Known : Named(a, n) /\ ~(a = account /\ n = name) =>
          /\ get_key(a, contract_key(n))' = get_key(a, contract_key(n))
          /\ Has(a, hash_key(n))'
          /\ get_key(a, hash_key(n))' = get_key(a, hash_key(n))
          /\ PackageOf(a, n) # p

\* Where the names then lead.
LEMMA RenamedFacts ==
  ASSUME InstallerInv, NEW account \in Account, NEW name \in Name, NEW p, NEW c,
         Renamed(account, name, p, c), Grown(p, c)
  PROVE  /\ ContractOf(account, name)' = c /\ PackageOf(account, name)' = p
         /\ \A a \in Account, n \in Known : Named(a, n) /\ ~(a = account /\ n = name) =>
               /\ ContractOf(a, n)' = ContractOf(a, n)
               /\ PackageOf(a, n)' = PackageOf(a, n)
<1>1. ContractHash(c).id = c
  BY DEF ContractHash
<1>2. ContractOf(account, name)' = c
  BY <1>1 DEF Renamed, ContractOf
<1>3. PackageOf(account, name)' = p
  BY <1>2 DEF PackageOf, Grown
<1>4. ASSUME NEW a \in Account, NEW n \in Known, Named(a, n), ~(a = account /\ n = name)
      PROVE  ContractOf(a, n)' = ContractOf(a, n) /\ PackageOf(a, n)' = PackageOf(a, n)
  <2>1. ContractOf(a, n)' = ContractOf(a, n)
    BY <1>4 DEF Renamed, ContractOf
  <2>2. ContractOf(a, n) \in DOMAIN contracts
    BY <1>4, NamedFacts
  <2>3. QED
    BY <2>1, <2>2 DEF PackageOf, Grown
<1>5. QED
  BY <1>2, <1>3, <1>4

LEMMA RenamedKeeps ==
  ASSUME InstallerInv, NEW account \in Account, NEW name \in Name, NEW p, NEW c,
         Renamed(account, name, p, c), Grown(p, c), DOMAIN named_keys' = Account,
         \A a \in Account : \A key \in DOMAIN named_keys'[a] : named_keys'[a][key] \in Value
  PROVE  NamesInv'
<1>1. name \in Known
  BY KnownNames
<1>2. ASSUME NEW a \in Account, NEW n \in Known, Named(a, n)'
      PROVE  /\ ContractOf(a, n)' \in DOMAIN contracts'
             /\ get_key(a, contract_key(n))' = ContractHash(ContractOf(a, n)')
             /\ ContractOf(a, n)' = Newest(PackageOf(a, n))'
             /\ Has(a, hash_key(n))'
             /\ get_key(a, hash_key(n))' = PackageHash(PackageOf(a, n)')
  <2>1. CASE a = account /\ n = name
    <3>1. ContractOf(a, n)' = c /\ PackageOf(a, n)' = p
      BY <2>1, RenamedFacts
    <3>2. Newest(PackageOf(a, n))' = c
      BY <3>1 DEF Grown, Newest
    <3>3. QED
      BY <2>1, <3>1, <3>2 DEF Grown, Renamed
  <2>2. CASE ~(a = account /\ n = name)
    <3>1. Named(a, n)
      BY <1>2, <2>2 DEF Renamed
    <3>2. ContractOf(a, n)' = ContractOf(a, n) /\ PackageOf(a, n)' = PackageOf(a, n)
      BY <2>2, <3>1, RenamedFacts
    <3>3. PackageOf(a, n) # p /\ PackageOf(a, n) \in DOMAIN packages
      BY <2>2, <3>1, NamedFacts DEF Renamed
    <3>4. Newest(PackageOf(a, n))' = Newest(PackageOf(a, n))
      BY <3>2, <3>3 DEF Grown, Newest
    <3>5. QED
      BY <2>2, <3>1, <3>2, <3>4, NamedFacts DEF Grown, Renamed
  <2>3. QED
    BY <2>1, <2>2
<1>3. ASSUME NEW a \in Account, NEW b \in Account, NEW m \in Known, NEW n \in Known,
             Named(a, m)', Named(b, n)', PackageOf(a, m)' = PackageOf(b, n)'
      PROVE  a = b /\ m = n
  <2>1. \A x \in Account, k \in Known : Named(x, k)' /\ ~(x = account /\ k = name) =>
           Named(x, k) /\ PackageOf(x, k)' = PackageOf(x, k) /\ PackageOf(x, k)' # p
    BY RenamedFacts DEF Renamed
  <2>2. PackageOf(account, name)' = p
    BY RenamedFacts
  <2>3. QED
    BY <1>3, <2>1, <2>2 DEF InstallerInv, NamesInv
<1>4. QED
  BY <1>2, <1>3 DEF NamesInv

\* A value written under a key is one an account may have.
LEMMA Values ==
  ASSUME NEW i \in 1..MaxContracts
  PROVE  /\ PackageHash(i) \in Value /\ ContractHash(i) \in Value
         /\ AccessURef(i) \in Value /\ VersionURef(i) \in Value
BY DEF PackageHash, ContractHash, AccessURef, VersionURef, Value

LEMMA ValueTypes ==
  ASSUME NEW i
  PROVE  /\ PackageHash(i).type # "access uref" /\ ContractHash(i).type # "access uref"
         /\ VersionURef(i).type = "version uref"
         /\ PackageHash(i).id = i /\ ContractHash(i).id = i
         /\ AccessURef(i).type = "access uref" /\ AccessURef(i).id = i
BY DEF PackageHash, ContractHash, VersionURef, AccessURef

LEMMA InstallNames ==
  ASSUME InstallerInv, NEW account \in Account, NEW name \in Name, NEW p, NEW c,
         Installed(account, name, p, c)
  PROVE  Renamed(account, name, p, c) /\ NamesInv' /\ ~Named(account, Shadow(name))
<1> DEFINE new == {hash_key(name), access_key(name), contract_key(name), version_key(name)}
<1>1. ~Named(account, name) /\ ~Named(account, Shadow(name))
  BY DEF Installed, InstallerInv, AccessInv
<1>2. /\ name \in Known /\ name \in Seq(Part) /\ hash_key(name) # access_key(name)
      /\ \A n \in Known : contract_key(n) \in new <=> n = name
      /\ \A n \in Known : hash_key(n) \in new <=> n = name \/ n = Shadow(name)
  BY KnownNames, KeysDiffer, ShadowName
<1>3. /\ DOMAIN named_keys' = Account
      /\ \A a \in Account \ {account} : named_keys'[a] = named_keys[a]
      /\ DOMAIN named_keys'[account] = DOMAIN named_keys[account] \cup new
      /\ named_keys'[account][hash_key(name)] = PackageHash(p)
      /\ named_keys'[account][access_key(name)] = AccessURef(p)
      /\ named_keys'[account][contract_key(name)] = ContractHash(c)
      /\ named_keys'[account][version_key(name)] = VersionURef(1)
      /\ \A key \in DOMAIN named_keys[account] :
           key \notin new => named_keys'[account][key] = named_keys[account][key]
  BY InstalledKeys
<1>4. p \in 1..MaxContracts /\ c \in 1..MaxContracts /\ p \notin DOMAIN packages /\ Grown(p, c)
  BY InstallContracts
<1> HIDE DEF new
<1>5. \A a \in Account, n \in Known : Named(a, n)' <=> Named(a, n) \/ (a = account /\ n = name)
  BY <1>2, <1>3 DEF Named, Has
<1>6. \A a \in Account, n \in Known : Named(a, n) =>
          /\ get_key(a, contract_key(n))' = get_key(a, contract_key(n))
          /\ Has(a, hash_key(n))'
          /\ get_key(a, hash_key(n))' = get_key(a, hash_key(n))
          /\ PackageOf(a, n) # p
  <2>1. SUFFICES ASSUME NEW a \in Account, NEW n \in Known, Named(a, n)
                 PROVE  /\ get_key(a, contract_key(n))' = get_key(a, contract_key(n))
                        /\ Has(a, hash_key(n))'
                        /\ get_key(a, hash_key(n))' = get_key(a, hash_key(n))
                        /\ PackageOf(a, n) # p
    OBVIOUS
  <2>2. Has(a, hash_key(n)) /\ Has(a, contract_key(n)) /\ PackageOf(a, n) # p
    BY <1>4, <2>1, NamedFacts DEF Named
  <2>3. a = account => contract_key(n) \notin new /\ hash_key(n) \notin new
    BY <1>1, <1>2, <2>1
  <2>4. QED
    BY <1>3, <2>2, <2>3 DEF Has, get_key
<1>7. Has(account, hash_key(name))' /\ get_key(account, hash_key(name))' = PackageHash(p)
  BY <1>3 DEF Has, get_key, new
<1>8. get_key(account, contract_key(name))' = ContractHash(c)
  BY <1>3 DEF get_key
<1>9. Renamed(account, name, p, c)
  BY <1>5, <1>6, <1>7, <1>8 DEF Renamed
<1>10. ASSUME NEW a \in Account, NEW key \in DOMAIN named_keys'[a]
       PROVE  named_keys'[a][key] \in Value
  <2>1. CASE a = account /\ key \in new
    <3>1. 1 \in 1..MaxContracts
      BY <1>4, InstallerAssumption
    <3>2. QED
      BY <1>3, <1>4, <2>1, <3>1, Values DEF new
  <2>2. CASE ~(a = account /\ key \in new)
    BY <1>3, <2>2 DEF InstallerInv, NamesInv
  <2>3. QED
    BY <2>1, <2>2
<1>11. QED
  BY <1>1, <1>3, <1>4, <1>9, <1>10, RenamedKeeps

LEMMA UpgradeNames ==
  ASSUME InstallerInv, NEW account \in Account, NEW name \in Name, NEW p, NEW c,
         Upgraded(account, name, p, c)
  PROVE  Renamed(account, name, p, c) /\ NamesInv'
<1> DEFINE new == {contract_key(name), version_key(name)}
           version == Len(packages[p].versions) + 1
<1>1. Named(account, name) /\ p = PackageOf(account, name)
  BY DEF Upgraded
<1>2. /\ name \in Known
      /\ \A n \in Known : contract_key(n) \in new <=> n = name
      /\ \A n \in Known : hash_key(n) \notin new
  BY KnownNames, KeysDiffer
<1>3. /\ DOMAIN named_keys' = Account
      /\ \A a \in Account \ {account} : named_keys'[a] = named_keys[a]
      /\ DOMAIN named_keys'[account] = DOMAIN named_keys[account] \cup new
      /\ named_keys'[account][contract_key(name)] = ContractHash(c)
      /\ named_keys'[account][version_key(name)] = VersionURef(version)
      /\ \A key \in DOMAIN named_keys[account] :
           key \notin new => named_keys'[account][key] = named_keys[account][key]
  BY UpgradedKeys
<1>4. version \in 1..MaxContracts /\ c \in 1..MaxContracts /\ Grown(p, c)
  BY UpgradeContracts
<1> HIDE DEF new, version
<1>5. \A a \in Account, n \in Known : Named(a, n)' <=> Named(a, n) \/ (a = account /\ n = name)
  BY <1>2, <1>3 DEF Named, Has
<1>6. \A a \in Account, n \in Known : Named(a, n) =>
          Has(a, hash_key(n))' /\ get_key(a, hash_key(n))' = get_key(a, hash_key(n))
  BY <1>2, <1>3, NamedFacts DEF Has, get_key
<1>7. \A a \in Account, n \in Known : Named(a, n) /\ ~(a = account /\ n = name) =>
          get_key(a, contract_key(n))' = get_key(a, contract_key(n)) /\ PackageOf(a, n) # p
  <2>1. SUFFICES ASSUME NEW a \in Account, NEW n \in Known, Named(a, n),
                        ~(a = account /\ n = name)
                 PROVE  /\ get_key(a, contract_key(n))' = get_key(a, contract_key(n))
                        /\ PackageOf(a, n) # p
    OBVIOUS
  <2>2. PackageOf(a, n) # p
    BY <1>1, <1>2, <2>1 DEF InstallerInv, NamesInv
  <2>3. a = account => contract_key(n) \notin new
    BY <1>2, <2>1
  <2>4. QED
    BY <1>3, <2>1, <2>2, <2>3 DEF Named, Has, get_key
<1>8. Has(account, hash_key(name)) /\ get_key(account, hash_key(name)) = PackageHash(p)
  BY <1>1, <1>2, NamedFacts
<1>9. get_key(account, contract_key(name))' = ContractHash(c)
  BY <1>3 DEF get_key
<1>10. Renamed(account, name, p, c)
  BY <1>1, <1>2, <1>5, <1>6, <1>7, <1>8, <1>9 DEF Renamed
<1>11. ASSUME NEW a \in Account, NEW key \in DOMAIN named_keys'[a]
       PROVE  named_keys'[a][key] \in Value
  <2>1. CASE a = account /\ key \in new
    BY <1>3, <1>4, <2>1, Values DEF new
  <2>2. CASE ~(a = account /\ key \in new)
    BY <1>3, <2>2 DEF InstallerInv, NamesInv
  <2>3. QED
    BY <2>1, <2>2
<1>12. QED
  BY <1>3, <1>4, <1>10, <1>11, RenamedKeeps

(***************************************************************************)
(* Access URefs.                                                           *)
(***************************************************************************)
LEMMA InstallAccess ==
  ASSUME InstallerInv, NEW account \in Account, NEW name \in Name, NEW p, NEW c,
         Installed(account, name, p, c)
  PROVE  AccessInv'
<1> DEFINE new == {hash_key(name), access_key(name), contract_key(name), version_key(name)}
<1>1. /\ ~Named(account, name) /\ ~Named(account, Shadow(name))
      /\ Renamed(account, name, p, c) /\ Grown(p, c)
  BY InstallNames, InstallContracts DEF Installed, InstallerInv, AccessInv
<1>2. /\ name \in Known /\ Shadow(name) \in Known /\ Shadow(name) # name
      /\ hash_key(name) # access_key(name)
      /\ \A n \in Name : n \in Known /\ Shadow(n) \in Known
      /\ \A n \in Name : access_key(n) \in new <=> n = name \/ name = Shadow(n)
      /\ \A n \in Name : access_key(n) = access_key(name) => n = name
  BY KnownNames, KeysDiffer, ShadowName
<1>3. /\ DOMAIN named_keys' = Account
      /\ \A a \in Account \ {account} : named_keys'[a] = named_keys[a]
      /\ DOMAIN named_keys'[account] = DOMAIN named_keys[account] \cup new
      /\ named_keys'[account][hash_key(name)] = PackageHash(p)
      /\ named_keys'[account][access_key(name)] = AccessURef(p)
      /\ named_keys'[account][contract_key(name)] = ContractHash(c)
      /\ named_keys'[account][version_key(name)] = VersionURef(1)
      /\ \A key \in DOMAIN named_keys[account] :
           key \notin new => named_keys'[account][key] = named_keys[account][key]
  BY InstalledKeys
<1>4. \A key \in new : get_key(account, key)'.type = "access uref" => key = access_key(name)
  <2>1. /\ named_keys'[account][hash_key(name)].type # "access uref"
        /\ named_keys'[account][contract_key(name)].type # "access uref"
        /\ named_keys'[account][version_key(name)].type # "access uref"
    <3>1. /\ PackageHash(p).type # "access uref" /\ ContractHash(c).type # "access uref"
          /\ VersionURef(1).type # "access uref"
      BY ValueTypes
    <3>2. QED
      BY <1>3, <3>1
  <2>2. ASSUME NEW key \in new, get_key(account, key)'.type = "access uref"
        PROVE  key = access_key(name)
    BY <2>1, <2>2 DEF get_key, new
  <2>3. QED
    BY <2>2
<1> HIDE DEF new
<1>5. \A a \in Account, n \in Known : Named(a, n)' <=> Named(a, n) \/ (a = account /\ n = name)
  BY <1>1 DEF Renamed
<1>6. PackageOf(account, name)' = p
  BY <1>1, RenamedFacts
<1>7. \A a \in Account, n \in Known : Named(a, n) => PackageOf(a, n)' = PackageOf(a, n)
  BY <1>1, RenamedFacts
<1>8. \A a \in Account, n \in Name :
         Has(a, access_key(n))' <=> Named(a, n)' \/ Named(a, Shadow(n))'
  <2>1. \A a \in Account, n \in Name :
           Has(a, access_key(n))' <=> Has(a, access_key(n))
                                      \/ (a = account /\ (n = name \/ name = Shadow(n)))
    BY <1>2, <1>3 DEF Has
  <2>2. QED
    BY <1>2, <1>5, <2>1 DEF InstallerInv, AccessInv
<1>9. ASSUME NEW a \in Account, NEW n \in Name, Named(a, n)', ~Named(a, Shadow(n))'
      PROVE  get_key(a, access_key(n))' = AccessURef(PackageOf(a, n)')
  <2>1. CASE a = account /\ n = name
    BY <1>3, <1>6, <2>1 DEF get_key
  <2>2. CASE ~(a = account /\ n = name)
    <3>1. Named(a, n) /\ ~Named(a, Shadow(n)) /\ ~(a = account /\ name = Shadow(n))
      BY <1>2, <1>5, <1>9, <2>2
    <3>2. /\ get_key(a, access_key(n)) = AccessURef(PackageOf(a, n))
          /\ Has(a, access_key(n))
      BY <3>1 DEF InstallerInv, AccessInv
    <3>3. a = account => access_key(n) \notin new
      BY <1>2, <2>2, <3>1
    <3>4. get_key(a, access_key(n))' = get_key(a, access_key(n))
      BY <1>3, <3>2, <3>3 DEF get_key, Has
    <3>5. QED
      BY <1>2, <1>7, <3>1, <3>2, <3>4
  <2>3. QED
    BY <2>1, <2>2
<1>10. ASSUME NEW a \in Account, NEW key \in DOMAIN named_keys'[a],
              get_key(a, key)'.type = "access uref"
       PROVE  \E n \in Name : /\ key = access_key(n)
                              /\ Named(a, n)' /\ ~Named(a, Shadow(n))'
                              /\ get_key(a, key)' = AccessURef(PackageOf(a, n)')
  <2>1. CASE a = account /\ key \in new
    <3>1. key = access_key(name)
      BY <1>4, <1>10, <2>1
    <3>2. get_key(a, key)' = AccessURef(PackageOf(a, name)')
      BY <1>3, <1>6, <2>1, <3>1 DEF get_key
    <3>3. Named(a, name)' /\ ~Named(a, Shadow(name))'
      BY <1>1, <1>2, <1>5, <2>1
    <3>4. QED
      BY <3>1, <3>2, <3>3
  <2>2. CASE ~(a = account /\ key \in new)
    <3>1. key \in DOMAIN named_keys[a] /\ get_key(a, key)' = get_key(a, key)
      BY <1>3, <2>2 DEF get_key
    <3>2. PICK n \in Name : /\ key = access_key(n)
                            /\ Named(a, n) /\ ~Named(a, Shadow(n))
                            /\ get_key(a, key) = AccessURef(PackageOf(a, n))
      BY <1>10, <3>1, AccessOf
    <3>3. ~(a = account /\ Shadow(n) = name)
      BY <1>2, <2>2, <3>2
    <3>4. Named(a, n)' /\ ~Named(a, Shadow(n))'
      BY <1>2, <1>5, <3>2, <3>3
    <3>5. PackageOf(a, n)' = PackageOf(a, n)
      BY <1>2, <1>7, <3>2
    <3>6. QED
      BY <3>1, <3>2, <3>4, <3>5
  <2>3. QED
    BY <2>1, <2>2
<1>11. QED
  BY <1>8, <1>9, <1>10 DEF AccessInv

LEMMA UpgradeAccess ==
  ASSUME InstallerInv, NEW account \in Account, NEW name \in Name, NEW p, NEW c,
         Upgraded(account, name, p, c)
  PROVE  AccessInv'
<1> DEFINE new == {contract_key(name), version_key(name)}
           version == Len(packages[p].versions) + 1
<1>1. /\ Named(account, name) /\ p = PackageOf(account, name)
      /\ Renamed(account, name, p, c) /\ Grown(p, c)
  BY UpgradeNames, UpgradeContracts DEF Upgraded
<1>2. /\ \A n \in Name : n \in Known /\ Shadow(n) \in Known
      /\ \A n \in Name : access_key(n) \notin new
  BY KnownNames, KeysDiffer
<1>3. /\ \A a \in Account \ {account} : named_keys'[a] = named_keys[a]
      /\ DOMAIN named_keys'[account] = DOMAIN named_keys[account] \cup new
      /\ named_keys'[account][contract_key(name)] = ContractHash(c)
      /\ named_keys'[account][version_key(name)] = VersionURef(version)
      /\ \A key \in DOMAIN named_keys[account] :
           key \notin new => named_keys'[account][key] = named_keys[account][key]
  BY UpgradedKeys
<1>4. \A key \in new : get_key(account, key)'.type # "access uref"
  <2>1. /\ named_keys'[account][contract_key(name)].type # "access uref"
        /\ named_keys'[account][version_key(name)].type # "access uref"
    <3>1. ContractHash(c).type # "access uref" /\ VersionURef(version).type # "access uref"
      BY ValueTypes
    <3>2. QED
      BY <1>3, <3>1
  <2>2. ASSUME NEW key \in new PROVE get_key(account, key)'.type # "access uref"
    BY <2>1 DEF get_key, new
  <2>3. QED
    BY <2>2
<1> HIDE DEF new, version
<1>5. \A a \in Account, n \in Known : Named(a, n)' <=> Named(a, n)
  BY <1>1 DEF Renamed
<1>6. \A a \in Account, n \in Known : Named(a, n) => PackageOf(a, n)' = PackageOf(a, n)
  BY <1>1, RenamedFacts
<1>7. \A a \in Account, n \in Name :
         /\ Has(a, access_key(n))' <=> Has(a, access_key(n))
         /\ Has(a, access_key(n)) => get_key(a, access_key(n))' = get_key(a, access_key(n))
  BY <1>2, <1>3 DEF Has, get_key
<1>8. \A a \in Account, n \in Name :
         Has(a, access_key(n))' <=> Named(a, n)' \/ Named(a, Shadow(n))'
  BY <1>2, <1>5, <1>7 DEF InstallerInv, AccessInv
<1>9. ASSUME NEW a \in Account, NEW n \in Name, Named(a, n)', ~Named(a, Shadow(n))'
      PROVE  get_key(a, access_key(n))' = AccessURef(PackageOf(a, n)')
  <2>1. Named(a, n) /\ ~Named(a, Shadow(n)) /\ PackageOf(a, n)' = PackageOf(a, n)
    BY <1>2, <1>5, <1>6, <1>9
  <2>2. Has(a, access_key(n)) /\ get_key(a, access_key(n)) = AccessURef(PackageOf(a, n))
    BY <2>1 DEF InstallerInv, AccessInv
  <2>3. QED
    BY <1>7, <2>1, <2>2
<1>10. ASSUME NEW a \in Account, NEW key \in DOMAIN named_keys'[a],
              get_key(a, key)'.type = "access uref"
       PROVE  \E n \in Name : /\ key = access_key(n)
                              /\ Named(a, n)' /\ ~Named(a, Shadow(n))'
                              /\ get_key(a, key)' = AccessURef(PackageOf(a, n)')
  <2>1. ~(a = account /\ key \in new)
    BY <1>4, <1>10
  <2>2. key \in DOMAIN named_keys[a] /\ get_key(a, key)' = get_key(a, key)
    BY <1>3, <2>1 DEF get_key
  <2>3. PICK n \in Name : /\ key = access_key(n)
                          /\ Named(a, n) /\ ~Named(a, Shadow(n))
                          /\ get_key(a, key) = AccessURef(PackageOf(a, n))
    BY <1>10, <2>2, AccessOf
  <2>4. QED
    BY <1>2, <1>5, <1>6, <2>2, <2>3
<1>11. QED
  BY <1>8, <1>9, <1>10 DEF AccessInv

LEMMA InstallVersions ==
  ASSUME InstallerInv, NEW account \in Account, NEW name \in Name, NEW p, NEW c,
         Installed(account, name, p, c)
  PROVE  VersionsInv'
<1>1. \A n \in Name : /\ version_key(n) \notin {hash_key(name), access_key(name), contract_key(name)}
                      /\ version_key(n) = version_key(name) => n = name
  BY KnownNames, KeysDiffer
<1>2. VersionURef(1).type = "version uref"
  BY ValueTypes
<1>3. ASSUME NEW a \in Account, NEW n \in Name, Has(a, version_key(n))'
      PROVE  get_key(a, version_key(n))'.type = "version uref"
  <2>1. CASE a = account /\ n = name
    BY <1>2, <2>1, InstalledKeys DEF get_key
  <2>2. CASE ~(a = account /\ n = name)
    <3>1. Has(a, version_key(n)) /\ get_key(a, version_key(n))' = get_key(a, version_key(n))
      BY <1>1, <1>3, <2>2, InstalledKeys DEF Has, get_key
    <3>2. QED
      BY <3>1 DEF InstallerInv, VersionsInv
  <2>3. QED
    BY <2>1, <2>2
<1>4. QED
  BY <1>3 DEF VersionsInv

LEMMA UpgradeVersions ==
  ASSUME InstallerInv, NEW account \in Account, NEW name \in Name, NEW p, NEW c,
         Upgraded(account, name, p, c)
  PROVE  VersionsInv'
<1> DEFINE version == Len(packages[p].versions) + 1
<1>1. \A n \in Name : /\ version_key(n) # contract_key(name)
                      /\ version_key(n) = version_key(name) => n = name
  BY KnownNames, KeysDiffer
<1>2. VersionURef(version).type = "version uref"
  BY ValueTypes
<1>3. ASSUME NEW a \in Account, NEW n \in Name, Has(a, version_key(n))'
      PROVE  get_key(a, version_key(n))'.type = "version uref"
  <2>1. CASE a = account /\ n = name
    <3>1. named_keys'[account][version_key(name)] = VersionURef(version)
      BY UpgradedKeys
    <3>2. QED
      BY <1>2, <2>1, <3>1 DEF get_key
  <2>2. CASE ~(a = account /\ n = name)
    <3>1. Has(a, version_key(n)) /\ get_key(a, version_key(n))' = get_key(a, version_key(n))
      BY <1>1, <1>3, <2>2, UpgradedKeys DEF Has, get_key
    <3>2. QED
      BY <3>1 DEF InstallerInv, VersionsInv
  <2>3. QED
    BY <2>1, <2>2
<1>4. QED
  BY <1>3 DEF VersionsInv

(***************************************************************************)
(* The invariant holds, and what follows from it.                          *)
(***************************************************************************)
LEMMA InstallerInvInit == Init => InstallerInv
<1> SUFFICES ASSUME Init PROVE InstallerInv
  OBVIOUS
<1>1. /\ packages = <<>> /\ contracts = <<>> /\ named_keys = [a \in Account |-> <<>>]
      /\ DOMAIN packages = {} /\ DOMAIN contracts = {} /\ Len(packages) = 0 /\ Len(contracts) = 0
  BY DEF Init
<1>2. DOMAIN named_keys = Account /\ \A a \in Account : DOMAIN named_keys[a] = {}
  BY <1>1
<1>3. PackagesInv
  BY <1>1 DEF PackagesInv
<1>4. ContractsInv
  BY <1>1, InstallerAssumption DEF ContractsInv, StorageFollowsPackage
<1>5. NamesInv
  BY <1>2 DEF NamesInv, Named, Has
<1>6. AccessInv
  BY <1>2 DEF AccessInv, Named, Has
<1>7. VersionsInv
  BY <1>2 DEF VersionsInv, Has
<1>8. QED
  BY <1>3, <1>4, <1>5, <1>6, <1>7 DEF InstallerInv

LEMMA InstallerInvUnchanged ==
  ASSUME InstallerInv, UNCHANGED <<named_keys, packages, contracts>>
  PROVE  InstallerInv'
<1>1. PackagesInv'
  <2>1. PackagesInv
    BY DEF InstallerInv
  <2>2. \A p : Versions(p)' = Versions(p) /\ Newest(p)' = Newest(p)
    BY DEF Versions, Newest
  <2>3. QED
    BY <2>1, <2>2 DEF PackagesInv
<1>2. ContractsInv'
  <2>1. ContractsInv
    BY DEF InstallerInv
  <2>2. QED
    BY <2>1 DEF ContractsInv, StorageFollowsPackage
<1>3. \A a, n : /\ Has(a, n)' = Has(a, n) /\ get_key(a, n)' = get_key(a, n)
               /\ Named(a, n)' = Named(a, n) /\ ContractOf(a, n)' = ContractOf(a, n)
               /\ PackageOf(a, n)' = PackageOf(a, n) /\ Newest(n)' = Newest(n)
  BY DEF Named, Has, ContractOf, PackageOf, Newest, get_key
<1>4. NamesInv'
  <2>1. NamesInv
    BY DEF InstallerInv
  <2>2. QED
    BY <1>3, <2>1 DEF NamesInv
<1>5. AccessInv'
  <2>1. AccessInv
    BY DEF InstallerInv
  <2>2. QED
    BY <1>3, <2>1 DEF AccessInv
<1>6. VersionsInv'
  <2>1. VersionsInv
    BY DEF InstallerInv
  <2>2. QED
    BY <1>3, <2>1 DEF VersionsInv
<1>7. QED
  BY <1>1, <1>2, <1>4, <1>5, <1>6 DEF InstallerInv

LEMMA InstallerInvStep == InstallerInv /\ [Next]_vars => InstallerInv'
<1> SUFFICES ASSUME InstallerInv, [Next]_vars PROVE InstallerInv'
  OBVIOUS
<1>1. CASE Next
  <2>1. PICK account \in Account, name \in Name, answer \in {Ok, "InvalidEventsMode"} :
           call(account, name, answer)
    BY <1>1 DEF Next
  <2>2. CASE UNCHANGED <<named_keys, packages, contracts>>
    BY <2>2, InstallerInvUnchanged
  <2>3. ASSUME NEW p, NEW c, Installed(account, name, p, c)
        PROVE  InstallerInv'
    BY <2>3, InstallContracts, InstallNames, InstallAccess, InstallVersions DEF InstallerInv
  <2>4. ASSUME NEW p, NEW c, Upgraded(account, name, p, c)
        PROVE  InstallerInv'
    BY <2>4, UpgradeContracts, UpgradeNames, UpgradeAccess, UpgradeVersions DEF InstallerInv
  <2>5. QED
    BY <2>1, <2>2, <2>3, <2>4, CallCase
<1>2. CASE UNCHANGED vars
  BY <1>2, InstallerInvUnchanged DEF vars
<1>3. QED
  BY <1>1, <1>2

\* The inductive invariant of installation and upgrade.
THEOREM InstallerInvariant == Spec => []InstallerInv
BY InstallerInvInit, InstallerInvStep, PTL DEF Spec

LEMMA SeqOf ==
  ASSUME NEW S, NEW T, NEW s \in Seq(T), \A i \in DOMAIN s : s[i] \in S
  PROVE  s \in Seq(S)
<1>1. Len(s) \in Nat /\ s \in [1..Len(s) -> T] /\ DOMAIN s = 1..Len(s)
  BY LenProperties
<1>2. s \in [1..Len(s) -> S]
  BY <1>1
<1>3. QED
  BY <1>1, <1>2, SeqDef

LEMMA TypeFollows == InstallerInv => TypeOK
<1> SUFFICES ASSUME InstallerInv PROVE TypeOK
  OBVIOUS
<1>1. \A a \in Account : \A key \in DOMAIN named_keys[a] : named_keys[a][key] \in Value
  BY DEF InstallerInv, NamesInv
<1>2. ASSUME NEW q \in DOMAIN packages
      PROVE  packages[q].versions \in Seq(DOMAIN contracts) /\ packages[q].disabled \subseteq Versions(q)
  <2>1. packages[q].versions \in Seq(Nat)
    BY <1>2, PackageFacts DEF InstallerInv
  <2>2. \A i \in DOMAIN packages[q].versions : packages[q].versions[i] \in DOMAIN contracts
    BY <1>2 DEF InstallerInv, PackagesInv, Versions
  <2>3. packages[q].versions \in Seq(DOMAIN contracts)
    BY <2>1, <2>2, SeqOf
  <2>4. packages[q].disabled \subseteq Versions(q)
    BY <1>2 DEF InstallerInv, PackagesInv
  <2>5. QED
    BY <2>3, <2>4
<1>3. contracts \in Seq([package : DOMAIN packages, storage : 1..MaxContracts])
  <2>1. /\ contracts \in Seq([package : Nat, storage : Nat])
        /\ Len(contracts) \in Nat /\ DOMAIN contracts = 1..Len(contracts)
        /\ Len(contracts) <= MaxContracts
    BY LenProperties DEF InstallerInv, ContractsInv
  <2>2. ASSUME NEW d \in DOMAIN contracts
        PROVE  contracts[d] \in [package : DOMAIN packages, storage : 1..MaxContracts]
    <3>1. contracts[d] \in [package : Nat, storage : Nat]
      BY <2>1, ElementOfSeq
    <3>2. contracts[d].package \in DOMAIN packages /\ contracts[d].storage \in 1..d
      BY <2>1 DEF InstallerInv, ContractsInv
    <3>3. contracts[d].storage \in 1..MaxContracts
      BY <2>1, <3>2, InstallerAssumption
    <3>4. QED
      BY <3>1, <3>2, <3>3
  <2>3. QED
    BY <2>1, <2>2, SeqOf
<1>4. ASSUME NEW a \in Account, NEW n \in Name
      PROVE  /\ Has(a, contract_key(n)) => get_key(a, contract_key(n)).type = "contract hash"
             /\ Has(a, version_key(n)) => get_key(a, version_key(n)).type = "version uref"
  <2>1. ASSUME Named(a, n) PROVE get_key(a, contract_key(n)).type = "contract hash"
    <3>1. get_key(a, contract_key(n)) = ContractHash(ContractOf(a, n))
      BY <2>1, KnownNames, NamedFacts
    <3>2. ContractHash(ContractOf(a, n)).type = "contract hash"
      BY DEF ContractHash
    <3>3. QED
      BY <3>1, <3>2
  <2>2. QED
    BY <2>1 DEF InstallerInv, VersionsInv, Named
<1>5. QED
  BY <1>1, <1>2, <1>3, <1>4 DEF TypeOK

\* Named keys hold the values install_contract and upgrade put there, each under the key of its
\* kind whatever other names are deployed, and packages list contracts that exist.
THEOREM InstallerTypes == Spec => []TypeOK
BY InstallerInvariant, TypeFollows, PTL

\* For any accounts and names, and however deploys interleave, exactly the newest version of
\* each token answers: upgrade disables the version its named key led to, which was the one
\* version still enabled.
THEOREM OneVersionTheorem == Spec => []OneVersionEnabled
<1>1. InstallerInv => OneVersionEnabled
  BY PackageFacts DEF InstallerInv, OneVersionEnabled, Newest
<1>2. QED
  BY <1>1, InstallerInvariant, PTL

\* All versions of a token, and no two tokens, share storage: an upgrade keeps the balances,
\* allowances and badges whatever was deployed before it.
THEOREM StorageTheorem == Spec => []StorageFollowsPackage
<1>1. InstallerInv => StorageFollowsPackage
  BY DEF InstallerInv, ContractsInv
<1>2. QED
  BY <1>1, InstallerInvariant, PTL

\* The contract a named key leads users to is never a disabled version, though upgrades of the
\* same package by other names or accounts would disable it: none of them leads there.
THEOREM NamedContractTheorem == Spec => []NamedContractAnswers
<1>1. ASSUME InstallerInv PROVE NamedContractAnswers
  <2>1. ASSUME NEW a \in Account, NEW n \in Name, Named(a, n)
        PROVE  ContractOf(a, n) \in Enabled(PackageOf(a, n))
    BY <1>1, <2>1, KnownNames, NamedFacts, PackageFacts DEF InstallerInv
  <2>2. QED
    BY <2>1 DEF NamedContractAnswers, Named, ContractOf, PackageOf
<1>2. QED
  BY <1>1, InstallerInvariant, PTL

LEMMA ShadowedUpgrade ==
  ASSUME InstallerInv, NEW a \in Account, NEW n \in Name
  PROVE  (upgrades(a, n) => upgrade_error(a, n) = Ok) <=> ~Named(a, Shadow(n))
<1>1. n \in Known /\ \A m \in Name : m \in Known
  BY KnownNames
<1>2. upgrades(a, n) <=> Named(a, n) \/ Named(a, Shadow(n))
  BY DEF upgrades, InstallerInv, AccessInv
<1>3. CASE ~Named(a, n)
  <2>1. upgrade_error(a, n) # Ok
    BY <1>3 DEF upgrade_error, Named, Ok
  <2>2. QED
    BY <1>2, <1>3, <2>1
<1>4. CASE Named(a, n)
  <2>1. /\ Has(a, hash_key(n)) /\ get_key(a, hash_key(n)) = PackageHash(PackageOf(a, n))
        /\ Has(a, contract_key(n)) /\ get_key(a, contract_key(n)) = ContractHash(ContractOf(a, n))
    BY <1>1, <1>4, NamedFacts DEF Named
  <2>2. IsHash(get_key(a, hash_key(n))) /\ IsHash(get_key(a, contract_key(n)))
    <3>1. IsHash(PackageHash(PackageOf(a, n))) /\ IsHash(ContractHash(ContractOf(a, n)))
      BY DEF IsHash, PackageHash, ContractHash
    <3>2. QED
      BY <2>1, <3>1
  <2>3. get_key(a, hash_key(n)).id = PackageOf(a, n)
    <3>1. PackageHash(PackageOf(a, n)).id = PackageOf(a, n)
      BY ValueTypes
    <3>2. QED
      BY <2>1, <3>1
  <2>4. upgrade_error(a, n) = Ok <=> HoldsAccess(a, PackageOf(a, n))
    BY <2>1, <2>2, <2>3 DEF upgrade_error, Ok
  <2>5. ASSUME ~Named(a, Shadow(n)) PROVE HoldsAccess(a, PackageOf(a, n))
    <3>1. /\ access_key(n) \in DOMAIN named_keys[a]
          /\ named_keys[a][access_key(n)] = AccessURef(PackageOf(a, n))
      BY <1>4, <2>5 DEF InstallerInv, AccessInv, Has, get_key
    <3>2. QED
      BY <3>1 DEF HoldsAccess
  <2>6. ASSUME HoldsAccess(a, PackageOf(a, n)) PROVE ~Named(a, Shadow(n))
    <3>1. PICK key \in DOMAIN named_keys[a] : get_key(a, key) = AccessURef(PackageOf(a, n))
      BY <2>6 DEF HoldsAccess, get_key
    <3>2. get_key(a, key).type = "access uref"
      <4>1. AccessURef(PackageOf(a, n)).type = "access uref"
        BY ValueTypes
      <4>2. QED
        BY <3>1, <4>1
    <3>3. PICK m \in Name : /\ Named(a, m) /\ ~Named(a, Shadow(m))
                            /\ get_key(a, key) = AccessURef(PackageOf(a, m))
      BY <3>2 DEF InstallerInv, AccessInv
    <3>4. PackageOf(a, m) = PackageOf(a, n)
      <4>1. /\ AccessURef(PackageOf(a, m)).id = PackageOf(a, m)
            /\ AccessURef(PackageOf(a, n)).id = PackageOf(a, n)
        BY ValueTypes
      <4>2. QED
        BY <3>1, <3>3, <4>1
    <3>5. m = n
      BY <1>1, <1>4, <3>3, <3>4 DEF InstallerInv, NamesInv
    <3>6. QED
      BY <3>3, <3>5
  <2>7. QED
    BY <1>2, <1>4, <2>4, <2>5, <2>6
<1>5. QED
  BY <1>3, <1>4

\* Deploying a name again succeeds exactly unless the account also has a token named "access_"
\* and this name, for every set of names and every account.
THEOREM DeployableTheorem == Spec => []DeployableUnlessShadowed
<1>1. InstallerInv => DeployableUnlessShadowed
  BY ShadowedUpgrade DEF DeployableUnlessShadowed, Named, Shadow
<1>2. QED
  BY <1>1, InstallerInvariant, PTL

LEMMA CallKeepsToken ==
  ASSUME InstallerInv, [Next]_vars, NEW a \in Account, NEW n \in Name, Named(a, n)
  PROVE  PackageOf(a, n)' = PackageOf(a, n)
<1>1. CASE UNCHANGED <<named_keys, packages, contracts>>
  BY <1>1 DEF PackageOf, ContractOf, get_key
<1>2. CASE Next
  <2>1. PICK account \in Account, name \in Name, answer \in {Ok, "InvalidEventsMode"} :
           call(account, name, answer)
    BY <1>2 DEF Next
  <2>2. ASSUME NEW p, NEW c, Installed(account, name, p, c)
        PROVE  PackageOf(a, n)' = PackageOf(a, n)
    <3>1. ~(a = account /\ n = name)
      BY <2>2 DEF Installed, InstallerInv, AccessInv
    <3>2. Renamed(account, name, p, c) /\ Grown(p, c) /\ n \in Known
      BY <2>2, InstallNames, InstallContracts, KnownNames
    <3>3. QED
      BY <3>1, <3>2, RenamedFacts
  <2>3. ASSUME NEW p, NEW c, Upgraded(account, name, p, c)
        PROVE  PackageOf(a, n)' = PackageOf(a, n)
    <3>1. Renamed(account, name, p, c) /\ Grown(p, c) /\ n \in Known
      BY <2>3, UpgradeNames, UpgradeContracts, KnownNames
    <3>2. PackageOf(account, name)' = PackageOf(account, name)
      BY <2>3, <3>1, RenamedFacts DEF Upgraded
    <3>3. QED
      BY <3>1, <3>2, RenamedFacts
  <2>4. QED
    BY <1>1, <2>1, <2>2, <2>3, CallCase
<1>3. QED
  BY <1>1, <1>2 DEF vars

\* Once a name stands for a token, no deploy of it or of any other name puts another in its place.
THEOREM NameKeepsTokenTheorem == Spec => NameKeepsToken
<1> DEFINE KeepsToken ==
        \A a \in Account, name \in Name : Has(a, contract_key(name)) =>
          LET before == get_key(a, contract_key(name)).id
              after  == named_keys'[a][contract_key(name)].id
          IN  contracts'[after].package = contracts[before].package
<1>1. ASSUME InstallerInv, [Next]_vars PROVE KeepsToken
  BY <1>1, CallKeepsToken DEF Named, PackageOf, ContractOf, get_key
<1>2. InstallerInv /\ [Next]_vars => [KeepsToken]_vars
  BY <1>1
<1> HIDE DEF KeepsToken
<1>3. Spec => [][KeepsToken]_vars
  BY <1>2, InstallerInvariant, PTL DEF Spec
<1>4. QED
  BY <1>3 DEF NameKeepsToken, KeepsToken
====
