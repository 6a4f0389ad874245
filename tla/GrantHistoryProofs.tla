---- MODULE GrantHistoryProofs ----
(***************************************************************************)
(* The bound on what a spender can take, for every pair of keys and any    *)
(* number of calls.                                                        *)
(***************************************************************************)
EXTENDS GrantHistory, CEP18Proofs

\* The histories are numbers, and the bound is inductive.
GrantInv ==
    /\ TypeOK
    /\ offered \in Nat /\ taken \in Nat /\ latest \in Nat /\ used \in Nat
    /\ TakenWithinOffers

\* What the invariant says of the allowance, before and after a step.
LEMMA AllowanceIsNat ==
  ASSUME TypeOK, NEW owner \in Key, NEW spender \in Key
  PROVE  allowances[<<owner, spender>>] \in Nat
BY CasperAssumption DEF TypeOK, U256

\* A step that writes no history may only lower the allowance.
LEMMA SameKept ==
  ASSUME GrantInv, TypeOK', Same, Allowance' <= Allowance
  PROVE  GrantInv'
<1>1. Allowance \in Nat /\ Allowance' \in Nat
  BY GrantHistoryAssumption, CasperAssumption DEF GrantInv, TypeOK, U256, Allowance
<1>2. offered' = offered /\ taken' = taken /\ latest' = latest /\ used' = used
  BY DEF Same, history
<1>3. /\ taken + Allowance <= offered
      /\ used + Allowance <= latest
      /\ offered \in Nat /\ taken \in Nat /\ latest \in Nat /\ used \in Nat
  BY DEF GrantInv, TakenWithinOffers, WithinOffers, WithinLatest
<1>4. taken + Allowance' <= offered /\ used + Allowance' <= latest
  BY <1>1, <1>3 DEF Allowance
<1>5. TakenWithinOffers'
  BY <1>2, <1>4 DEF TakenWithinOffers, WithinOffers, WithinLatest
<1>6. QED
  BY <1>2, <1>3, <1>5 DEF GrantInv

LEMMA AllowancesKept ==
  ASSUME GrantInv, TypeOK', Same, UNCHANGED allowances
  PROVE  GrantInv'
<1>1. Allowance \in Nat /\ Allowance' = Allowance
  BY GrantHistoryAssumption, AllowanceIsNat DEF GrantInv, Allowance
<1>2. QED
  BY <1>1, SameKept

LEMMA WriteEffect ==
  ASSUME TypeOK, NEW owner \in Key, NEW spender \in Key, NEW n,
         write_allowance_to(owner, spender, n)
  PROVE  Allowance' = IF owner = Owner /\ spender = Spender THEN n ELSE Allowance
BY GrantHistoryAssumption DEF TypeOK, write_allowance_to, Allowance

LEMMA ApproveBounded ==
  ASSUME GrantInv, TypeOK', NEW stack \in CallStack, NEW spender \in Key, NEW amount \in U256,
         approve(stack, spender, amount), approved(stack, spender, amount)
  PROVE  GrantInv'
<1> DEFINE owner == get_immediate_caller_address(stack)
<1>1. owner \in Key /\ amount \in Nat /\ TypeOK
  BY CallerActs, CasperAssumption DEF U256, GrantInv
<1>2. CASE Watched(owner, spender)
  <2>1. write_allowance_to(owner, spender, amount)
    BY <1>2 DEF approve, Revert, Watched
  <2>2. Allowance' = amount
    BY <1>1, <1>2, <2>1, WriteEffect DEF Watched
  <2>3. offered' = offered + amount /\ latest' = amount /\ used' = 0 /\ taken' = taken
    BY <1>2 DEF approved
  <2>4. taken <= offered
    BY GrantHistoryAssumption, AllowanceIsNat
       DEF GrantInv, TakenWithinOffers, WithinOffers, Allowance
  <2>5. QED
    BY <1>1, <2>2, <2>3, <2>4 DEF GrantInv, TakenWithinOffers, WithinOffers, WithinLatest
<1>3. CASE ~Watched(owner, spender)
  <2>1. Same
    BY <1>3 DEF approved
  <2>2. Allowance' = Allowance
    <3>1. CASE deploy'.error # Ok
      BY <3>1 DEF approve, Revert, Emit, Return, state, Allowance
    <3>2. CASE deploy'.error = Ok
      BY <1>1, <1>3, <3>2, WriteEffect DEF approve, Revert, Watched
    <3>3. QED
      BY <3>1, <3>2
  <2>3. QED
    BY <2>1, <2>2, SameKept, GrantHistoryAssumption, AllowanceIsNat DEF GrantInv, Allowance
<1>4. QED
  BY <1>2, <1>3

LEMMA IncreaseBounded ==
  ASSUME GrantInv, TypeOK', NEW stack \in CallStack, NEW spender \in Key, NEW amount \in U256,
         increase_allowance(stack, spender, amount), increased(stack, spender, amount)
  PROVE  GrantInv'
<1> DEFINE owner == get_immediate_caller_address(stack)
           new   == saturating_add(allowances[<<owner, spender>>], amount)
<1>1. owner \in Key /\ amount \in Nat /\ TypeOK
  BY CallerActs, CasperAssumption DEF U256, GrantInv
<1>2. /\ allowances[<<owner, spender>>] \in Nat
      /\ new \in Nat /\ new <= allowances[<<owner, spender>>] + amount
  BY <1>1, AllowanceIsNat, CasperAssumption DEF saturating_add, AddOverflows
<1>3. CASE Watched(owner, spender)
  <2>1. write_allowance_to(owner, spender, new)
    BY <1>3 DEF increase_allowance, Revert, Watched
  <2>2. Allowance' = new /\ new <= Allowance + amount /\ Allowance \in Nat
    BY <1>1, <1>2, <1>3, <2>1, WriteEffect DEF Watched, Allowance
  <2>3. offered' = offered + amount /\ latest' = latest + amount /\ UNCHANGED <<taken, used>>
    BY <1>3 DEF increased
  <2>4. QED
    BY <1>1, <1>2, <2>2, <2>3 DEF GrantInv, TakenWithinOffers, WithinOffers, WithinLatest
<1>4. CASE ~Watched(owner, spender)
  <2>1. Same
    BY <1>4 DEF increased
  <2>2. Allowance' = Allowance
    <3>1. CASE deploy'.error # Ok
      BY <3>1 DEF increase_allowance, Revert, Emit, Return, state, Allowance
    <3>2. CASE deploy'.error = Ok
      BY <1>1, <1>4, <3>2, WriteEffect DEF increase_allowance, Revert, Watched
    <3>3. QED
      BY <3>1, <3>2
  <2>3. QED
    BY <2>1, <2>2, SameKept, GrantHistoryAssumption, AllowanceIsNat DEF GrantInv, Allowance
<1>5. QED
  BY <1>3, <1>4

LEMMA DecreaseBounded ==
  ASSUME GrantInv, TypeOK', NEW stack \in CallStack, NEW spender \in Key, NEW amount \in U256,
         decrease_allowance(stack, spender, amount), Same
  PROVE  GrantInv'
<1> DEFINE owner == get_immediate_caller_address(stack)
           new   == saturating_sub(allowances[<<owner, spender>>], amount)
<1>1. owner \in Key /\ amount \in Nat /\ TypeOK
  BY CallerActs, CasperAssumption DEF U256, GrantInv
<1>2. allowances[<<owner, spender>>] \in Nat /\ new <= allowances[<<owner, spender>>]
  BY <1>1, AllowanceIsNat DEF saturating_sub, SubUnderflows
<1>3. CASE UNCHANGED allowances
  BY <1>3, AllowancesKept
<1>4. CASE ~UNCHANGED allowances
  <2>1. write_allowance_to(owner, spender, new)
    BY <1>4 DEF decrease_allowance, Revert, state
  <2>2. Allowance \in Nat
    BY <1>1, GrantHistoryAssumption, AllowanceIsNat DEF Allowance
  <2>3. Allowance' <= Allowance
    <3>1. CASE owner = Owner /\ spender = Spender
      BY <1>1, <1>2, <2>1, <3>1, WriteEffect DEF Allowance
    <3>2. CASE ~(owner = Owner /\ spender = Spender)
      BY <1>1, <2>1, <2>2, <3>2, WriteEffect
    <3>3. QED
      BY <3>1, <3>2
  <2>4. QED
    BY <2>3, SameKept
<1>5. QED
  BY <1>3, <1>4

\* What leaves the owner's balance leaves the allowance.
LEMMA TakeBounded ==
  ASSUME GrantInv, TypeOK', NEW stack \in CallStack, NEW owner \in Key, NEW recipient \in Key,
         NEW amount \in U256, transfer_from(stack, owner, recipient, amount), moved(stack, owner)
  PROVE  GrantInv'
<1> DEFINE spender == get_immediate_caller_address(stack)
<1>1. /\ spender \in Key /\ amount \in Nat /\ TypeOK
      /\ allowances[<<owner, spender>>] \in Nat
      /\ balances \in [Key -> U256] /\ balances[Owner] \in Nat
  BY CallerActs, CasperAssumption, GrantHistoryAssumption, AllowanceIsNat
     DEF U256, GrantInv, TypeOK
<1>2. CASE Watched(owner, spender)
  <2>1. /\ taken' = taken + (balances[Owner] - balances'[Owner])
        /\ used' = used + (balances[Owner] - balances'[Owner])
        /\ UNCHANGED <<offered, latest>>
    BY <1>2 DEF moved
  <2>2. CASE UNCHANGED state
    <3>1. balances' = balances /\ allowances' = allowances
      BY <2>2 DEF state
    <3>2. Same
      BY <1>1, <2>1, <3>1 DEF Same, history, GrantInv
    <3>3. QED
      BY <3>1, <3>2, AllowancesKept
  <2>3. CASE ~UNCHANGED state
    <3>1. /\ owner # recipient
          /\ transfer_balance(owner, recipient, amount)
          /\ write_allowance_to(owner, spender, allowances[<<owner, spender>>] - amount)
      BY <1>2, <2>3 DEF transfer_from, transfer_from_error, Revert, Watched, Ok
    <3>2. balances'[Owner] = balances[Owner] - amount
      BY <1>1, <1>2, <3>1, TransferEffect DEF Watched
    <3>3. Allowance' = Allowance - amount /\ Allowance \in Nat
      BY <1>1, <1>2, <3>1, WriteEffect DEF Watched, Allowance
    <3>4. taken' = taken + amount /\ used' = used + amount
      BY <1>1, <2>1, <3>2
    <3>5. QED
      BY <1>1, <2>1, <3>3, <3>4 DEF GrantInv, TakenWithinOffers, WithinOffers, WithinLatest
  <2>4. QED
    BY <2>2, <2>3
<1>3. CASE ~Watched(owner, spender)
  <2>1. Same
    BY <1>3 DEF moved
  <2>2. Allowance' = Allowance
    <3>1. CASE UNCHANGED state
      BY <3>1 DEF state, Allowance
    <3>2. CASE ~UNCHANGED state
      BY <1>1, <1>3, <3>2, WriteEffect DEF transfer_from, Revert, Emit, Return, Watched
    <3>3. QED
      BY <3>1, <3>2
  <2>3. QED
    BY <2>1, <2>2, SameKept, GrantHistoryAssumption, AllowanceIsNat DEF GrantInv, Allowance
<1>4. QED
  BY <1>2, <1>3

\* The history adds to the steps of CEP18 and allows no others.
LEMMA HistStepIsStep == HistNext => Next
BY DEF HistNext, CallWithHistory, Next, Call

LEMMA NextBounded == GrantInv /\ [HistNext]_histvars => GrantInv'
<1> SUFFICES ASSUME GrantInv, [HistNext]_histvars PROVE GrantInv'
  OBVIOUS
<1>1. CASE UNCHANGED histvars
  BY <1>1 DEF histvars, vars, state, config, history, GrantInv, TypeOK, DeployTypeOK,
              TakenWithinOffers, WithinOffers, WithinLatest, Allowance
<1>2. CASE HistNext
  <2>1. TypeOK'
    BY <1>2, HistStepIsStep, NextTyped DEF GrantInv
  <2>2. ASSUME Same, UNCHANGED allowances PROVE GrantInv'
    BY <2>1, <2>2, AllowancesKept
  <2>3. CASE Install /\ Same
    BY <2>2, <2>3 DEF Install, install_contract, Revert, state
  <2>4. ASSUME NEW stack \in CallStack, CallWithHistory(stack) PROVE GrantInv'
    <3>1. CASE init(stack) /\ Same
      BY <2>2, <3>1 DEF init, Revert, state
    <3>2. ASSUME NEW spender \in Key, NEW amount \in CallAmounts,
                 \/ approve(stack, spender, amount) /\ approved(stack, spender, amount)
                 \/ decrease_allowance(stack, spender, amount) /\ Same
                 \/ increase_allowance(stack, spender, amount) /\ increased(stack, spender, amount)
          PROVE  GrantInv'
      BY <2>1, <3>2, CEP18Assumption, ApproveBounded, DecreaseBounded, IncreaseBounded
    <3>3. ASSUME NEW recipient \in Key, NEW amount \in CallAmounts,
                 transfer(stack, recipient, amount) /\ Same
          PROVE  GrantInv'
      BY <2>2, <3>3 DEF transfer, Revert, state
    <3>4. ASSUME NEW owner \in Key, NEW recipient \in Key, NEW amount \in CallAmounts,
                 transfer_from(stack, owner, recipient, amount) /\ moved(stack, owner)
          PROVE  GrantInv'
      BY <2>1, <3>4, CEP18Assumption, TakeBounded
    <3>5. ASSUME NEW owner \in Key, NEW amount \in CallAmounts,
                 (mint(stack, owner, amount) \/ burn(stack, owner, amount)) /\ Same
          PROVE  GrantInv'
      BY <2>2, <3>5 DEF mint, burn, Revert, state
    <3>6. ASSUME NEW admin_list \in BadgeLists, NEW minter_list \in BadgeLists,
                 NEW none_list \in BadgeLists,
                 change_security(stack, admin_list, minter_list, none_list) /\ Same
          PROVE  GrantInv'
      BY <2>2, <3>6 DEF change_security, Revert, state
    <3>7. QED
      BY <2>4, <3>1, <3>2, <3>3, <3>4, <3>5, <3>6 DEF CallWithHistory
  <2>5. QED
    BY <1>2, <2>3, <2>4 DEF HistNext
<1>3. QED
  BY <1>1, <1>2

\* However approve, increase_allowance and transfer_from are interleaved, a spender takes no more
\* than it was offered in all, nor more than the last approve and later increases offer.
THEOREM SpenderBounded == HistSpec => []TakenWithinOffers
<1>1. HistInit => GrantInv
  <2>1. HistInit => TypeOK
    BY InitTyped DEF HistInit
  <2>2. HistInit => Allowance = 0
    BY GrantHistoryAssumption DEF HistInit, Init, Allowance
  <2>3. QED
    BY <2>1, <2>2 DEF HistInit, GrantInv, TakenWithinOffers, WithinOffers, WithinLatest
<1>2. GrantInv => TakenWithinOffers
  BY DEF GrantInv
<1>3. QED
  BY <1>1, <1>2, NextBounded, PTL DEF HistSpec
====
