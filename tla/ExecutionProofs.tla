---- MODULE ExecutionProofs ----
(***************************************************************************)
(* One host call at a time, proved for any accounts, packages, counters,   *)
(* arguments and entry points called.                                      *)
(***************************************************************************)
EXTENDS Execution, SequenceTheorems, TLAPS

(***************************************************************************)
(* The steps of a deploy, as a set.  Programs list their steps in one      *)
(* order, in which no step comes twice; so what is still to be done is a   *)
(* set, and the step a deploy is at comes first in it.                     *)
(***************************************************************************)
Elements(s) == {s[i] : i \in DOMAIN s}

Arguments == {"name", "symbol", "decimals", "package_hash", "total_supply", "events_mode",
              "admin_list", "minter_list", "none_list", "enable_mint_burn", "token_contract",
              "address", "recipient", "spender", "owner", "amount"}

Step == Arguments \cup
    {"not_initialized", "new_dictionaries", "write_initial_balance", "write_installer_badge",
     "enabled", "sec_check", "init_events", "write_minters", "write_admins", "change_sec_badge",
     "new_contract", "owner_is_not_spender", "sender_is_not_recipient", "owner_is_caller", "return_if_zero",
     "new_allowance", "transfer_balance", "new_sender_balance", "new_recipient_balance",
     "new_supply", "write_sender_balance", "write_recipient_balance", "write_allowance",
     "write_supply", "call_contract", "record_event", "ret", "store_result"}

Rank(x) ==
    CASE x = "name" -> 1
      [] x = "symbol" -> 2
      [] x = "decimals" -> 3
      [] x = "not_initialized" -> 4
      [] x = "package_hash" -> 5
      [] x = "new_dictionaries" -> 6
      [] x = "total_supply" -> 7
      [] x = "write_initial_balance" -> 8
      [] x = "write_installer_badge" -> 9
      [] x = "events_mode" -> 10
      [] x = "enabled" -> 11
      [] x = "sec_check" -> 12
      [] x = "admin_list" -> 13
      [] x = "minter_list" -> 14
      [] x = "none_list" -> 15
      [] x = "init_events" -> 16
      [] x = "write_minters" -> 17
      [] x = "write_admins" -> 18
      [] x = "change_sec_badge" -> 19
      [] x = "enable_mint_burn" -> 20
      [] x = "new_contract" -> 21
      [] x = "token_contract" -> 22
      [] x = "address" -> 23
      [] x = "recipient" -> 25
      [] x = "spender" -> 25
      [] x = "owner" -> 25
      [] x = "owner_is_not_spender" -> 26
      [] x = "sender_is_not_recipient" -> 26
      [] x = "owner_is_caller" -> 26
      [] x = "amount" -> 27
      [] x = "return_if_zero" -> 28
      [] x = "new_allowance" -> 29
      [] x = "transfer_balance" -> 30
      [] x = "new_sender_balance" -> 31
      [] x = "new_recipient_balance" -> 32
      [] x = "new_supply" -> 33
      [] x = "write_sender_balance" -> 34
      [] x = "write_recipient_balance" -> 35
      [] x = "write_allowance" -> 36
      [] x = "write_supply" -> 37
      [] x = "call_contract" -> 38
      [] x = "record_event" -> 39
      [] x = "ret" -> 40
      [] x = "store_result" -> 41

LEMMA RankTable ==
    /\ Rank("name") = 1 /\ Rank("symbol") = 2 /\ Rank("decimals") = 3
    /\ Rank("not_initialized") = 4 /\ Rank("package_hash") = 5 /\ Rank("new_dictionaries") = 6
    /\ Rank("total_supply") = 7 /\ Rank("write_initial_balance") = 8
    /\ Rank("write_installer_badge") = 9 /\ Rank("events_mode") = 10 /\ Rank("enabled") = 11
    /\ Rank("sec_check") = 12 /\ Rank("admin_list") = 13 /\ Rank("minter_list") = 14
    /\ Rank("none_list") = 15 /\ Rank("init_events") = 16 /\ Rank("write_minters") = 17
    /\ Rank("write_admins") = 18 /\ Rank("change_sec_badge") = 19
    /\ Rank("enable_mint_burn") = 20 /\ Rank("new_contract") = 21 /\ Rank("token_contract") = 22
    /\ Rank("address") = 23 /\ Rank("recipient") = 25 /\ Rank("spender") = 25 /\ Rank("owner") = 25
    /\ Rank("owner_is_not_spender") = 26 /\ Rank("sender_is_not_recipient") = 26
    /\ Rank("owner_is_caller") = 26 /\ Rank("amount") = 27 /\ Rank("return_if_zero") = 28
    /\ Rank("new_allowance") = 29 /\ Rank("transfer_balance") = 30
    /\ Rank("new_sender_balance") = 31 /\ Rank("new_recipient_balance") = 32
    /\ Rank("new_supply") = 33 /\ Rank("write_sender_balance") = 34
    /\ Rank("write_recipient_balance") = 35 /\ Rank("write_allowance") = 36
    /\ Rank("write_supply") = 37 /\ Rank("call_contract") = 38 /\ Rank("record_event") = 39
    /\ Rank("ret") = 40 /\ Rank("store_result") = 41
BY DEF Rank

LEMMA RankNat == \A x \in Step : Rank(x) \in Nat
<1>1. ASSUME NEW x \in Arguments PROVE Rank(x) \in Nat
  BY RankTable DEF Arguments
<1>2. ASSUME NEW x \in Step \ Arguments PROVE Rank(x) \in Nat
  BY RankTable DEF Step
<1>3. QED
  BY <1>1, <1>2

Ordered(s) == \A i, j \in DOMAIN s : i < j => s[i] # s[j] /\ Rank(s[i]) <= Rank(s[j])

\* At the head of an ordered list, and after it.
LEMMA TailTodo ==
  ASSUME NEW s \in Seq(Step), Ordered(s), s # <<>>
  PROVE  /\ Tail(s) \in Seq(Step) /\ Ordered(Tail(s))
         /\ Elements(Tail(s)) = Elements(s) \ {Head(s)}
         /\ Head(s) \in Elements(s)
         /\ \A y \in Elements(s) : Rank(Head(s)) <= Rank(y)
<1>1. /\ Len(s) \in Nat \ {0} /\ DOMAIN s = 1..Len(s) /\ Head(s) = s[1]
      /\ Tail(s) \in Seq(Step) /\ Len(Tail(s)) = Len(s) - 1
      /\ \A i \in 1..Len(Tail(s)) : Tail(s)[i] = s[i + 1]
      /\ \A i \in 1..Len(s) : s[i] \in Step
  BY HeadTailProperties, LenProperties, EmptySeq, ElementOfSeq
<1>2. DOMAIN Tail(s) = 1..(Len(s) - 1)
  BY <1>1, LenProperties
<1>3. Ordered(Tail(s))
  BY <1>1, <1>2 DEF Ordered
<1>4. \A i \in 2..Len(s) : i - 1 \in DOMAIN Tail(s) /\ Tail(s)[i - 1] = s[i]
  BY <1>1, <1>2
<1>5. \A i \in 2..Len(s) : s[i] # s[1] /\ Rank(s[1]) <= Rank(s[i])
  BY <1>1 DEF Ordered
<1>6. \A i \in 1..Len(s) : i = 1 \/ i \in 2..Len(s)
  BY <1>1
<1>7. Elements(Tail(s)) = Elements(s) \ {s[1]}
  <2>1. ASSUME NEW y \in Elements(Tail(s)) PROVE y \in Elements(s) \ {s[1]}
    <3>1. PICK i \in 1..(Len(s) - 1) : y = Tail(s)[i]
      BY <1>2 DEF Elements
    <3>2. i + 1 \in 2..Len(s) /\ i + 1 \in DOMAIN s /\ y = s[i + 1]
      BY <1>1, <3>1
    <3>3. QED
      BY <1>5, <3>2 DEF Elements
  <2>2. ASSUME NEW y \in Elements(s), y # s[1] PROVE y \in Elements(Tail(s))
    <3>1. PICK i \in 1..Len(s) : y = s[i]
      BY <1>1 DEF Elements
    <3>2. i \in 2..Len(s)
      BY <1>6, <2>2, <3>1
    <3>3. QED
      BY <1>4, <3>1, <3>2 DEF Elements
  <2>3. QED
    BY <2>1, <2>2
<1>8. Rank(s[1]) <= Rank(s[1])
  <2>1. 1 \in 1..Len(s)
    BY <1>1
  <2>2. Rank(s[1]) \in Nat
    BY <1>1, <2>1, RankNat
  <2>3. QED
    BY <2>2
<1>9. \A y \in Elements(s) : Rank(s[1]) <= Rank(y)
  <2>1. ASSUME NEW i \in 1..Len(s) PROVE Rank(s[1]) <= Rank(s[i])
    BY <1>5, <1>6, <1>8
  <2>2. QED
    BY <1>1, <2>1 DEF Elements
<1>10. s[1] \in Elements(s)
  <2>1. 1 \in DOMAIN s
    BY <1>1
  <2>2. QED
    BY <2>1 DEF Elements
<1>11. QED
  BY <1>1, <1>3, <1>7, <1>9, <1>10

LEMMA ConcatTodo ==
  ASSUME NEW p \in Seq(Step), NEW q \in Seq(Step), Ordered(p), Ordered(q),
         \A x \in Elements(p), y \in Elements(q) : x # y /\ Rank(x) <= Rank(y)
  PROVE  /\ p \o q \in Seq(Step) /\ Ordered(p \o q)
         /\ Elements(p \o q) = Elements(p) \cup Elements(q)
<1> DEFINE s == p \o q
           m == Len(p)
           n == Len(q)
<1>1. /\ m \in Nat /\ n \in Nat /\ DOMAIN p = 1..m /\ DOMAIN q = 1..n
  BY LenProperties
<1>2. s \in Seq(Step) /\ Len(s) = m + n
  BY ConcatProperties
<1>3. DOMAIN s = 1..(m + n)
  BY <1>2, LenProperties
<1>4. /\ \A i \in 1..m : s[i] = p[i]
      /\ \A i \in (m + 1)..(m + n) : s[i] = q[i - m] /\ i - m \in 1..n
  BY <1>1, ConcatProperties
<1>5. \A i \in 1..(m + n) : i \in 1..m \/ i \in (m + 1)..(m + n)
  BY <1>1
<1>6. \A i \in 1..n : i + m \in (m + 1)..(m + n) /\ (i + m) - m = i /\ s[i + m] = q[i]
  <2>1. ASSUME NEW i \in 1..n PROVE i + m \in (m + 1)..(m + n) /\ (i + m) - m = i
    BY <1>1
  <2> HIDE DEF s, m, n
  <2>2. QED
    BY <1>4, <2>1
<1> HIDE DEF s, m, n
<1>7. ASSUME NEW i \in 1..(m + n), NEW j \in 1..(m + n), i < j
      PROVE  s[i] # s[j] /\ Rank(s[i]) <= Rank(s[j])
  <2>1. CASE j \in 1..m
    <3>1. i \in 1..m
      BY <1>1, <1>7, <2>1
    <3>2. QED
      BY <1>1, <1>4, <1>7, <2>1, <3>1 DEF Ordered
  <2>2. CASE i \in 1..m /\ j \in (m + 1)..(m + n)
    <3>1. s[i] \in Elements(p) /\ s[j] \in Elements(q)
      BY <1>1, <1>4, <2>2 DEF Elements
    <3>2. QED
      BY <3>1
  <2>3. CASE i \in (m + 1)..(m + n) /\ j \in (m + 1)..(m + n)
    <3>1. i - m < j - m
      BY <1>1, <1>7, <2>3
    <3>2. /\ i - m \in DOMAIN q /\ s[i] = q[i - m]
          /\ j - m \in DOMAIN q /\ s[j] = q[j - m]
      BY <1>1, <1>4, <2>3
    <3>3. QED
      BY <3>1, <3>2 DEF Ordered
  <2>4. i \in 1..m \/ i \in (m + 1)..(m + n)
    BY <1>5
  <2>5. j \in 1..m \/ j \in (m + 1)..(m + n)
    BY <1>5
  <2>6. i \in (m + 1)..(m + n) => j \in (m + 1)..(m + n)
    BY <1>1, <1>7
  <2>7. QED
    BY <2>1, <2>2, <2>3, <2>4, <2>5, <2>6
<1>8. Ordered(s)
  BY <1>3, <1>7 DEF Ordered
<1>9. Elements(s) = Elements(p) \cup Elements(q)
  <2>1. Elements(s) \subseteq Elements(p) \cup Elements(q)
    BY <1>1, <1>3, <1>4, <1>5 DEF Elements
  <2>2. Elements(p) \subseteq Elements(s)
    <3>1. \A i \in 1..m : i \in 1..(m + n)
      BY <1>1
    <3>2. QED
      BY <1>1, <1>3, <1>4, <3>1 DEF Elements
  <2>3. Elements(q) \subseteq Elements(s)
    <3>1. \A i \in 1..n : i + m \in 1..(m + n)
      BY <1>1
    <3>2. ASSUME NEW i \in 1..n PROVE q[i] \in Elements(s)
      <4>1. s[i + m] = q[i] /\ i + m \in DOMAIN s
        BY <1>3, <1>6, <3>1
      <4>2. QED
        BY <4>1 DEF Elements
    <3>3. QED
      BY <1>1, <3>2 DEF Elements
  <2>4. QED
    BY <2>1, <2>2, <2>3
<1>10. QED
  BY <1>2, <1>8, <1>9 DEF s

-----------------------------------------------------------------------------
(***************************************************************************)
(* The programs                                                            *)
(***************************************************************************)
\* All steps a call of an entry point may make, those of transfer_balance included.
Own(e) == Elements(Program[e])
          \cup (IF e \in {"transfer", "transfer_from"} THEN Elements(transfer_balance) ELSE {})

EntryPoint == {"total_supply", "balance_of", "allowance", "approve", "decrease_allowance",
               "increase_allowance", "transfer", "transfer_from", "mint", "burn",
               "change_security", "init", "call", "check_total_supply", "check_balance_of",
               "check_allowance_of", "transfer_as_stored_contract",
               "approve_as_stored_contract", "transfer_from_as_stored_contract"}

LEMMA TransferBalanceSteps ==
    /\ transfer_balance \in Seq(Step) /\ Ordered(transfer_balance)
    /\ Elements(transfer_balance) = {"new_sender_balance", "new_recipient_balance",
                                     "write_sender_balance", "write_recipient_balance"}
<1>1. Ordered(transfer_balance)
  BY RankTable DEF Ordered, transfer_balance
<1>2. transfer_balance \in Seq(Step)
  BY DEF Step, Arguments, transfer_balance
<1>3. QED
  BY <1>1, <1>2 DEF Elements, transfer_balance

LEMMA ProgramSteps == \A e \in EntryPoint : Program[e] \in Seq(Step) /\ Ordered(Program[e])
<1>1. /\ total_supply \in Seq(Step)
      /\ balance_of \in Seq(Step)
      /\ allowance \in Seq(Step)
      /\ approve \in Seq(Step)
      /\ decrease_allowance \in Seq(Step)
      /\ increase_allowance \in Seq(Step)
      /\ transfer \in Seq(Step)
      /\ transfer_from \in Seq(Step)
      /\ mint \in Seq(Step)
      /\ burn \in Seq(Step)
      /\ change_security \in Seq(Step)
      /\ init \in Seq(Step)
      /\ install_contract \in Seq(Step)
      /\ check_total_supply \in Seq(Step)
      /\ check_balance_of \in Seq(Step)
      /\ check_allowance_of \in Seq(Step)
      /\ transfer_as_stored_contract \in Seq(Step)
      /\ approve_as_stored_contract \in Seq(Step)
      /\ transfer_from_as_stored_contract \in Seq(Step)
  BY DEF Step, Arguments, total_supply, balance_of, allowance, approve, decrease_allowance,
         increase_allowance, transfer, transfer_from, mint, burn, change_security, init,
         install_contract, check_total_supply, check_balance_of, check_allowance_of,
         transfer_as_stored_contract, approve_as_stored_contract,
         transfer_from_as_stored_contract
<1>2. Ordered(total_supply) /\ Ordered(balance_of) /\ Ordered(allowance)
  BY RankTable DEF Ordered, total_supply, balance_of, allowance
<1>3. Ordered(approve) /\ Ordered(decrease_allowance) /\ Ordered(increase_allowance)
  BY RankTable DEF Ordered, approve, decrease_allowance, increase_allowance
<1>4. Ordered(transfer)
  BY RankTable DEF Ordered, transfer
<1>5. Ordered(transfer_from)
  BY RankTable DEF Ordered, transfer_from
<1>6. Ordered(mint)
  BY RankTable DEF Ordered, mint
<1>7. Ordered(burn)
  BY RankTable DEF Ordered, burn
<1>8. Ordered(change_security)
  BY RankTable DEF Ordered, change_security
<1>9. Ordered(init)
  BY RankTable DEF Ordered, init
<1>10. Ordered(install_contract)
  BY RankTable DEF Ordered, install_contract
<1>11. Ordered(check_total_supply) /\ Ordered(check_balance_of) /\ Ordered(check_allowance_of)
  BY RankTable DEF Ordered, check_total_supply, check_balance_of, check_allowance_of
<1>12. Ordered(transfer_as_stored_contract) /\ Ordered(approve_as_stored_contract)
  BY RankTable DEF Ordered, transfer_as_stored_contract, approve_as_stored_contract
<1>13. Ordered(transfer_from_as_stored_contract)
  BY RankTable DEF Ordered, transfer_from_as_stored_contract
<1>14. /\ Program["total_supply"] = total_supply
       /\ Program["balance_of"] = balance_of
       /\ Program["allowance"] = allowance
       /\ Program["approve"] = approve
       /\ Program["decrease_allowance"] = decrease_allowance
       /\ Program["increase_allowance"] = increase_allowance
       /\ Program["transfer"] = transfer
       /\ Program["transfer_from"] = transfer_from
       /\ Program["mint"] = mint
       /\ Program["burn"] = burn
       /\ Program["change_security"] = change_security
       /\ Program["init"] = init
       /\ Program["call"] = install_contract
       /\ Program["check_total_supply"] = check_total_supply
       /\ Program["check_balance_of"] = check_balance_of
       /\ Program["check_allowance_of"] = check_allowance_of
       /\ Program["transfer_as_stored_contract"] = transfer_as_stored_contract
       /\ Program["approve_as_stored_contract"] = approve_as_stored_contract
       /\ Program["transfer_from_as_stored_contract"] = transfer_from_as_stored_contract
  BY DEF Program
<1>15. QED
  BY <1>1, <1>2, <1>3, <1>4, <1>5, <1>6, <1>7,
     <1>8, <1>9, <1>10, <1>11, <1>12, <1>13, <1>14 DEF EntryPoint

LEMMA OwnSteps ==
    /\ Own("total_supply") = {"ret"}
    /\ Own("balance_of") = {"address", "ret"}
    /\ Own("allowance") = {"spender", "owner", "ret"}
    /\ \A e \in {"approve", "decrease_allowance", "increase_allowance"} :
          Own(e) = {"spender", "owner_is_not_spender", "amount", "new_allowance",
                    "write_allowance", "record_event"}
    /\ Own("transfer") = {"recipient", "sender_is_not_recipient", "amount", "transfer_balance",
                          "new_sender_balance", "new_recipient_balance",
                          "write_sender_balance", "write_recipient_balance", "record_event"}
    /\ Own("transfer_from") =
          {"recipient", "owner", "sender_is_not_recipient", "amount", "return_if_zero",
           "new_allowance", "transfer_balance", "new_sender_balance",
           "new_recipient_balance", "write_sender_balance", "write_recipient_balance",
           "write_allowance", "record_event"}
    /\ Own("mint") = {"enabled", "sec_check", "owner", "amount", "new_recipient_balance",
                      "new_supply", "write_recipient_balance", "write_supply", "record_event"}
    /\ Own("burn") = {"enabled", "owner", "owner_is_caller", "amount", "new_sender_balance",
                      "new_supply", "write_sender_balance", "write_supply", "record_event"}
    /\ Own("change_security") = {"enabled", "sec_check", "admin_list", "minter_list",
                                 "none_list", "change_sec_badge", "record_event"}
    /\ Own("init") = {"not_initialized", "package_hash", "new_dictionaries", "total_supply",
                      "write_initial_balance", "write_installer_badge", "admin_list",
                      "minter_list", "init_events", "write_minters", "write_admins",
                      "record_event"}
    /\ Own("call") = {"name", "symbol", "decimals", "total_supply", "events_mode", "admin_list",
                      "minter_list", "enable_mint_burn", "new_contract", "call_contract"}
    /\ Own("check_total_supply") = {"token_contract", "call_contract", "store_result"}
    /\ Own("check_balance_of") = {"token_contract", "address", "call_contract", "store_result"}
    /\ Own("check_allowance_of") = {"token_contract", "owner", "spender", "call_contract",
                                    "store_result"}
    /\ Own("transfer_as_stored_contract") = {"token_contract", "recipient", "amount",
                                             "call_contract"}
    /\ Own("approve_as_stored_contract") = {"token_contract", "spender", "amount",
                                            "call_contract"}
    /\ Own("transfer_from_as_stored_contract") = {"token_contract", "owner", "recipient",
                                                  "amount", "call_contract"}
<1>1. /\ Own("total_supply") = {"ret"}
      /\ Own("balance_of") = {"address", "ret"}
      /\ Own("allowance") = {"spender", "owner", "ret"}
      /\ \A e \in {"approve", "decrease_allowance", "increase_allowance"} :
            Own(e) = {"spender", "owner_is_not_spender", "amount", "new_allowance",
                      "write_allowance", "record_event"}
  BY DEF Own, Elements, Program, total_supply, balance_of, allowance, approve, decrease_allowance,
         increase_allowance
<1>2. /\ Own("transfer") = {"recipient", "sender_is_not_recipient", "amount", "transfer_balance",
                            "new_sender_balance", "new_recipient_balance",
                            "write_sender_balance", "write_recipient_balance", "record_event"}
      /\ Own("transfer_from") =
            {"recipient", "owner", "sender_is_not_recipient", "amount", "return_if_zero",
             "new_allowance", "transfer_balance", "new_sender_balance",
             "new_recipient_balance", "write_sender_balance", "write_recipient_balance",
             "write_allowance", "record_event"}
  BY DEF Own, Elements, Program, transfer, transfer_from, transfer_balance
<1>3. /\ Own("mint") = {"enabled", "sec_check", "owner", "amount", "new_recipient_balance",
                        "new_supply", "write_recipient_balance", "write_supply", "record_event"}
      /\ Own("burn") = {"enabled", "owner", "owner_is_caller", "amount", "new_sender_balance",
                        "new_supply", "write_sender_balance", "write_supply", "record_event"}
      /\ Own("change_security") = {"enabled", "sec_check", "admin_list", "minter_list",
                                   "none_list", "change_sec_badge", "record_event"}
  BY DEF Own, Elements, Program, mint, burn, change_security
<1>4. /\ Own("init") = {"not_initialized", "package_hash", "new_dictionaries", "total_supply",
                        "write_initial_balance", "write_installer_badge", "admin_list",
                        "minter_list", "init_events", "write_minters", "write_admins",
                        "record_event"}
      /\ Own("call") = {"name", "symbol", "decimals", "total_supply", "events_mode", "admin_list",
                        "minter_list", "enable_mint_burn", "new_contract", "call_contract"}
  BY DEF Own, Elements, Program, init, install_contract
<1>5. /\ Own("check_total_supply") = {"token_contract", "call_contract", "store_result"}
      /\ Own("check_balance_of") = {"token_contract", "address", "call_contract", "store_result"}
      /\ Own("check_allowance_of") = {"token_contract", "owner", "spender", "call_contract",
                                      "store_result"}
      /\ Own("transfer_as_stored_contract") = {"token_contract", "recipient", "amount",
                                               "call_contract"}
      /\ Own("approve_as_stored_contract") = {"token_contract", "spender", "amount",
                                              "call_contract"}
      /\ Own("transfer_from_as_stored_contract") = {"token_contract", "owner", "recipient",
                                                    "amount", "call_contract"}
  BY DEF Own, Elements, Program, check_total_supply, check_balance_of, check_allowance_of,
         transfer_as_stored_contract, approve_as_stored_contract,
         transfer_from_as_stored_contract
<1>6. QED
  BY <1>1, <1>2, <1>3, <1>4, <1>5

LEMMA EntryPoints == DOMAIN Program = EntryPoint
BY DEF Program, EntryPoint

LEMMA ProgramOwn == \A e \in EntryPoint : Elements(Program[e]) \subseteq Own(e)
BY DEF Own

LEMMA CallTable ==
    /\ DOMAIN Calls = {"call", "check_total_supply", "check_balance_of", "check_allowance_of",
                       "transfer_as_stored_contract", "approve_as_stored_contract",
                       "transfer_from_as_stored_contract"}
    /\ Calls["call"].callee = "init"
    /\ Calls["check_total_supply"].callee = "total_supply"
    /\ Calls["check_balance_of"].callee = "balance_of"
    /\ Calls["check_allowance_of"].callee = "allowance"
    /\ Calls["transfer_as_stored_contract"].callee = "transfer"
    /\ Calls["approve_as_stored_contract"].callee = "approve"
    /\ Calls["transfer_from_as_stored_contract"].callee = "transfer_from"
    /\ Calls["call"].passes = {"total_supply", "package_hash", "admin_list", "minter_list"}
    /\ Calls["check_total_supply"].passes = {}
    /\ Calls["check_balance_of"].passes = {"address"}
    /\ Calls["check_allowance_of"].passes = {"owner", "spender"}
    /\ Calls["transfer_as_stored_contract"].passes = {"recipient", "amount"}
    /\ Calls["approve_as_stored_contract"].passes = {"spender", "amount"}
    /\ Calls["transfer_from_as_stored_contract"].passes = {"owner", "recipient", "amount"}
BY DEF Calls

-----------------------------------------------------------------------------
(***************************************************************************)
(* Where a deploy stands                                                   *)
(***************************************************************************)
Todo == Elements(run.steps)

Fields == {"deployed", "entry_point", "source", "stack", "args", "outer", "sought", "steps", "new",
           "event"}

\* What a caller still does when the token has returned to it.
After(d) == IF d \in {"check_total_supply", "check_balance_of", "check_allowance_of"}
            THEN {"store_result"} ELSE {}

StackOf(e) == IF e = "call" THEN {<<Session(a)>> : a \in Account}
              ELSE IF e \in TestEntryPoint
              THEN {<<Session(a), StoredContract(Relay)>> : a \in Account}
              ELSE CallStack

\* Which entry point runs, for whom, and what it may still do.
Control ==
    /\ DOMAIN run = Fields
    /\ run.deployed \in EntryPoint /\ run.entry_point \in EntryPoint
    /\ \/ run.entry_point = run.deployed /\ run.source \in {"session", "client"}
       \/ /\ run.source = "contract" /\ run.deployed \in DOMAIN Calls
          /\ run.entry_point = Calls[run.deployed].callee
    /\ run.source = "client" => run.entry_point \in DOMAIN ClientPasses
    /\ run.stack \in StackOf(run.entry_point)
    /\ run.steps \in Seq(Step) /\ Ordered(run.steps)
    /\ Todo \subseteq Own(run.entry_point)
                      \cup (IF run.source = "contract" THEN After(run.deployed) ELSE {})
    /\ "transfer_balance" \in Todo => Todo \cap Elements(transfer_balance) = {}
    /\ run.entry_point \in DOMAIN Calls =>
          {"call_contract"} \cup After(run.entry_point) \subseteq Todo
    /\ ledger.initialized <=> run.deployed # "call"

ControlInv == run # Idle => Control

LEMMA IdleFields == DOMAIN Idle # Fields
BY DEF Idle, Fields

LEMMA Running == Control => run # Idle
BY IdleFields DEF Control

LEMMA StartControl ==
  ASSUME NEW account \in Account, NEW source \in {"session", "client"}, NEW e \in Called,
         Start(account, source, e)
  PROVE  Control'
<1>1. e \in EntryPoint
  BY CalledAssumption, EntryPoints
<1>2. /\ run'.deployed = e /\ run'.entry_point = e /\ run'.source = source
      /\ run'.steps = Program[e] /\ DOMAIN run' = Fields /\ ledger' = ledger
      /\ ledger.initialized <=> e # "call"
      /\ source = "client" => e \in DOMAIN ClientPasses
      /\ run'.stack = CASE e = "call" -> <<Session(account)>>
                        [] e \in TestEntryPoint ->
                             <<Session(account), StoredContract(Relay)>>
                        [] OTHER -> <<Session(account), StoredContract(Token)>>
  BY DEF Start, Fields
<1>3. run'.stack \in StackOf(e)
  <2>1. CASE e = "call"
    BY <1>2, <2>1 DEF StackOf, TestEntryPoint
  <2>2. CASE e \in TestEntryPoint
    BY <1>2, <2>2 DEF StackOf, TestEntryPoint
  <2>3. CASE e # "call" /\ e \notin TestEntryPoint
    BY <1>2, <2>3 DEF StackOf, CallStack
  <2>4. QED
    BY <2>1, <2>2, <2>3
<1>4. Todo' = Elements(Program[e])
  BY <1>2 DEF Todo
<1>5. "transfer_balance" \in Elements(Program[e]) =>
        Elements(Program[e]) \cap Elements(transfer_balance) = {}
  <2>1. /\ Elements(Program["transfer"]) \cap Elements(transfer_balance) = {}
        /\ Elements(Program["transfer_from"]) \cap Elements(transfer_balance) = {}
    BY DEF Elements, Program, transfer, transfer_from, transfer_balance
  <2>2. e \notin {"transfer", "transfer_from"} => "transfer_balance" \notin Own(e)
    BY <1>1, OwnSteps DEF EntryPoint
  <2>3. QED
    BY <1>1, <2>1, <2>2, ProgramOwn
<1>6. e \in DOMAIN Calls => {"call_contract"} \cup After(e) \subseteq Elements(Program[e])
  <2>1. e \in DOMAIN Calls => {"call_contract"} \cup After(e) \subseteq Own(e)
    BY OwnSteps, CallTable DEF After
  <2>2. e \in DOMAIN Calls => Own(e) = Elements(Program[e])
    BY CallTable DEF Own
  <2>3. QED
    BY <2>1, <2>2
<1>7. QED
  BY <1>1, <1>2, <1>3, <1>4, <1>5, <1>6, ProgramSteps, ProgramOwn, Zenon DEF Control

(***************************************************************************)
(* How a step moves a deploy on                                            *)
(***************************************************************************)
\* The entry point, the caller and the arguments asked for by whom stay.
Kept ==
    /\ DOMAIN run' = Fields
    /\ run'.deployed = run.deployed /\ run'.entry_point = run.entry_point
    /\ run'.source = run.source /\ run'.stack = run.stack /\ run'.outer = run.outer

\* One step done.
Popped == Kept /\ run.steps # <<>> /\ run'.steps = Tail(run.steps)

LEMMA ProceedFields ==
  ASSUME Control, run.steps # <<>>, Proceed
  PROVE  /\ Popped
         /\ run'.args = run.args /\ run'.sought = run.sought /\ run'.new = run.new
         /\ run'.event = run.event
         /\ ledger' = ledger /\ copy' = copy /\ deploy' = deploy
BY DEF Control, Fields, Proceed, Popped, Kept

LEMMA ComputeFields ==
  ASSUME Control, run.steps # <<>>, NEW name, NEW value, Compute(name, value)
  PROVE  /\ Popped
         /\ run'.args = run.args /\ run'.sought = run.sought /\ run'.event = run.event
         /\ run'.new = Bind(name, value, run.new)
         /\ ledger' = ledger /\ copy' = copy /\ deploy' = deploy
BY DEF Control, Fields, Compute, Popped, Kept

LEMMA WriteFields ==
  ASSUME Control, run.steps # <<>>, NEW new_copy, Write(new_copy)
  PROVE  /\ Popped
         /\ run'.args = run.args /\ run'.sought = run.sought /\ run'.new = run.new
         /\ run'.event = run.event
         /\ ledger' = ledger /\ copy' = new_copy /\ deploy' = deploy
BY DEF Control, Fields, Write, Popped, Kept

LEMMA SoughtFields ==
  ASSUME Control, run.steps # <<>>, NEW name, NEW args, Sought(name, args)
  PROVE  /\ Popped
         /\ run'.args = args /\ run'.sought = run.sought \cup {name} /\ run'.new = run.new
         /\ run'.event = run.event
         /\ ledger' = ledger /\ copy' = copy /\ deploy' = deploy
BY DEF Control, Fields, Sought, Popped, Kept

LEMMA NewContractFields ==
  ASSUME Control, new_contract
  PROVE  /\ Popped
         /\ run'.args = Bind("package_hash", Token, run.args) /\ run'.sought = run.sought
         /\ run'.new = run.new /\ run'.event = run.event
         /\ ledger' = ledger /\ deploy' = deploy
BY DEF Control, Fields, new_contract, At, Popped, Kept

LEMMA RecordFields ==
  ASSUME Control, record_event_dictionary, run' # Idle
  PROVE  /\ Popped /\ copy.events_mode \in EventsMode
         /\ run'.args = run.args /\ run'.sought = run.sought /\ run'.new = run.new
         /\ run'.event = Contract!record_event_dictionary(copy.events_mode, EventOf)
         /\ ledger' = ledger /\ copy' = copy /\ deploy' = deploy
BY DEF Control, Fields, record_event_dictionary, At, Popped, Kept, Fail

LEMMA ReturnFields ==
  ASSUME Control, return_if_zero
  PROVE  /\ Kept /\ run'.steps = IF run.args["amount"] = 0 THEN <<>> ELSE Tail(run.steps)
         /\ run'.args = run.args /\ run'.sought = run.sought /\ run'.new = run.new
         /\ run'.event = run.event
         /\ ledger' = ledger /\ copy' = copy /\ deploy' = deploy
BY DEF Control, Fields, return_if_zero, At, Kept

LEMMA TransferFields ==
  ASSUME Control, call_transfer_balance
  PROVE  /\ Kept
         /\ run'.steps = (IF From = To \/ run.args["amount"] = 0
                          THEN <<>> ELSE transfer_balance) \o Tail(run.steps)
         /\ run'.args = run.args /\ run'.sought = run.sought /\ run'.new = run.new
         /\ run'.event = run.event
         /\ ledger' = ledger /\ copy' = copy /\ deploy' = deploy
BY DEF Control, Fields, call_transfer_balance, At, Kept

LEMMA CallFields ==
  ASSUME Control, call_contract
  PROVE  LET call == Calls[run.entry_point]
         IN  /\ DOMAIN run' = Fields
             /\ run'.deployed = run.deployed /\ run'.entry_point = call.callee
             /\ run'.source = "contract" /\ run'.stack = Append(run.stack, StoredContract(Token))
             /\ run'.args = [name \in call.passes \cap DOMAIN run.args |-> run.args[name]]
             /\ run'.outer = run.args /\ run'.sought = {}
             /\ run'.steps = Program[call.callee] \o Tail(run.steps)
             /\ run'.new = run.new /\ run'.event = run.event
             /\ ledger' = ledger /\ copy' = copy /\ deploy' = deploy
BY DEF Control, Fields, call_contract, At

\* The step a deploy is at comes first of those it may still make.
LEMMA HeadTodo ==
  ASSUME Control, run.steps # <<>>
  PROVE  /\ Head(run.steps) \in Todo
         /\ \A y \in Todo : Rank(Head(run.steps)) <= Rank(y)
         /\ Elements(Tail(run.steps)) = Todo \ {Head(run.steps)}
         /\ Tail(run.steps) \in Seq(Step) /\ Ordered(Tail(run.steps))
BY TailTodo DEF Control, Todo

LEMMA PoppedControl ==
  ASSUME Control, Popped, Head(run.steps) # "call_contract", ledger' = ledger
  PROVE  Control' /\ Todo' = Todo \ {Head(run.steps)}
<1>1. Todo' = Todo \ {Head(run.steps)}
  BY HeadTodo DEF Popped, Todo
<1>2. run'.steps \in Seq(Step) /\ Ordered(run'.steps)
  BY HeadTodo DEF Popped
<1>3. /\ Todo' \subseteq Own(run.entry_point)
                         \cup (IF run.source = "contract" THEN After(run.deployed) ELSE {})
      /\ "transfer_balance" \in Todo' => Todo' \cap Elements(transfer_balance) = {}
  BY <1>1 DEF Control
<1>4. run.entry_point \in DOMAIN Calls =>
        {"call_contract"} \cup After(run.entry_point) \subseteq Todo'
  <2>1. "call_contract" \in Todo => Rank(Head(run.steps)) <= Rank("call_contract")
    BY HeadTodo DEF Popped
  <2>2. "call_contract" \in Todo => Head(run.steps) # "store_result"
    BY <2>1, RankTable
  <2>3. QED
    BY <1>1, <2>2 DEF Control, After
<1>5. QED
  BY <1>1, <1>2, <1>3, <1>4, Zenon DEF Popped, Kept, Control

LEMMA EmptySteps == <<>> \in Seq(Step) /\ Ordered(<<>>) /\ Elements(<<>>) = {}
BY EmptySeq DEF Ordered, Elements

LEMMA ReturnControl ==
  ASSUME Control, return_if_zero
  PROVE  Control' /\ Todo' = IF run.args["amount"] = 0 THEN {} ELSE Todo \ {Head(run.steps)}
<1>1. Head(run.steps) = "return_if_zero" /\ run.steps # <<>>
  BY DEF return_if_zero, At
<1>2. CASE run.args["amount"] # 0
  <2>1. Popped /\ ledger' = ledger
    BY <1>1, <1>2, ReturnFields DEF Popped
  <2>2. QED
    BY <1>1, <1>2, <2>1, PoppedControl
<1>3. CASE run.args["amount"] = 0
  <2>1. Kept /\ run'.steps = <<>> /\ ledger' = ledger
    BY <1>3, ReturnFields
  <2>2. Todo' = {}
    BY <2>1, EmptySteps DEF Todo
  <2>3. run.entry_point = "transfer_from"
    BY <1>1, HeadTodo, OwnSteps DEF Control, EntryPoint, After
  <2>4. run.entry_point \notin DOMAIN Calls
    BY <2>3, CallTable
  <2>5. QED
    BY <1>3, <2>1, <2>2, <2>4, EmptySteps, Zenon DEF Control, Kept
<1>4. QED
  BY <1>2, <1>3

LEMMA TransferControl ==
  ASSUME Control, call_transfer_balance
  PROVE  /\ Control'
         /\ Todo' = (Todo \ {"transfer_balance"})
                    \cup (IF From = To \/ run.args["amount"] = 0
                          THEN {} ELSE Elements(transfer_balance))
<1> DEFINE rest  == Tail(run.steps)
           moves == IF From = To \/ run.args["amount"] = 0 THEN <<>> ELSE transfer_balance
<1>1. Head(run.steps) = "transfer_balance" /\ run.steps # <<>>
  BY DEF call_transfer_balance, At
<1>2. Kept /\ run'.steps = moves \o rest /\ ledger' = ledger
  BY TransferFields
<1>3. /\ rest \in Seq(Step) /\ Ordered(rest) /\ Elements(rest) = Todo \ {"transfer_balance"}
      /\ "transfer_balance" \in Todo
  BY <1>1, HeadTodo
<1>0. \A y \in Elements(rest) : Rank("transfer_balance") <= Rank(y)
  BY <1>1, HeadTodo
<1>4. moves \in Seq(Step) /\ Ordered(moves)
  BY EmptySteps, TransferBalanceSteps
<1>5. run.entry_point \in {"transfer", "transfer_from"}
  BY <1>3, OwnSteps DEF Control, EntryPoint, After
<1>6. Elements(rest) \subseteq {"record_event", "write_allowance"}
  <2>1. Elements(rest) \subseteq Own(run.entry_point) \ Elements(transfer_balance)
    BY <1>3, <1>5, CallTable, OwnSteps DEF Control, After
  <2>2. ASSUME NEW y \in {"recipient", "owner", "amount", "sender_is_not_recipient",
                          "return_if_zero", "new_allowance"}
        PROVE  y \notin Elements(rest)
    BY <1>0, RankTable
  <2>3. QED
    BY <1>3, <1>5, <2>1, <2>2, OwnSteps, TransferBalanceSteps
<1>7. \A x \in Elements(moves), y \in Elements(rest) : x # y /\ Rank(x) <= Rank(y)
  <2>1. ASSUME NEW x \in Elements(transfer_balance), NEW y \in {"record_event", "write_allowance"}
        PROVE  x # y /\ Rank(x) <= Rank(y)
    <3>1. x \in {"new_sender_balance", "new_recipient_balance", "write_sender_balance",
                 "write_recipient_balance"}
      BY TransferBalanceSteps
    <3>2. QED
      BY <3>1, RankTable
  <2>2. QED
    BY <1>6, <2>1, EmptySteps
<1>8. /\ moves \o rest \in Seq(Step) /\ Ordered(moves \o rest)
      /\ Elements(moves \o rest) = Elements(moves) \cup Elements(rest)
  BY <1>3, <1>4, <1>7, ConcatTodo
<1>9. Todo' = Elements(moves) \cup (Todo \ {"transfer_balance"})
  BY <1>2, <1>3, <1>8 DEF Todo
<1>10. Elements(moves) = IF From = To \/ run.args["amount"] = 0
                         THEN {} ELSE Elements(transfer_balance)
  BY EmptySteps
<1>11. Elements(moves) \subseteq Own(run.entry_point)
  BY <1>5, <1>10 DEF Own
<1>12. "transfer_balance" \notin Todo'
  BY <1>9, <1>10, TransferBalanceSteps
<1> HIDE DEF moves, rest
<1>13. QED
  <2>1. Todo' \subseteq Own(run.entry_point)
                        \cup (IF run.source = "contract" THEN After(run.deployed) ELSE {})
    BY <1>9, <1>11 DEF Control
  <2>2. run.entry_point \notin DOMAIN Calls
    BY <1>5, CallTable
  <2>4. Control'
    BY <1>2, <1>8, <1>12, <2>1, <2>2, Zenon DEF Control, Kept
  <2>3. QED
    BY <1>9, <1>10, <2>4

LEMMA OneFrameMore ==
  ASSUME NEW x, NEW z
  PROVE  Append(<<x>>, z) = <<x, z>>
<1> DEFINE more == Append(<<x>>, z)
<1>1. /\ <<x>> \in Seq({x, z}) /\ z \in {x, z} /\ Len(<<x>>) = 1
      /\ <<x, z>> \in Seq({x, z}) /\ Len(<<x, z>>) = 2
  OBVIOUS
<1>2. more \in Seq({x, z}) /\ Len(more) = 2 /\ more[1] = x /\ more[2] = z
  BY <1>1, AppendProperties
<1>3. \A i \in 1..2 : more[i] = <<x, z>>[i]
  BY <1>2
<1> HIDE DEF more
<1>4. more = <<x, z>>
  BY <1>1, <1>2, <1>3, SeqEqual
<1>5. QED
  BY <1>4 DEF more

LEMMA TwoFramesMore ==
  ASSUME NEW x, NEW y, NEW z
  PROVE  Append(<<x, y>>, z) = <<x, y, z>>
<1> DEFINE S    == {x, y, z}
           more == Append(<<x, y>>, z)
<1>1. /\ <<x, y>> \in Seq(S) /\ z \in S /\ Len(<<x, y>>) = 2
      /\ <<x, y, z>> \in Seq(S) /\ Len(<<x, y, z>>) = 3
  OBVIOUS
<1>2. more \in Seq(S) /\ Len(more) = 3 /\ more[1] = x /\ more[2] = y /\ more[3] = z
  BY <1>1, AppendProperties
<1>3. \A i \in 1..3 : more[i] = <<x, y, z>>[i]
  BY <1>2
<1> HIDE DEF more, S
<1>4. more = <<x, y, z>>
  BY <1>1, <1>2, <1>3, SeqEqual
<1>5. QED
  BY <1>4 DEF more

\* The steps of the callee come first.
LEMMA CallControl ==
  ASSUME Control, call_contract
  PROVE  /\ Control'
         /\ run.entry_point = run.deployed /\ run.deployed \in DOMAIN Calls
         /\ Todo' = Elements(Program[run'.entry_point]) \cup After(run.deployed)
<1> DEFINE e      == run.entry_point
           callee == Calls[e].callee
           rest   == Tail(run.steps)
<1>1. Head(run.steps) = "call_contract" /\ run.steps # <<>>
  BY DEF call_contract, At
<1>2. /\ DOMAIN run' = Fields /\ run'.deployed = run.deployed /\ run'.entry_point = callee
      /\ run'.source = "contract" /\ run'.stack = Append(run.stack, StoredContract(Token))
      /\ run'.steps = Program[callee] \o rest /\ ledger' = ledger
  BY CallFields
<1>3. /\ rest \in Seq(Step) /\ Ordered(rest) /\ Elements(rest) = Todo \ {"call_contract"}
      /\ "call_contract" \in Todo
  BY <1>1, HeadTodo
<1>9. \A y \in Elements(rest) : Rank("call_contract") <= Rank(y)
  BY <1>1, HeadTodo
<1>4. e \in DOMAIN Calls /\ run.source # "contract" /\ run.deployed = e
  <2>1. "call_contract" \in Own(e)
    BY <1>3 DEF Control, After
  <2>2. e \in DOMAIN Calls
    BY <2>1, OwnSteps, CallTable DEF Control, EntryPoint
  <2>3. \A d \in DOMAIN Calls : Calls[d].callee \notin DOMAIN Calls
    BY CallTable
  <2>4. QED
    BY <2>2, <2>3 DEF Control
<1>5. Elements(rest) \subseteq After(e)
  <2>1. Elements(rest) \subseteq Own(e) \ {"call_contract"}
    BY <1>3, <1>4 DEF Control
  <2>2. Elements(rest) \subseteq {"store_result"}
    <3>1. ASSUME NEW y \in Arguments \cup {"new_contract"} PROVE y \notin Elements(rest)
      BY <1>9, RankTable DEF Arguments
    <3>2. Own(e) \subseteq Arguments \cup {"new_contract", "call_contract", "store_result"}
      BY <1>4, OwnSteps, CallTable DEF Arguments
    <3>3. QED
      BY <2>1, <3>1, <3>2
  <2>3. "store_result" \in Own(e) => e \in {"check_total_supply", "check_balance_of",
                                               "check_allowance_of"}
    BY <1>4, OwnSteps, CallTable
  <2>4. QED
    BY <2>1, <2>2, <2>3 DEF After
<1>6. callee \in EntryPoint /\ callee \notin TestEntryPoint /\ callee # "call"
  BY <1>4, CallTable DEF EntryPoint, TestEntryPoint
<1>7. \A x \in Elements(Program[callee]), y \in Elements(rest) : x # y /\ Rank(x) <= Rank(y)
  <2>1. "store_result" \notin Own(callee)
    BY <1>4, OwnSteps, CallTable
  <2>2. \A x \in Step : Rank(x) <= Rank("store_result")
    BY RankTable DEF Step, Arguments
  <2>3. Elements(Program[callee]) \subseteq Step
    BY <1>6, ProgramSteps DEF Elements
  <2>4. \A y \in Elements(rest) : y = "store_result"
    BY <1>5 DEF After
  <2>5. QED
    BY <1>6, <2>1, <2>2, <2>3, <2>4, ProgramOwn
<1>8. /\ Program[callee] \o rest \in Seq(Step) /\ Ordered(Program[callee] \o rest)
      /\ Elements(Program[callee] \o rest) = Elements(Program[callee]) \cup Elements(rest)
  BY <1>3, <1>6, <1>7, ProgramSteps, ConcatTodo
<1>10. Todo' = Elements(Program[callee]) \cup Elements(rest)
  BY <1>2, <1>8 DEF Todo
<1>11. Elements(rest) = After(e)
  BY <1>3, <1>4, <1>5 DEF Control, After
<1>12. run'.stack \in StackOf(callee)
  <2>1. CASE e = "call"
    <3>1. PICK a \in Account : run.stack = <<Session(a)>>
      BY <2>1 DEF Control, StackOf
    <3>2. run'.stack = <<Session(a), StoredContract(Token)>>
      BY <1>2, <3>1, OneFrameMore, Zenon
    <3>3. QED
      BY <1>6, <3>2 DEF StackOf, CallStack
  <2>2. CASE e \in TestEntryPoint
    <3>1. PICK a \in Account : run.stack = <<Session(a), StoredContract(Relay)>>
      BY <2>2 DEF Control, StackOf, TestEntryPoint
    <3>2. run'.stack = <<Session(a), StoredContract(Relay), StoredContract(Token)>>
      BY <1>2, <3>1, TwoFramesMore, Zenon
    <3>3. QED
      BY <1>6, <3>2, ExecutionAssumption DEF StackOf, CallStack
  <2>3. QED
    BY <1>4, <2>1, <2>2 DEF TestEntryPoint
<1>13. callee \notin DOMAIN Calls
  BY <1>6 DEF TestEntryPoint
<1>14. "transfer_balance" \in Todo' => Todo' \cap Elements(transfer_balance) = {}
  <2>1. /\ Elements(Program["transfer"]) \cap Elements(transfer_balance) = {}
        /\ Elements(Program["transfer_from"]) \cap Elements(transfer_balance) = {}
    BY DEF Elements, Program, transfer, transfer_from, transfer_balance
  <2>2. "transfer_balance" \in Own(callee) => callee \in {"transfer", "transfer_from"}
    BY <1>4, OwnSteps, CallTable
  <2>3. "store_result" \notin Elements(transfer_balance)
    BY TransferBalanceSteps
  <2>4. QED
    BY <1>6, <1>10, <1>11, <2>1, <2>2, <2>3, ProgramOwn DEF After
<1>15. Todo' \subseteq Own(callee) \cup After(e)
  BY <1>6, <1>10, <1>11, ProgramOwn
<1> HIDE DEF rest, callee
<1>16. Control'
  <2>1. run.deployed = e /\ run.deployed \in EntryPoint /\ (ledger.initialized <=> run.deployed # "call")
    BY <1>4 DEF Control
  <2>2. callee = Calls[run.deployed].callee
    BY <1>4 DEF callee
  <2>3. QED
    BY <1>2, <1>4, <1>6, <1>8, <1>12, <1>13, <1>14, <1>15, <2>1, <2>2, Zenon DEF Control
<1>17. QED
  BY <1>2, <1>4, <1>10, <1>11, <1>16

(***************************************************************************)
(* The steps, told apart                                                   *)
(***************************************************************************)
\* The disjuncts of Next that a running deploy can take without ending, one by one.
Asks == \E name \in ArgumentName : get_named_arg(name)

Computes == new_allowance \/ new_sender_balance \/ new_recipient_balance \/ new_total_supply \/ ret

Writes == write_allowance_to \/ write_balance_to \/ write_total_supply_to \/ change_sec_badge
          \/ init_writes \/ store_result

LEMMA Kinds ==
  ASSUME Next, run # Idle
  PROVE  Commit \/ OutOfGas \/ Asks \/ Checks \/ Computes \/ Writes \/ new_contract
         \/ record_event_dictionary \/ return_if_zero \/ call_transfer_balance \/ call_contract
BY DEF Next, Start, Asks, Computes, Writes

LEMMA FailEnds == ASSUME NEW error, Fail(error)
                  PROVE  run' = Idle /\ ledger' = ledger /\ copy' = ledger
BY DEF Fail

LEMMA AskPops ==
  ASSUME Control, Asks, run' # Idle
  PROVE  Popped /\ Head(run.steps) \in ArgumentName /\ ledger' = ledger /\ copy' = copy
<1>1. PICK name \in ArgumentName : get_named_arg(name)
  BY DEF Asks
<1>2. run.steps # <<>> /\ Head(run.steps) = name
  BY <1>1 DEF get_named_arg, At
<1>3. PICK args : Sought(name, args)
  BY <1>1, FailEnds DEF get_named_arg
<1>4. QED
  BY <1>2, <1>3, SoughtFields

LEMMA CheckPops ==
  ASSUME Control, Checks, run' # Idle
  PROVE  /\ Popped
         /\ Head(run.steps) \in {"owner_is_not_spender", "sender_is_not_recipient",
                "owner_is_caller", "enabled", "not_initialized", "sec_check", "init_events"}
         /\ ledger' = ledger /\ copy' = copy
         /\ run'.args = run.args /\ run'.sought = run.sought /\ run'.new = run.new
         /\ run'.event = run.event
<1>1. /\ run.steps # <<>>
      /\ Head(run.steps) \in {"owner_is_not_spender", "sender_is_not_recipient",
                "owner_is_caller", "enabled", "not_initialized", "sec_check", "init_events"}
      /\ Proceed
  BY FailEnds DEF Checks, Check, At, sec_check, init_events
<1>2. QED
  BY <1>1, ProceedFields

LEMMA ComputePops ==
  ASSUME Control, Computes, run' # Idle
  PROVE  /\ Popped
         /\ Head(run.steps) \in {"new_allowance", "new_sender_balance", "new_recipient_balance",
                                 "new_supply", "ret"}
         /\ ledger' = ledger /\ copy' = copy
         /\ run'.args = run.args /\ run'.sought = run.sought /\ run'.event = run.event
<1>1. /\ run.steps # <<>>
      /\ Head(run.steps) \in {"new_allowance", "new_sender_balance", "new_recipient_balance",
                              "new_supply", "ret"}
      /\ \E name, value : Compute(name, value)
  BY FailEnds DEF Computes, new_allowance, new_sender_balance, new_recipient_balance,
                  new_total_supply, ret, At
<1>2. QED
  BY <1>1, ComputeFields

LEMMA WritePops ==
  ASSUME Control, Writes
  PROVE  /\ Popped
         /\ Head(run.steps) \in {"write_allowance", "write_sender_balance",
                "write_recipient_balance", "write_supply", "change_sec_badge", "new_dictionaries",
                "write_initial_balance", "write_installer_badge", "write_minters",
                "write_admins", "store_result"}
         /\ ledger' = ledger
         /\ run'.args = run.args /\ run'.sought = run.sought /\ run'.new = run.new
         /\ run'.event = run.event
<1>1. /\ run.steps # <<>>
      /\ Head(run.steps) \in {"write_allowance", "write_sender_balance",
             "write_recipient_balance", "write_supply", "change_sec_badge", "new_dictionaries",
             "write_initial_balance", "write_installer_badge", "write_minters",
             "write_admins", "store_result"}
      /\ \E new_copy : Write(new_copy)
  BY DEF Writes, write_allowance_to, write_balance_to, write_total_supply_to, change_sec_badge,
         init_writes, store_result, At
<1>2. QED
  BY <1>1, WriteFields

LEMMA RunStays == Control /\ Kept => run' # Idle
BY IdleFields DEF Kept

LEMMA OptionalTable ==
    /\ DOMAIN Optional = {"events_mode", "enable_mint_burn", "admin_list", "minter_list",
                          "none_list"}
    /\ \A x \in DOMAIN Optional :
          Optional[x] \in {"InvalidEventsMode", "InvalidEnableMBFlag", "InvalidAdminList",
                           "InvalidMinterList", "InvalidNoneList"}
BY DEF Optional

Errors == {"OutOfGas", "MissingArgument", "InvalidArgument", "InvalidEventsMode",
           "InvalidEnableMBFlag", "InvalidAdminList", "InvalidMinterList", "InvalidNoneList",
           "CannotTargetSelfUser", "InvalidBurnTarget", "MintBurnDisabled",
           "AlreadyInitialized", "InsufficientRights", "InsufficientAllowance",
           "InsufficientBalance", "Overflow"}

\* A deploy that ends without a commit leaves nothing.
LEMMA EndsByFail ==
  ASSUME Control, Next, run' = Idle, ~Commit
  PROVE  /\ run.steps # <<>>
         /\ OutOfGas \/ Asks \/ Checks \/ Computes \/ record_event_dictionary
         /\ \E error \in Errors : Fail(error)
<1>1. run # Idle
  BY Running
<1>2. ~(\E name, value : Compute(name, value)) \/ run.steps = <<>>
  BY ComputeFields, RunStays DEF Popped
<1>3. ~(\E name, args : Sought(name, args)) \/ run.steps = <<>>
  BY SoughtFields, RunStays DEF Popped
<1>4. ~Proceed \/ run.steps = <<>>
  BY ProceedFields, RunStays DEF Popped
<1>5. ASSUME Asks PROVE run.steps # <<>> /\ \E error \in Errors : Fail(error)
  BY <1>3, <1>5, OptionalTable DEF Asks, get_named_arg, At, Errors
<1>6. ASSUME Checks PROVE run.steps # <<>> /\ \E error \in Errors : Fail(error)
  BY <1>4, <1>6 DEF Checks, Check, At, sec_check, init_events, Errors
<1>7. ASSUME Computes PROVE run.steps # <<>> /\ \E error \in Errors : Fail(error)
  BY <1>2, <1>7 DEF Computes, new_allowance, new_sender_balance, new_recipient_balance,
     new_total_supply, ret, At, Errors
<1>8. ASSUME record_event_dictionary PROVE run.steps # <<>> /\ \E error \in Errors : Fail(error)
  <2>1. run' # [run EXCEPT !.steps = Tail(@),
                  !.event = Contract!record_event_dictionary(copy.events_mode, EventOf)]
    BY IdleFields DEF Control
  <2>2. QED
    BY <1>8, <2>1 DEF record_event_dictionary, At, Errors
<1>9. ASSUME OutOfGas PROVE run.steps # <<>> /\ \E error \in Errors : Fail(error)
  BY <1>9 DEF OutOfGas, Errors
<1>10. ~Writes
  BY WritePops, RunStays DEF Popped
<1>11. ~new_contract /\ ~return_if_zero /\ ~call_transfer_balance
  BY NewContractFields, ReturnFields, TransferFields, RunStays DEF Popped
<1>12. ~call_contract
  <2>1. call_contract => DOMAIN run' = Fields
    BY CallFields
  <2>2. QED
    BY <2>1, IdleFields
<1>13. QED
  BY <1>1, <1>5, <1>6, <1>7, <1>8, <1>9, <1>10, <1>11, <1>12, Kinds

LEMMA DeclaredTable ==
    /\ DOMAIN Declared = EntryPoint \ {"call"}
    /\ Declared["init"] = {} /\ Declared["total_supply"] = {}
    /\ Declared["balance_of"] = {"address"}
    /\ Declared["allowance"] = {"owner", "spender"}
    /\ \A e \in {"approve", "decrease_allowance", "increase_allowance"} :
          Declared[e] = {"spender", "amount"}
    /\ Declared["transfer"] = {"recipient", "amount"}
    /\ Declared["transfer_from"] = {"owner", "recipient", "amount"}
    /\ Declared["change_security"] = {}
    /\ Declared["burn"] = {"owner", "amount"} /\ Declared["mint"] = {"owner", "amount"}
    /\ Declared["check_total_supply"] = {"token_contract"}
    /\ Declared["check_balance_of"] = {"token_contract", "address"}
    /\ Declared["check_allowance_of"] = {"token_contract", "owner", "spender"}
    /\ Declared["transfer_as_stored_contract"] = {"token_contract", "recipient", "amount"}
    /\ Declared["approve_as_stored_contract"] = {"token_contract", "spender", "amount"}
    /\ Declared["transfer_from_as_stored_contract"] =
          {"token_contract", "owner", "recipient", "amount"}
BY DEF Declared, Over, generate_entry_points, test_entry_points, EntryPoint

LEMMA ArgumentNames == ArgumentName = Arguments
<1> DEFINE all == UNION {Declared[e] : e \in DOMAIN Declared}
<1>1. all = {"address", "recipient", "amount", "spender", "owner", "token_contract"}
  <2>1. ASSUME NEW e \in DOMAIN Declared
        PROVE  Declared[e] \subseteq {"address", "recipient", "amount", "spender", "owner",
                                      "token_contract"}
    BY DeclaredTable DEF EntryPoint
  <2>2. /\ "transfer_from_as_stored_contract" \in DOMAIN Declared
        /\ "check_allowance_of" \in DOMAIN Declared /\ "check_balance_of" \in DOMAIN Declared
    BY DeclaredTable DEF EntryPoint
  <2>3. QED
    BY <2>1, <2>2, DeclaredTable
<1>2. ArgumentName = DOMAIN Optional \cup all
                     \cup {"name", "symbol", "decimals", "total_supply", "package_hash"}
  BY DEF ArgumentName
<1> HIDE DEF all
<1>3. QED
  BY <1>1, <1>2, OptionalTable DEF Arguments

LEMMA IdleStarts ==
  ASSUME Next, run = Idle
  PROVE  \E account \in Account, source \in {"session", "client"}, e \in Called :
            Start(account, source, e)
BY DEF Next, Idle, Commit, OutOfGas, get_named_arg, call_contract, Checks, Check, sec_check,
       init_events, return_if_zero, new_allowance, write_allowance_to, call_transfer_balance,
       new_sender_balance, new_recipient_balance, new_total_supply, write_balance_to,
       write_total_supply_to, change_sec_badge, new_contract, init_writes,
       record_event_dictionary, ret, store_result, At

-----------------------------------------------------------------------------
LEMMA ControlNext ==
  ASSUME ControlInv, Next PROVE ControlInv'
<1>1. SUFFICES ASSUME run' # Idle PROVE Control'
  BY DEF ControlInv
<1>2. CASE run = Idle
  BY <1>2, IdleStarts, StartControl
<1>3. CASE run # Idle
  <2>1. Control
    BY <1>3 DEF ControlInv
  <2>2. CASE Asks \/ Checks \/ Computes \/ Writes
    BY <1>1, <2>1, <2>2, AskPops, CheckPops, ComputePops, WritePops, PoppedControl,
       ArgumentNames DEF Arguments
  <2>3. CASE new_contract
    BY <2>1, <2>3, NewContractFields, PoppedControl DEF new_contract, At
  <2>4. CASE record_event_dictionary
    BY <1>1, <2>1, <2>4, RecordFields, PoppedControl DEF record_event_dictionary, At
  <2>5. CASE return_if_zero \/ call_transfer_balance \/ call_contract
    BY <2>1, <2>5, ReturnControl, TransferControl, CallControl
  <2>6. CASE Commit \/ OutOfGas
    BY <1>1, <2>6, FailEnds DEF Commit, OutOfGas
  <2>7. QED
    BY <1>3, <2>2, <2>3, <2>4, <2>5, <2>6, Kinds
<1>4. QED
  BY <1>2, <1>3

-----------------------------------------------------------------------------
(***************************************************************************)
(* Arguments                                                               *)
(***************************************************************************)
Required == Arguments \ DOMAIN Optional

ArgsTyped(args) == \A x \in DOMAIN args :
    /\ x \in {"address", "owner", "spender", "recipient"} => args[x] \in Key
    /\ x \in {"amount", "total_supply"} => args[x] \in U256
    /\ x \in {"admin_list", "minter_list", "none_list"} => args[x] \in SUBSET Key

\* What has been read is there unless it is optional, and who calls passes what will be read.
Args ==
    /\ ArgsTyped(run.args)
    /\ \A x \in Own(run.entry_point) \cap Required : x \in Todo \cup DOMAIN run.args
    /\ \A x \in Own(run.entry_point) \cap Arguments : x \in Todo \cup run.sought
    /\ run.entry_point = "call" => "new_contract" \in Todo \/ "package_hash" \in DOMAIN run.args
    /\ run.source = "contract" => Own(run.entry_point) \cap Required \subseteq DOMAIN run.args

LEMMA BindFacts ==
  ASSUME NEW x, NEW v, NEW g
  PROVE  /\ DOMAIN Bind(x, v, g) = DOMAIN g \cup {x}
         /\ Bind(x, v, g)[x] = v
BY DEF Bind, Over

LEMMA BindOther ==
  ASSUME NEW x, NEW v, NEW g, NEW y \in DOMAIN g, y # x
  PROVE  Bind(x, v, g)[y] = g[y]
BY DEF Bind, Over

\* What is chosen for an argument has its type.
LEMMA ValuesTyped ==
  ASSUME NEW x, NEW v \in ValuesOf(x)
  PROVE  /\ x \in {"address", "owner", "spender", "recipient"} => v \in Key
         /\ x \in {"amount", "total_supply"} => v \in U256
         /\ x \in {"admin_list", "minter_list", "none_list"} => v \in SUBSET Key
<1>1. ASSUME x \in {"address", "owner", "spender", "recipient"} PROVE v \in Key
  BY <1>1, ExecutionAssumption DEF ValuesOf
<1>2. ASSUME x = "amount" PROVE v \in U256
  BY <1>2, ExecutionAssumption DEF ValuesOf
<1>3. ASSUME x = "total_supply" PROVE v \in U256
  BY <1>3, ExecutionAssumption DEF ValuesOf
<1>4. ASSUME x \in {"admin_list", "minter_list", "none_list"} PROVE v \in SUBSET Key
  BY <1>4, ExecutionAssumption DEF ValuesOf
<1>5. QED
  BY <1>1, <1>2, <1>3, <1>4

LEMMA BindTyped ==
  ASSUME NEW args, ArgsTyped(args), NEW x, NEW v \in ValuesOf(x)
  PROVE  ArgsTyped(Bind(x, v, args))
<1> DEFINE more == Bind(x, v, args)
<1>1. DOMAIN more = DOMAIN args \cup {x} /\ more[x] = v
  BY BindFacts
<1>0. \A y \in DOMAIN args : y # x => more[y] = args[y]
  BY BindOther
<1> HIDE DEF more
<1>2. ASSUME NEW y \in DOMAIN more
      PROVE  /\ y \in {"address", "owner", "spender", "recipient"} => more[y] \in Key
             /\ y \in {"amount", "total_supply"} => more[y] \in U256
             /\ y \in {"admin_list", "minter_list", "none_list"} => more[y] \in SUBSET Key
  <2>1. CASE y = x
    BY <1>1, <2>1, ValuesTyped
  <2>2. CASE y # x
    BY <1>0, <1>1, <2>2 DEF ArgsTyped
  <2>3. QED
    BY <2>1, <2>2
<1>3. QED
  BY <1>2 DEF ArgsTyped, more

LEMMA AskEffect ==
  ASSUME Control, NEW x \in ArgumentName, get_named_arg(x), run' # Idle
  PROVE  /\ Head(run.steps) = x /\ Popped /\ run'.sought = run.sought \cup {x}
         /\ run'.new = run.new /\ run'.event = run.event
         /\ \/ run'.args = run.args /\ x \in DOMAIN run.args \cup DOMAIN Optional
            \/ \E v \in ValuesOf(x) : run'.args = Bind(x, v, run.args)
<1>1. run.steps # <<>> /\ Head(run.steps) = x
  BY DEF get_named_arg, At
<1>2. CASE Sought(x, run.args) /\ x \in DOMAIN run.args \cup DOMAIN Optional
  BY <1>1, <1>2, SoughtFields
<1>3. CASE \E v \in ValuesOf(x) : Sought(x, Bind(x, v, run.args))
  <2>1. PICK v \in ValuesOf(x) : Sought(x, Bind(x, v, run.args))
    BY <1>3
  <2>2. QED
    BY <1>1, <2>1, SoughtFields
<1>4. QED
  BY <1>2, <1>3, FailEnds DEF get_named_arg

LEMMA StartArgs ==
  ASSUME NEW account \in Account, NEW source \in {"session", "client"}, NEW e \in Called,
         Start(account, source, e)
  PROVE  Args'
<1>1. /\ run'.entry_point = e /\ run'.source = source /\ run'.steps = Program[e]
      /\ run'.args = [name \in {} |-> 0]
  BY DEF Start
<1>2. e \in EntryPoint
  BY CalledAssumption, EntryPoints
<1>3. Todo' = Elements(Program[e])
  BY <1>1 DEF Todo
<1>4. Own(e) \cap Arguments \subseteq Todo'
  BY <1>3, TransferBalanceSteps DEF Own, Arguments
<1>5. e = "call" => "new_contract" \in Todo'
  BY <1>3, OwnSteps DEF Own
<1>6. ArgsTyped(run'.args)
  BY <1>1 DEF ArgsTyped
<1>7. QED
  BY <1>1, <1>4, <1>5, <1>6 DEF Args, Required

LEMMA AskArgs ==
  ASSUME Control, Args, Asks, run' # Idle
  PROVE  Args'
<1>1. PICK x \in ArgumentName : get_named_arg(x)
  BY DEF Asks
<1>2. /\ Head(run.steps) = x /\ Popped /\ run'.sought = run.sought \cup {x}
      /\ \/ run'.args = run.args /\ x \in DOMAIN run.args \cup DOMAIN Optional
         \/ \E v \in ValuesOf(x) : run'.args = Bind(x, v, run.args)
  BY <1>1, AskEffect
<1>3. Todo' = Todo \ {x}
  BY <1>2, AskPops, PoppedControl, ArgumentNames DEF Arguments
<1>4. /\ ArgsTyped(run'.args) /\ DOMAIN run.args \subseteq DOMAIN run'.args
      /\ x \in DOMAIN run'.args \cup DOMAIN Optional
  <2>1. CASE run'.args = run.args /\ x \in DOMAIN run.args \cup DOMAIN Optional
    BY <2>1 DEF Args
  <2>2. ASSUME NEW v \in ValuesOf(x), run'.args = Bind(x, v, run.args)
        PROVE  /\ ArgsTyped(run'.args) /\ DOMAIN run.args \subseteq DOMAIN run'.args
               /\ x \in DOMAIN run'.args
    <3>1. ArgsTyped(Bind(x, v, run.args))
      BY BindTyped DEF Args
    <3>2. DOMAIN Bind(x, v, run.args) = DOMAIN run.args \cup {x}
      BY BindFacts
    <3>3. QED
      BY <2>2, <3>1, <3>2
  <2>3. QED
    BY <1>2, <2>1, <2>2
<1>5. run'.entry_point = run.entry_point /\ run'.source = run.source
  BY <1>2 DEF Popped, Kept
<1>6. x # "new_contract"
  BY ArgumentNames DEF Arguments
<1>7. QED
  BY <1>2, <1>3, <1>4, <1>5, <1>6 DEF Args, Required

\* Steps that read no argument.
LEMMA OtherArgs ==
  ASSUME Control, Args, Kept, run'.args = run.args, run'.sought = run.sought,
         Todo \cap (Arguments \cup {"new_contract"}) \subseteq Todo'
  PROVE  Args'
BY DEF Args, Kept, Required

LEMMA WriteContractArgs ==
  ASSUME Control, Args, new_contract
  PROVE  Args'
<1>1. /\ Popped /\ run'.args = Bind("package_hash", Token, run.args)
      /\ run'.sought = run.sought /\ ledger' = ledger
  BY NewContractFields
<1>2. Todo' = Todo \ {"new_contract"}
  BY <1>1, PoppedControl DEF new_contract, At
<1>3. DOMAIN run'.args = DOMAIN run.args \cup {"package_hash"}
  <2>1. DOMAIN Bind("package_hash", Token, run.args) = DOMAIN run.args \cup {"package_hash"}
    BY BindFacts
  <2>2. QED
    BY <1>1, <2>1
<1>4. ArgsTyped(run'.args)
  <2>1. /\ \A x \in DOMAIN run.args : x # "package_hash" => run'.args[x] = run.args[x]
        /\ ArgsTyped(run.args)
    BY <1>1, BindFacts, BindOther DEF Args
  <2>2. QED
    BY <1>3, <2>1 DEF ArgsTyped
<1>5. Todo \cap Arguments \subseteq Todo'
  BY <1>2 DEF Arguments
<1>6. QED
  BY <1>1, <1>3, <1>4, <1>5 DEF Args, Required, Popped, Kept

LEMMA CallArgs ==
  ASSUME Control, Args, call_contract
  PROVE  Args'
<1> DEFINE e      == run.entry_point
           callee == Calls[e].callee
           passes == Calls[e].passes
<1>1. Head(run.steps) = "call_contract" /\ run.steps # <<>>
  BY DEF call_contract, At
<1>2. /\ run'.entry_point = callee /\ run'.source = "contract" /\ run'.sought = {}
      /\ run'.args = [name \in passes \cap DOMAIN run.args |-> run.args[name]]
  BY CallFields
<1>3. e \in DOMAIN Calls /\ run.deployed = e /\ Todo' = Elements(Program[callee]) \cup After(e)
  BY <1>2, CallControl
<1>4. \A y \in Todo : Rank("call_contract") <= Rank(y)
  BY <1>1, HeadTodo
<1>5. \A x \in Arguments \cup {"new_contract"} : x \notin Todo
  BY <1>4, RankTable DEF Arguments
<1>6. Own(e) \cap Required \subseteq DOMAIN run.args
  BY <1>5 DEF Args, Required
<1>7. e = "call" => "package_hash" \in DOMAIN run.args
  BY <1>5 DEF Args
<1>8. ArgsTyped(run'.args)
  BY <1>2 DEF Args, ArgsTyped
<1>9. Own(callee) \cap Required \subseteq passes \cap (Own(e) \cup {"package_hash"})
  BY <1>3, OwnSteps, CallTable, OptionalTable DEF Required, Arguments
<1>10. "package_hash" \in passes => e = "call"
  BY <1>3, CallTable
<1>11. passes \cap Required \subseteq DOMAIN run.args
  <2>1. passes \cap Required \subseteq Own(e) \cup {"package_hash"}
    BY <1>3, OwnSteps, CallTable, OptionalTable DEF Required, Arguments
  <2>2. QED
    BY <1>6, <1>7, <1>10, <2>1
<1>12. Own(callee) \cap Required \subseteq DOMAIN run'.args
  BY <1>2, <1>9, <1>11
<1>13. Own(callee) \cap Arguments \subseteq Todo'
  BY <1>3, TransferBalanceSteps DEF Own, Arguments
<1>14. callee # "call"
  BY <1>3, CallTable
<1> HIDE DEF e, callee, passes
<1>15. QED
  BY <1>2, <1>8, <1>12, <1>13, <1>14 DEF Args, Required

LEMMA ReturnArgs ==
  ASSUME Control, Args, return_if_zero
  PROVE  Args'
<1>1. /\ Kept /\ run'.args = run.args /\ run'.sought = run.sought
  BY ReturnFields
<1>2. Head(run.steps) = "return_if_zero" /\ run.steps # <<>>
  BY DEF return_if_zero, At
<1>3. CASE run.args["amount"] # 0
  <2>1. Todo' = Todo \ {"return_if_zero"}
    BY <1>2, <1>3, ReturnControl
  <2>2. QED
    BY <1>1, <2>1, OtherArgs DEF Arguments
<1>4. CASE run.args["amount"] = 0
  <2>1. run.entry_point = "transfer_from"
    BY <1>2, HeadTodo, OwnSteps DEF Control, EntryPoint, After
  <2>2. \A y \in Todo : Rank("return_if_zero") <= Rank(y)
    BY <1>2, HeadTodo
  <2>3. \A x \in {"recipient", "owner", "amount"} : x \notin Todo
    BY <2>2, RankTable
  <2>4. Own("transfer_from") \cap Arguments = {"recipient", "owner", "amount"}
    BY OwnSteps DEF Arguments
  <2>5. QED
    BY <1>1, <2>1, <2>3, <2>4 DEF Args, Required, Kept
<1>5. QED
  BY <1>3, <1>4

LEMMA TransferArgs ==
  ASSUME Control, Args, call_transfer_balance
  PROVE  Args'
<1>1. Kept /\ run'.args = run.args /\ run'.sought = run.sought
  BY TransferFields
<1>2. Todo \ {"transfer_balance"} \subseteq Todo'
  BY TransferControl
<1>3. QED
  BY <1>1, <1>2, OtherArgs DEF Arguments

ArgsInv == run # Idle => Args

LEMMA ArgsNext ==
  ASSUME ControlInv, ArgsInv, Next PROVE ArgsInv'
<1>1. SUFFICES ASSUME run' # Idle PROVE Args'
  BY DEF ArgsInv
<1>2. CASE run = Idle
  BY <1>2, IdleStarts, StartArgs
<1>3. CASE run # Idle
  <2>1. Control /\ Args
    BY <1>3 DEF ControlInv, ArgsInv
  <2>2. CASE Checks \/ Computes \/ Writes
    <3>1. /\ Popped /\ run'.args = run.args /\ run'.sought = run.sought /\ ledger' = ledger
          /\ Head(run.steps) \notin Arguments \cup {"new_contract", "call_contract"}
      BY <1>1, <2>1, <2>2, CheckPops, ComputePops, WritePops DEF Arguments
    <3>2. Todo' = Todo \ {Head(run.steps)}
      BY <2>1, <3>1, PoppedControl
    <3>3. QED
      BY <2>1, <3>1, <3>2, OtherArgs DEF Popped
  <2>3. CASE record_event_dictionary
    <3>1. /\ Popped /\ run'.args = run.args /\ run'.sought = run.sought /\ ledger' = ledger
          /\ Head(run.steps) = "record_event"
      BY <1>1, <2>1, <2>3, RecordFields DEF record_event_dictionary, At
    <3>2. Todo' = Todo \ {"record_event"}
      BY <2>1, <3>1, PoppedControl
    <3>3. QED
      BY <2>1, <3>1, <3>2, OtherArgs DEF Popped, Arguments
  <2>4. CASE Asks \/ new_contract \/ return_if_zero \/ call_transfer_balance \/ call_contract
    BY <1>1, <2>1, <2>4, AskArgs, WriteContractArgs, ReturnArgs, TransferArgs, CallArgs
  <2>5. CASE Commit \/ OutOfGas
    BY <1>1, <2>5, FailEnds DEF Commit, OutOfGas
  <2>6. QED
    BY <1>3, <2>2, <2>3, <2>4, <2>5, Kinds
<1>4. QED
  BY <1>2, <1>3

-----------------------------------------------------------------------------
(***************************************************************************)
(* What a step finds                                                       *)
(***************************************************************************)
\* The entry points a step belongs to.
LEMMA StepOf ==
  ASSUME NEW e \in EntryPoint
  PROVE  /\ "new_allowance" \in Own(e) \/ "write_allowance" \in Own(e) =>
                e \in {"approve", "decrease_allowance", "increase_allowance", "transfer_from"}
         /\ "owner_is_not_spender" \in Own(e) =>
                e \in {"approve", "decrease_allowance", "increase_allowance"}
         /\ "sender_is_not_recipient" \in Own(e) \/ "transfer_balance" \in Own(e) =>
                e \in {"transfer", "transfer_from"}
         /\ "return_if_zero" \in Own(e) => e = "transfer_from"
         /\ "new_sender_balance" \in Own(e) \/ "write_sender_balance" \in Own(e) =>
                e \in {"transfer", "transfer_from", "burn"}
         /\ "new_recipient_balance" \in Own(e) \/ "write_recipient_balance" \in Own(e) =>
                e \in {"transfer", "transfer_from", "mint"}
         /\ "new_supply" \in Own(e) \/ "write_supply" \in Own(e) => e \in {"mint", "burn"}
         /\ "enabled" \in Own(e) => e \in {"mint", "burn", "change_security"}
         /\ "sec_check" \in Own(e) => e \in {"mint", "change_security"}
         /\ "owner_is_caller" \in Own(e) => e = "burn"
         /\ "change_sec_badge" \in Own(e) => e = "change_security"
         /\ "ret" \in Own(e) => e \in ReadOnly
         /\ "new_contract" \in Own(e) => e = "call"
         /\ "not_initialized" \in Own(e) \/ "new_dictionaries" \in Own(e)
                \/ "write_initial_balance" \in Own(e) \/ "write_installer_badge" \in Own(e)
                \/ "write_minters" \in Own(e) \/ "write_admins" \in Own(e)
                \/ "init_events" \in Own(e) => e = "init"
         /\ "call_contract" \in Own(e) => e \in DOMAIN Calls
         /\ "store_result" \in Own(e) => e \in DOMAIN Calls
         /\ "record_event" \in Own(e) => e \notin DOMAIN Calls \cup ReadOnly
BY OwnSteps, CallTable DEF EntryPoint, ReadOnly

LEMMA HeadOwn ==
  ASSUME Control, run.steps # <<>>, Head(run.steps) # "store_result"
  PROVE  Head(run.steps) \in Own(run.entry_point)
BY HeadTodo DEF Control, After

\* The steps in Program: those of transfer_balance are added on the way.
LEMMA ProgramExact ==
    /\ \A e \in EntryPoint \ {"transfer", "transfer_from"} : Elements(Program[e]) = Own(e)
    /\ \A e \in {"transfer", "transfer_from"} :
          Elements(Program[e]) = Own(e) \ Elements(transfer_balance)
<1>1. /\ Elements(Program["transfer"]) \cap Elements(transfer_balance) = {}
      /\ Elements(Program["transfer_from"]) \cap Elements(transfer_balance) = {}
  BY DEF Elements, Program, transfer, transfer_from, transfer_balance
<1>2. QED
  BY <1>1 DEF Own

\* An argument that comes before the step at hand has been read.
LEMMA ArgumentRead ==
  ASSUME Control, Args, run.steps # <<>>, NEW x \in Own(run.entry_point) \cap Arguments,
         ~(Rank(Head(run.steps)) <= Rank(x))
  PROVE  x \notin Todo /\ x \in run.sought /\ (x \in Required => x \in DOMAIN run.args)
<1>1. x \notin Todo
  BY HeadTodo
<1>2. QED
  BY <1>1 DEF Args, Required

WithAmount == {"approve", "decrease_allowance", "increase_allowance", "transfer",
               "transfer_from", "mint", "burn"}

AfterAmount == {"return_if_zero", "new_allowance", "transfer_balance", "new_sender_balance",
                "new_recipient_balance", "new_supply", "write_sender_balance",
                "write_recipient_balance", "write_allowance", "write_supply", "record_event"}

LEMMA AmountFirst == \A x \in AfterAmount : ~(Rank(x) <= Rank("amount"))
BY RankTable DEF AfterAmount

LEMMA AmountRead ==
  ASSUME Control, Args, run.steps # <<>>, run.entry_point \in WithAmount,
         Head(run.steps) \in AfterAmount
  PROVE  run.args["amount"] \in U256 /\ "amount" \in DOMAIN run.args
<1>1. "amount" \in Required
  BY OptionalTable DEF Required, Arguments
<1>2. ~(Rank(Head(run.steps)) <= Rank("amount"))
  BY AmountFirst
<1>3. "amount" \in Own(run.entry_point)
  BY OwnSteps DEF WithAmount
<1>4. "amount" \in DOMAIN run.args
  BY <1>1, <1>2, <1>3, ArgumentRead DEF Required
<1>5. QED
  BY <1>4 DEF Args, ArgsTyped

LEMMA CallerKey ==
  ASSUME Control, run.entry_point \notin DOMAIN Calls
  PROVE  /\ run.stack \in CallStack /\ caller \in Key
         /\ get_caller(run.stack) \in Key
<1>1. run.stack \in CallStack
  BY CallTable DEF Control, StackOf, TestEntryPoint
<1>2. ASSUME NEW a \in Account, run.stack = <<Session(a), StoredContract(Token)>>
      PROVE  caller \in Key /\ get_caller(run.stack) \in Key
  BY <1>2 DEF caller, Contract!get_immediate_caller_address,
     Contract!call_stack_element_to_address, get_caller, Session, StoredContract, Key
<1>3. ASSUME NEW a \in Account, NEW p \in Caller,
             run.stack = <<Session(a), StoredSession(a, p), StoredContract(Token)>>
      PROVE  caller \in Key /\ get_caller(run.stack) \in Key
  BY <1>3 DEF caller, Contract!get_immediate_caller_address,
     Contract!call_stack_element_to_address, get_caller, Session, StoredSession, Key
<1>4. ASSUME NEW a \in Account, NEW p \in Caller,
             run.stack = <<Session(a), StoredContract(p), StoredContract(Token)>>
      PROVE  caller \in Key /\ get_caller(run.stack) \in Key
  BY <1>4 DEF caller, Contract!get_immediate_caller_address,
     Contract!call_stack_element_to_address, get_caller, Session, StoredContract, Key, Caller
<1>5. ASSUME NEW a \in Account, NEW p \in Caller, NEW q \in Caller,
             run.stack = <<Session(a), StoredSession(a, q), StoredContract(p),
                           StoredContract(Token)>>
      PROVE  caller \in Key /\ get_caller(run.stack) \in Key
  BY <1>5 DEF caller, Contract!get_immediate_caller_address,
     Contract!call_stack_element_to_address, get_caller, Session, StoredContract, Key, Caller
<1>6. ASSUME NEW a \in Account, NEW p \in Caller, NEW q \in Caller,
             run.stack = <<Session(a), StoredContract(q), StoredContract(p),
                           StoredContract(Token)>>
      PROVE  caller \in Key /\ get_caller(run.stack) \in Key
  BY <1>6 DEF caller, Contract!get_immediate_caller_address,
     Contract!call_stack_element_to_address, get_caller, Session, StoredContract, Key, Caller
<1>7. QED
  BY <1>1, <1>2, <1>3, <1>4, <1>5, <1>6 DEF CallStack

\* Whom a call is about.
LEMMA PartiesKeys ==
  ASSUME Control, Args, run.entry_point \notin DOMAIN Calls
  PROVE  /\ From \in Key /\ To \in Key /\ Grant \in Key \X Key
         /\ List("admin_list") \in SUBSET Key /\ List("minter_list") \in SUBSET Key
         /\ List("none_list") \in SUBSET Key
BY CallerKey DEF Args, ArgsTyped, From, To, Grant, Given, List

-----------------------------------------------------------------------------
(***************************************************************************)
(* Types: no number in the copy is out of range                            *)
(***************************************************************************)
StateFields == {"initialized", "balances", "allowances", "total_supply", "security_badges",
                "events_mode", "enable_mint_burn", "result"}

StateTyped(s) ==
    /\ DOMAIN s = StateFields
    /\ s.balances \in [Key -> U256]
    /\ s.allowances \in [Key \X Key -> U256]
    /\ s.total_supply \in U256
    /\ s.security_badges \in [Key -> Contract!SecurityBadge \cup {Contract!Absent}]
    /\ s.result \in SUBSET U256

\* What a write writes is there, or is still to be computed before it.
Pending(write, compute, name) == write \in Todo => compute \in Todo \/ name \in DOMAIN run.new

New ==
    /\ \A name \in DOMAIN run.new : run.new[name] \in U256
    /\ Pending("write_allowance", "new_allowance", "allowance")
    /\ Pending("write_sender_balance", "new_sender_balance", "sender")
    /\ Pending("write_recipient_balance", "new_recipient_balance", "recipient")
    /\ Pending("write_supply", "new_supply", "supply")
    /\ run.source = "contract" => Pending("store_result", "ret", "result")

LEMMA ComputeEffect ==
  ASSUME Control, Args, StateTyped(copy), Computes, run' # Idle
  PROVE  \E value \in U256 :
            \/ Head(run.steps) = "new_allowance" /\ run'.new = Bind("allowance", value, run.new)
            \/ Head(run.steps) = "new_sender_balance" /\ run'.new = Bind("sender", value, run.new)
            \/ /\ Head(run.steps) = "new_recipient_balance"
               /\ run'.new = Bind("recipient", value, run.new)
            \/ Head(run.steps) = "new_supply" /\ run'.new = Bind("supply", value, run.new)
            \/ Head(run.steps) = "ret" /\ run'.new = Bind("result", value, run.new)
<1> DEFINE e == run.entry_point
<1>1. CASE new_allowance
  <2>1. Head(run.steps) = "new_allowance" /\ run.steps # <<>>
    BY <1>1 DEF new_allowance, At
  <2>2. e \in {"approve", "decrease_allowance", "increase_allowance", "transfer_from"}
    BY <2>1, HeadOwn, StepOf DEF Control
  <2>3. run.args["amount"] \in U256
    BY <2>1, <2>2, AmountRead DEF WithAmount, AfterAmount
  <2>4. copy.allowances[Grant] \in U256
    BY <2>2, PartiesKeys, CallTable DEF StateTyped
  <2>5. PICK value : Compute("allowance", value) /\ value \in U256
    <3>1. CASE e = "approve"
      BY <1>1, <2>3, <3>1 DEF new_allowance
    <3>2. CASE e = "increase_allowance"
      BY <1>1, <2>3, <2>4, <3>2, CasperAssumption
         DEF new_allowance, saturating_add, AddOverflows, U256
    <3>3. CASE e = "decrease_allowance"
      BY <1>1, <2>3, <2>4, <3>3, CasperAssumption
         DEF new_allowance, saturating_sub, SubUnderflows, U256
    <3>4. CASE e = "transfer_from"
      BY <1>1, <2>3, <2>4, <3>4, FailEnds, CasperAssumption
         DEF new_allowance, SubUnderflows, U256
    <3>5. QED
      BY <2>2, <3>1, <3>2, <3>3, <3>4
  <2>6. QED
    BY <2>1, <2>5, ComputeFields
<1>2. CASE new_sender_balance
  <2>1. Head(run.steps) = "new_sender_balance" /\ run.steps # <<>>
    BY <1>2 DEF new_sender_balance, At
  <2>2. e \in {"transfer", "transfer_from", "burn"}
    BY <2>1, HeadOwn, StepOf DEF Control
  <2>3. run.args["amount"] \in U256
    BY <2>1, <2>2, AmountRead DEF WithAmount, AfterAmount
  <2>4. copy.balances[From] \in U256
    BY <2>2, PartiesKeys, CallTable DEF StateTyped
  <2>5. PICK value : Compute("sender", value) /\ value \in U256
    BY <1>2, <2>3, <2>4, FailEnds, CasperAssumption DEF new_sender_balance, SubUnderflows, U256
  <2>6. QED
    BY <2>1, <2>5, ComputeFields
<1>3. CASE new_recipient_balance
  <2>1. Head(run.steps) = "new_recipient_balance" /\ run.steps # <<>>
    BY <1>3 DEF new_recipient_balance, At
  <2>2. e \in {"transfer", "transfer_from", "mint"}
    BY <2>1, HeadOwn, StepOf DEF Control
  <2>3. run.args["amount"] \in U256
    BY <2>1, <2>2, AmountRead DEF WithAmount, AfterAmount
  <2>4. copy.balances[To] \in U256
    BY <2>2, PartiesKeys, CallTable DEF StateTyped
  <2>5. PICK value : Compute("recipient", value) /\ value \in U256
    BY <1>3, <2>3, <2>4, FailEnds, CasperAssumption
       DEF new_recipient_balance, AddOverflows, U256
  <2>6. QED
    BY <2>1, <2>5, ComputeFields
<1>4. CASE new_total_supply
  <2>1. Head(run.steps) = "new_supply" /\ run.steps # <<>>
    BY <1>4 DEF new_total_supply, At
  <2>2. PICK value : Compute("supply", value) /\ value \in U256
    BY <1>4, FailEnds DEF new_total_supply
  <2>3. QED
    BY <2>1, <2>2, ComputeFields
<1>5. CASE ret
  <2>1. Head(run.steps) = "ret" /\ run.steps # <<>>
    BY <1>5 DEF ret, At
  <2>2. e \in ReadOnly
    BY <2>1, HeadOwn, StepOf DEF Control
  <2>3. PICK value : Compute("result", value) /\ value \in U256
    <3>1. CASE e = "total_supply"
      BY <1>5, <3>1 DEF ret, StateTyped
    <3>2. CASE e = "balance_of"
      <4>1. ~(Rank("ret") <= Rank("address"))
        BY RankTable
      <4>2. "address" \in Own(e) \cap Arguments /\ "address" \in Required
        BY <3>2, OwnSteps, OptionalTable DEF Required, Arguments
      <4>3. "address" \in DOMAIN run.args
        BY <2>1, <4>1, <4>2, ArgumentRead
      <4>4. run.args["address"] \in Key
        BY <4>3 DEF Args, ArgsTyped
      <4>5. QED
        BY <1>5, <3>2, <4>4 DEF ret, StateTyped
    <3>3. CASE e = "allowance"
      <4>1. Grant \in Key \X Key
        BY <3>3, PartiesKeys, CallTable
      <4>2. QED
        BY <1>5, <3>3, <4>1 DEF ret, StateTyped
    <3>4. QED
      BY <2>2, <3>1, <3>2, <3>3 DEF ReadOnly
  <2>4. QED
    BY <2>1, <2>3, ComputeFields
<1>6. QED
  BY <1>1, <1>2, <1>3, <1>4, <1>5 DEF Computes

\* The written steps and their numbers, one step later.
LEMMA ComputeNew ==
  ASSUME Control, Args, New, StateTyped(copy), Computes, run' # Idle
  PROVE  New'
<1>1. /\ Popped /\ ledger' = ledger /\ Todo' = Todo \ {Head(run.steps)}
      /\ run'.source = run.source
  BY ComputePops, PoppedControl DEF Popped, Kept
<1>2. ASSUME NEW value \in U256, NEW name, run'.new = Bind(name, value, run.new)
      PROVE  /\ \A x \in DOMAIN run'.new : run'.new[x] \in U256
             /\ DOMAIN run'.new = DOMAIN run.new \cup {name}
  <2>1. /\ DOMAIN Bind(name, value, run.new) = DOMAIN run.new \cup {name}
        /\ Bind(name, value, run.new)[name] = value
    BY BindFacts
  <2>2. \A x \in DOMAIN run.new : x # name => run'.new[x] = run.new[x]
    BY <1>2, BindOther
  <2>3. QED
    BY <1>2, <2>1, <2>2 DEF New
<1>3. PICK value \in U256 :
            \/ Head(run.steps) = "new_allowance" /\ run'.new = Bind("allowance", value, run.new)
            \/ Head(run.steps) = "new_sender_balance" /\ run'.new = Bind("sender", value, run.new)
            \/ /\ Head(run.steps) = "new_recipient_balance"
               /\ run'.new = Bind("recipient", value, run.new)
            \/ Head(run.steps) = "new_supply" /\ run'.new = Bind("supply", value, run.new)
            \/ Head(run.steps) = "ret" /\ run'.new = Bind("result", value, run.new)
  BY ComputeEffect
<1>4. PICK name : /\ run'.new = Bind(name, value, run.new)
                  /\ \/ Head(run.steps) = "new_allowance" /\ name = "allowance"
                     \/ Head(run.steps) = "new_sender_balance" /\ name = "sender"
                     \/ Head(run.steps) = "new_recipient_balance" /\ name = "recipient"
                     \/ Head(run.steps) = "new_supply" /\ name = "supply"
                     \/ Head(run.steps) = "ret" /\ name = "result"
  BY <1>3
<1>5. /\ \A x \in DOMAIN run'.new : run'.new[x] \in U256
      /\ DOMAIN run'.new = DOMAIN run.new \cup {name}
  BY <1>2, <1>4
<1>6. QED
  BY <1>1, <1>4, <1>5 DEF New, Pending

\* Steps that compute nothing and add none that writes.
LEMMA OtherNew ==
  ASSUME New, Kept, run'.new = run.new,
         Todo' \cap {"write_allowance", "write_sender_balance", "write_recipient_balance",
                     "write_supply", "store_result"} \subseteq Todo,
         Todo \cap {"new_allowance", "new_sender_balance", "new_recipient_balance",
                    "new_supply", "ret"} \subseteq Todo' \/ Todo' = {}
  PROVE  New'
BY DEF New, Pending, Kept

LEMMA TransferNew ==
  ASSUME Control, New, call_transfer_balance
  PROVE  New'
<1>1. Kept /\ run'.new = run.new
  BY TransferFields
<1>2. /\ Todo \ {"transfer_balance"} \subseteq Todo'
      /\ Todo' \subseteq Todo \cup Elements(transfer_balance)
      /\ Todo' \cap Elements(transfer_balance) # {} => Elements(transfer_balance) \subseteq Todo'
  <2>1. "transfer_balance" \in Todo
    BY HeadTodo DEF call_transfer_balance, At
  <2>2. Todo \cap Elements(transfer_balance) = {}
    BY <2>1 DEF Control
  <2>3. QED
    BY <2>2, TransferControl
<1>3. QED
  BY <1>1, <1>2, TransferBalanceSteps DEF New, Pending, Kept

\* The programs compute before they write.
LEMMA ProgramComputes ==
  ASSUME NEW e \in EntryPoint
  PROVE  /\ "write_allowance" \in Elements(Program[e]) => "new_allowance" \in Elements(Program[e])
         /\ "write_sender_balance" \in Elements(Program[e]) =>
                "new_sender_balance" \in Elements(Program[e])
         /\ "write_recipient_balance" \in Elements(Program[e]) =>
                "new_recipient_balance" \in Elements(Program[e])
         /\ "write_supply" \in Elements(Program[e]) => "new_supply" \in Elements(Program[e])
<1>1. CASE e \in {"transfer", "transfer_from"}
  BY <1>1, ProgramExact, OwnSteps, TransferBalanceSteps
<1>2. CASE e \notin {"transfer", "transfer_from"}
  <2>1. Elements(Program[e]) = Own(e)
    BY <1>2, ProgramExact
  <2>2. QED
    BY <1>2, <2>1, OwnSteps DEF EntryPoint
<1>3. QED
  BY <1>1, <1>2

LEMMA StartNew ==
  ASSUME NEW account \in Account, NEW source \in {"session", "client"}, NEW e \in Called,
         Start(account, source, e)
  PROVE  New'
<1>1. /\ run'.steps = Program[e] /\ run'.source = source /\ run'.new = [name \in {} |-> 0]
  BY DEF Start
<1>2. Todo' = Elements(Program[e])
  BY <1>1 DEF Todo
<1>3. e \in EntryPoint
  BY CalledAssumption, EntryPoints
<1>4. QED
  BY <1>1, <1>2, <1>3, ProgramComputes DEF New, Pending

LEMMA CallNew ==
  ASSUME Control, New, call_contract
  PROVE  New'
<1> DEFINE callee == Calls[run.entry_point].callee
<1>1. run'.new = run.new /\ run'.entry_point = callee /\ run'.source = "contract"
  BY CallFields
<1>2. /\ run.entry_point = run.deployed /\ run.deployed \in DOMAIN Calls
      /\ Todo' = Elements(Program[callee]) \cup After(run.deployed)
  BY <1>1, CallControl
<1>3. callee \in EntryPoint
  BY <1>2, CallTable DEF EntryPoint
<1>4. "store_result" \in Todo' => "ret" \in Todo'
  <2>1. ASSUME After(run.deployed) # {} PROVE "ret" \in Own(callee) /\ callee \in ReadOnly
    BY <1>2, <2>1, OwnSteps, CallTable DEF After, ReadOnly
  <2>2. callee \in ReadOnly => Own(callee) = Elements(Program[callee])
    BY <1>3, ProgramExact DEF ReadOnly
  <2>3. "store_result" \notin Elements(Program[callee])
    BY <1>2, <1>3, ProgramOwn, StepOf, CallTable
  <2>4. QED
    BY <1>2, <2>1, <2>2, <2>3
<1> HIDE DEF callee
<1>5. QED
  BY <1>1, <1>2, <1>3, <1>4, ProgramComputes DEF New, Pending, After

NewInv == run # Idle => New

LEMMA NewNext ==
  ASSUME ControlInv, ArgsInv, NewInv, StateTyped(copy), Next PROVE NewInv'
<1>1. SUFFICES ASSUME run' # Idle PROVE New'
  BY DEF NewInv
<1>2. CASE run = Idle
  BY <1>2, IdleStarts, StartNew
<1>3. CASE run # Idle
  <2>1. Control /\ Args /\ New
    BY <1>3 DEF ControlInv, ArgsInv, NewInv
  <2>2. CASE Asks \/ Checks \/ Writes \/ new_contract \/ record_event_dictionary
    <3>1. /\ Popped /\ ledger' = ledger /\ run'.new = run.new
          /\ Head(run.steps) \notin {"new_allowance", "new_sender_balance",
                "new_recipient_balance", "new_supply", "ret", "call_contract"}
      <4>1. CASE Asks
        BY <1>1, <2>1, <4>1, AskPops, AskEffect, ArgumentNames DEF Asks, Arguments
      <4>2. CASE Checks \/ Writes
        BY <1>1, <2>1, <4>2, CheckPops, WritePops
      <4>3. CASE new_contract
        BY <2>1, <4>3, NewContractFields DEF new_contract, At
      <4>4. CASE record_event_dictionary
        BY <1>1, <2>1, <4>4, RecordFields DEF record_event_dictionary, At
      <4>5. QED
        BY <2>2, <4>1, <4>2, <4>3, <4>4
    <3>2. Todo' = Todo \ {Head(run.steps)}
      BY <2>1, <3>1, PoppedControl
    <3>3. QED
      BY <2>1, <3>1, <3>2, OtherNew DEF Popped
  <2>3. CASE return_if_zero
    <3>1. Kept /\ run'.new = run.new /\ Head(run.steps) = "return_if_zero"
      BY <2>1, <2>3, ReturnFields DEF return_if_zero, At
    <3>2. Todo' = {} \/ Todo' = Todo \ {"return_if_zero"}
      BY <2>1, <2>3, <3>1, ReturnControl
    <3>3. QED
      BY <2>1, <3>1, <3>2, OtherNew
  <2>4. CASE Computes \/ call_transfer_balance \/ call_contract
    BY <1>1, <2>1, <2>4, ComputeNew, TransferNew, CallNew
  <2>5. CASE Commit \/ OutOfGas
    BY <1>1, <2>5, FailEnds DEF Commit, OutOfGas
  <2>6. QED
    BY <1>3, <2>2, <2>3, <2>4, <2>5, Kinds
<1>4. QED
  BY <1>2, <1>3

\* The same badge for all.
Uniform(keys, badge) == [k \in keys |-> badge]

\* Only this field of the copy is written.
Only(field) == DOMAIN copy' = StateFields /\ \A f \in StateFields \ {field} : copy'[f] = copy[f]

LEMMA WriteEffect ==
  ASSUME Control, DOMAIN copy = StateFields, Writes
  PROVE  \/ /\ Head(run.steps) = "write_allowance" /\ Only("allowances")
            /\ copy'.allowances = [copy.allowances EXCEPT ![Grant] = run.new["allowance"]]
         \/ /\ Head(run.steps) = "write_sender_balance" /\ Only("balances")
            /\ copy'.balances = [copy.balances EXCEPT ![From] = run.new["sender"]]
         \/ /\ Head(run.steps) = "write_recipient_balance" /\ Only("balances")
            /\ copy'.balances = [copy.balances EXCEPT ![To] = run.new["recipient"]]
         \/ /\ Head(run.steps) = "write_supply" /\ Only("total_supply")
            /\ copy'.total_supply = run.new["supply"]
         \/ /\ Head(run.steps) = "change_sec_badge" /\ Only("security_badges")
            /\ copy'.security_badges =
                 Over(Contract!badge_map(caller, List("admin_list"), List("minter_list"),
                                         List("none_list")), copy.security_badges)
         \/ /\ Head(run.steps) = "new_dictionaries" /\ Only("initialized")
            /\ copy'.initialized = TRUE
         \/ /\ Head(run.steps) = "write_initial_balance" /\ Only("balances")
            /\ copy'.balances =
                 [copy.balances EXCEPT ![get_caller(run.stack)] = run.args["total_supply"]]
         \/ /\ Head(run.steps) = "write_installer_badge" /\ Only("security_badges")
            /\ copy'.security_badges =
                 Over(Uniform({get_caller(run.stack)}, "Admin"), copy.security_badges)
         \/ /\ Head(run.steps) = "write_minters" /\ Only("security_badges")
            /\ copy'.security_badges =
                 Over(Uniform(List("minter_list"), "Minter"), copy.security_badges)
         \/ /\ Head(run.steps) = "write_admins" /\ Only("security_badges")
            /\ copy'.security_badges =
                 Over(Uniform(List("admin_list"), "Admin"), copy.security_badges)
         \/ /\ Head(run.steps) = "store_result" /\ Only("result")
            /\ copy'.result = {run.new["result"]}
<1>1. CASE write_allowance_to
  BY <1>1 DEF write_allowance_to, At, Write, Only, StateFields
<1>2. CASE write_balance_to
  BY <1>2 DEF write_balance_to, At, Write, Only, StateFields
<1>3. CASE write_total_supply_to
  BY <1>3 DEF write_total_supply_to, At, Write, Only, StateFields
<1>4. CASE change_sec_badge
  BY <1>4 DEF change_sec_badge, At, Write, Only, StateFields
<1>5. CASE init_writes
  BY <1>5 DEF init_writes, At, Write, Badges, Only, StateFields, Uniform
<1>6. CASE store_result
  BY <1>6 DEF store_result, At, Write, Only, StateFields
<1>7. QED
  BY <1>1, <1>2, <1>3, <1>4, <1>5, <1>6 DEF Writes

LEMMA OverTyped ==
  ASSUME NEW S, NEW D, NEW g \in [D -> S], NEW f, DOMAIN f \subseteq D,
         \A x \in DOMAIN f : f[x] \in S
  PROVE  Over(f, g) \in [D -> S]
BY DEF Over

LEMMA UniformTyped ==
  ASSUME NEW S, NEW D, NEW g \in [D -> S], NEW K \in SUBSET D, NEW badge \in S
  PROVE  Over(Uniform(K, badge), g) \in [D -> S]
<1>1. DOMAIN Uniform(K, badge) = K /\ \A k \in K : Uniform(K, badge)[k] = badge
  BY DEF Uniform
<1>2. QED
  BY <1>1, OverTyped

LEMMA BadgeMapTyped ==
  ASSUME NEW who, NEW admins \in SUBSET Key, NEW minters \in SUBSET Key, NEW nones \in SUBSET Key
  PROVE  LET map == Contract!badge_map(who, admins, minters, nones)
         IN  /\ DOMAIN map \subseteq Key
             /\ \A k \in DOMAIN map : map[k] \in Contract!SecurityBadge \cup {Contract!Absent}
BY DEF Contract!badge_map, Contract!SecurityBadge

\* Who installs, or is made Admin or Minter, is a key.
LEMMA WriteTyped ==
  ASSUME Control, Args, New, StateTyped(copy), Writes
  PROVE  StateTyped(copy')
<1> DEFINE e      == run.entry_point
           badges == Contract!SecurityBadge \cup {Contract!Absent}
<1>1. DOMAIN copy = StateFields /\ run.steps # <<>>
  BY WritePops DEF StateTyped, Popped
<1>2. Head(run.steps) # "store_result" => e \notin DOMAIN Calls
  BY <1>1, HeadOwn, WritePops, StepOf, CallTable DEF Control, ReadOnly
<1>3. Head(run.steps) # "store_result" =>
        /\ From \in Key /\ To \in Key /\ Grant \in Key \X Key
        /\ List("admin_list") \in SUBSET Key /\ List("minter_list") \in SUBSET Key
        /\ List("none_list") \in SUBSET Key /\ get_caller(run.stack) \in Key
  BY <1>2, PartiesKeys, CallerKey
<1>4. /\ Head(run.steps) \in Todo
      /\ \A y \in Todo : Rank(Head(run.steps)) <= Rank(y)
  BY <1>1, HeadTodo
<1>5. /\ "Admin" \in badges /\ "Minter" \in badges /\ "None" \in badges
  BY DEF Contract!SecurityBadge
<1>6. ASSUME DOMAIN copy' = StateFields
      PROVE  /\ Only("balances") /\ copy'.balances \in [Key -> U256] => StateTyped(copy')
             /\ /\ Only("allowances") /\ copy'.allowances \in [Key \X Key -> U256]
                => StateTyped(copy')
             /\ Only("total_supply") /\ copy'.total_supply \in U256 => StateTyped(copy')
             /\ Only("security_badges") /\ copy'.security_badges \in [Key -> badges]
                => StateTyped(copy')
             /\ Only("initialized") => StateTyped(copy')
             /\ Only("result") /\ copy'.result \in SUBSET U256 => StateTyped(copy')
  BY DEF StateTyped, Only, StateFields
<1>7. CASE Head(run.steps) = "write_allowance"
  <2>1. "new_allowance" \notin Todo
    BY <1>4, <1>7, RankTable
  <2>2. run.new["allowance"] \in U256
    BY <1>4, <1>7, <2>1 DEF New, Pending
  <2>3. copy.allowances \in [Key \X Key -> U256]
    BY DEF StateTyped
  <2>4. Only("allowances") /\ copy'.allowances \in [Key \X Key -> U256]
    BY <1>1, <1>3, <1>7, <2>2, <2>3, WriteEffect
  <2>5. QED
    BY <1>6, <2>4 DEF Only
<1>8. CASE Head(run.steps) = "write_sender_balance"
  <2>1. "new_sender_balance" \notin Todo
    BY <1>4, <1>8, RankTable
  <2>2. run.new["sender"] \in U256
    BY <1>4, <1>8, <2>1 DEF New, Pending
  <2>3. copy.balances \in [Key -> U256]
    BY DEF StateTyped
  <2>4. Only("balances") /\ copy'.balances \in [Key -> U256]
    BY <1>1, <1>3, <1>8, <2>2, <2>3, WriteEffect
  <2>5. QED
    BY <1>6, <2>4 DEF Only
<1>9. CASE Head(run.steps) = "write_recipient_balance"
  <2>1. "new_recipient_balance" \notin Todo
    BY <1>4, <1>9, RankTable
  <2>2. run.new["recipient"] \in U256
    BY <1>4, <1>9, <2>1 DEF New, Pending
  <2>3. copy.balances \in [Key -> U256]
    BY DEF StateTyped
  <2>4. Only("balances") /\ copy'.balances \in [Key -> U256]
    BY <1>1, <1>3, <1>9, <2>2, <2>3, WriteEffect
  <2>5. QED
    BY <1>6, <2>4 DEF Only
<1>10. CASE Head(run.steps) = "write_supply"
  <2>1. "new_supply" \notin Todo
    BY <1>4, <1>10, RankTable
  <2>2. run.new["supply"] \in U256
    BY <1>4, <1>10, <2>1 DEF New, Pending
  <2>3. Only("total_supply") /\ copy'.total_supply \in U256
    BY <1>1, <1>10, <2>2, WriteEffect
  <2>4. QED
    BY <1>6, <2>3 DEF Only
<1>11. CASE Head(run.steps) = "write_initial_balance"
  <2>1. e = "init"
    BY <1>1, <1>11, HeadOwn, StepOf DEF Control
  <2>2. ~(Rank("write_initial_balance") <= Rank("total_supply"))
    BY RankTable
  <2>3. "total_supply" \in Own(e) \cap Arguments /\ "total_supply" \in Required
    BY <2>1, OwnSteps, OptionalTable DEF Required, Arguments
  <2>4. run.args["total_supply"] \in U256
    BY <1>1, <1>11, <2>2, <2>3, ArgumentRead DEF Args, ArgsTyped
  <2>5. copy.balances \in [Key -> U256]
    BY DEF StateTyped
  <2>6. Only("balances") /\ copy'.balances \in [Key -> U256]
    BY <1>1, <1>3, <1>11, <2>4, <2>5, WriteEffect
  <2>7. QED
    BY <1>6, <2>6 DEF Only
<1>12. CASE Head(run.steps) \in {"change_sec_badge", "write_installer_badge", "write_minters",
                                 "write_admins"}
  <2>1. copy.security_badges \in [Key -> badges]
    BY DEF StateTyped
  <2> HIDE DEF badges
  <2>2. copy'.security_badges \in [Key -> badges] /\ Only("security_badges")
    <3>1. CASE Head(run.steps) = "change_sec_badge"
      <4> DEFINE map == Contract!badge_map(caller, List("admin_list"), List("minter_list"),
                                           List("none_list"))
      <4>1. DOMAIN map \subseteq Key /\ \A k \in DOMAIN map : map[k] \in badges
        BY <1>3, <1>5, <3>1, BadgeMapTyped DEF badges
      <4> HIDE DEF map
      <4>2. Over(map, copy.security_badges) \in [Key -> badges]
        BY <2>1, <4>1, OverTyped
      <4>3. QED
        BY <1>1, <3>1, <4>2, WriteEffect DEF map
    <3>2. CASE Head(run.steps) = "write_installer_badge"
      <4>1. {get_caller(run.stack)} \in SUBSET Key
        BY <1>3, <3>2
      <4>2. Over(Uniform({get_caller(run.stack)}, "Admin"), copy.security_badges) \in [Key -> badges]
        BY <1>5, <2>1, <4>1, UniformTyped
      <4>3. QED
        BY <1>1, <3>2, <4>2, WriteEffect
    <3>3. CASE Head(run.steps) = "write_minters"
      <4>1. List("minter_list") \in SUBSET Key
        BY <1>3, <3>3
      <4>2. Over(Uniform(List("minter_list"), "Minter"), copy.security_badges) \in [Key -> badges]
        BY <1>5, <2>1, <4>1, UniformTyped
      <4>3. QED
        BY <1>1, <3>3, <4>2, WriteEffect
    <3>4. CASE Head(run.steps) = "write_admins"
      <4>1. List("admin_list") \in SUBSET Key
        BY <1>3, <3>4
      <4>2. Over(Uniform(List("admin_list"), "Admin"), copy.security_badges) \in [Key -> badges]
        BY <1>5, <2>1, <4>1, UniformTyped
      <4>3. QED
        BY <1>1, <3>4, <4>2, WriteEffect
    <3>5. QED
      BY <1>12, <3>1, <3>2, <3>3, <3>4
  <2>3. QED
    BY <1>6, <2>2 DEF Only
<1>13. CASE Head(run.steps) = "new_dictionaries"
  <2>1. Only("initialized")
    BY <1>1, <1>13, WriteEffect
  <2>2. QED
    BY <1>6, <2>1 DEF Only
<1>14. CASE Head(run.steps) = "store_result"
  <2>1. run.source = "contract"
    <3>1. "call_contract" \notin Todo
      BY <1>4, <1>14, RankTable
    <3>2. run.entry_point \notin DOMAIN Calls
      BY <3>1 DEF Control
    <3>3. "store_result" \notin Own(run.entry_point)
      BY <3>2, StepOf DEF Control
    <3>4. QED
      BY <1>4, <1>14, <3>3 DEF Control
  <2>2. "ret" \notin Todo
    BY <1>4, <1>14, RankTable
  <2>3. run.new["result"] \in U256
    BY <1>4, <1>14, <2>1, <2>2 DEF New, Pending
  <2>4. Only("result") /\ copy'.result \in SUBSET U256
    BY <1>1, <1>14, <2>3, WriteEffect
  <2>5. QED
    BY <1>6, <2>4 DEF Only
<1>15. QED
  BY <1>7, <1>8, <1>9, <1>10, <1>11, <1>12, <1>13, <1>14, WritePops

LEMMA NewContractEffect ==
  ASSUME DOMAIN copy = StateFields, new_contract
  PROVE  /\ DOMAIN copy' = StateFields
         /\ copy'.total_supply = run.args["total_supply"]
         /\ copy'.events_mode = Given("events_mode", 0)
         /\ copy'.enable_mint_burn = Given("enable_mint_burn", 0)
         /\ copy'.initialized = copy.initialized /\ copy'.balances = copy.balances
         /\ copy'.allowances = copy.allowances
         /\ copy'.security_badges = copy.security_badges /\ copy'.result = copy.result
BY DEF new_contract, StateFields

LEMMA NewContractTyped ==
  ASSUME Control, Args, StateTyped(copy), new_contract
  PROVE  StateTyped(copy')
<1>1. Head(run.steps) = "new_contract" /\ run.steps # <<>>
  BY DEF new_contract, At
<1>2. run.entry_point = "call"
  BY <1>1, HeadOwn, StepOf DEF Control
<1>3. ~(Rank("new_contract") <= Rank("total_supply"))
  BY RankTable
<1>4. /\ "total_supply" \in Own(run.entry_point) \cap Arguments
      /\ "total_supply" \in Required
  BY <1>2, OwnSteps, OptionalTable DEF Required, Arguments
<1>5. "total_supply" \in DOMAIN run.args
  BY <1>1, <1>3, <1>4, ArgumentRead
<1>6. run.args["total_supply"] \in U256
  BY <1>5 DEF Args, ArgsTyped
<1>7. DOMAIN copy = StateFields
  BY DEF StateTyped
<1>8. QED
  BY <1>6, <1>7, NewContractEffect DEF StateTyped

TypesInv == StateTyped(ledger) /\ StateTyped(copy)

LEMMA TypesNext ==
  ASSUME ControlInv, ArgsInv, NewInv, TypesInv, Next PROVE TypesInv'
<1>1. CASE run = Idle
  BY <1>1, IdleStarts DEF Start, TypesInv
<1>2. CASE run # Idle
  <2>1. Control /\ Args /\ New /\ StateTyped(copy) /\ StateTyped(ledger)
    BY <1>2 DEF ControlInv, ArgsInv, NewInv, TypesInv
  <2>2. CASE run' = Idle
    <3>1. CASE Commit
      <4>1. ledger' = copy /\ copy' = copy
        BY <3>1 DEF Commit
      <4>2. QED
        BY <2>1, <4>1 DEF TypesInv
    <3>2. CASE ~Commit
      <4>1. ledger' = ledger /\ copy' = ledger
        BY <2>1, <2>2, <3>2, EndsByFail, FailEnds
      <4>2. QED
        BY <2>1, <4>1 DEF TypesInv
    <3>3. QED
      BY <3>1, <3>2
  <2>3. CASE run' # Idle
    <3>1. CASE Writes
      BY <2>1, <3>1, WriteTyped, WritePops DEF TypesInv
    <3>2. CASE new_contract
      BY <2>1, <3>2, NewContractTyped, NewContractFields DEF TypesInv
    <3>3. CASE Asks \/ Checks \/ Computes
      BY <2>1, <2>3, <3>3, AskPops, CheckPops, ComputePops DEF TypesInv
    <3>4. CASE record_event_dictionary \/ return_if_zero \/ call_transfer_balance
      BY <2>1, <2>3, <3>4, RecordFields, ReturnFields, TransferFields DEF TypesInv
    <3>5. CASE call_contract
      BY <2>1, <3>5 DEF call_contract, TypesInv
    <3>6. CASE Commit \/ OutOfGas
      BY <2>3, <3>6, FailEnds DEF Commit, OutOfGas
    <3>7. QED
      BY <1>2, <3>1, <3>2, <3>3, <3>4, <3>5, <3>6, Kinds
  <2>4. QED
    BY <2>2, <2>3
<1>3. QED
  BY <1>1, <1>2

-----------------------------------------------------------------------------
\* When no deploy runs there is nothing but what is committed.
CopyInv == run = Idle => copy = ledger

ExecutionInv == ControlInv /\ ArgsInv /\ NewInv /\ TypesInv /\ CopyInv

LEMMA CopyNext == ControlInv /\ CopyInv /\ Next => CopyInv'
<1>1. ASSUME ControlInv, Next, run' = Idle PROVE copy' = ledger'
  <2>1. CASE run = Idle
    BY <1>1, <2>1, IdleStarts DEF Start, Idle
  <2>2. CASE run # Idle /\ Commit
    BY <2>2 DEF Commit
  <2>3. CASE run # Idle /\ ~Commit
    BY <1>1, <2>3, EndsByFail, FailEnds DEF ControlInv
  <2>4. QED
    BY <2>1, <2>2, <2>3
<1>2. QED
  BY <1>1 DEF CopyInv

LEMMA ExecutionInit == Init => ExecutionInv
<1>1. ASSUME Init PROVE StateTyped(ledger)
  <2>1. ledger = [initialized |-> FALSE, balances |-> [k \in Key |-> 0],
                  allowances |-> [pair \in Key \X Key |-> 0], total_supply |-> 0,
                  security_badges |-> [k \in Key |-> Contract!Absent],
                  events_mode |-> 0, enable_mint_burn |-> 0, result |-> {}]
    BY <1>1 DEF Init
  <2>2. 0 \in U256
    BY CasperAssumption DEF U256
  <2>3. QED
    BY <2>1, <2>2 DEF StateTyped, StateFields
<1>2. QED
  BY <1>1 DEF Init, ExecutionInv, ControlInv, ArgsInv, NewInv, TypesInv, CopyInv

LEMMA Stutters == ExecutionInv /\ UNCHANGED vars => ExecutionInv'
BY DEF ExecutionInv, ControlInv, ArgsInv, NewInv, TypesInv, CopyInv, Control, Args, New, Todo,
       Pending, vars

\* Where a deploy stands, the arguments and numbers it will still need, and the types of what is
\* committed and of the copy: the invariant everything else about Execution rests on.
THEOREM ExecutionInvariant == Spec => []ExecutionInv
<1>1. ExecutionInv /\ Next => ExecutionInv'
  BY ControlNext, ArgsNext, NewNext, TypesNext, CopyNext DEF ExecutionInv, TypesInv
<1>2. ExecutionInv /\ [Next]_vars => ExecutionInv'
  BY <1>1, Stutters
<1>3. QED
  BY <1>2, ExecutionInit, PTL DEF Spec

\* Neither what is committed nor a copy in the middle of a deploy ever holds a number that is no
\* U256, whatever is called with whatever arguments.
THEOREM ExecutionTypes == Spec => []TypeOK
<1>1. ExecutionInv => TypeOK
  BY DEF ExecutionInv, TypesInv, StateTyped, TypeOK
<1>2. QED
  BY <1>1, ExecutionInvariant, PTL

-----------------------------------------------------------------------------
(***************************************************************************)
(* Where deploys end                                                       *)
(***************************************************************************)
LEMMA Answered == ASSUME NEW error, Fail(error) PROVE deploy'.error = error
BY DEF Fail, Answer

LEMMA EndError ==
  ASSUME Control, Next, run' = Idle
  PROVE  /\ deploy'.error = Ok <=> Commit
         /\ Commit => run.steps = <<>> /\ Todo = {}
<1>1. Commit => deploy'.error = Ok /\ run.steps = <<>>
  BY DEF Commit, Answer
<1>2. ~Commit => deploy'.error # Ok
  BY EndsByFail, Answered DEF Errors, Ok
<1>3. run.steps = <<>> => Todo = {}
  BY EmptySteps DEF Todo
<1>4. QED
  BY <1>1, <1>2, <1>3

\* The step at which a deploy fails tells the action it fails in.
LEMMA FailsAt ==
  ASSUME Control, Next, run' = Idle, ~Commit, deploy'.error # "OutOfGas"
  PROVE  /\ Head(run.steps) \in Arguments => Asks
         /\ Head(run.steps) \in {"owner_is_not_spender", "sender_is_not_recipient",
               "owner_is_caller", "enabled", "not_initialized", "sec_check", "init_events"} => Checks
         /\ Head(run.steps) \in {"new_allowance", "new_sender_balance", "new_recipient_balance",
                                 "new_supply", "ret"} => Computes
         /\ Head(run.steps) = "record_event" => record_event_dictionary
         /\ Head(run.steps) \in Arguments \cup {"owner_is_not_spender",
               "sender_is_not_recipient", "owner_is_caller", "enabled", "not_initialized",
               "sec_check", "init_events", "new_allowance", "new_sender_balance",
               "new_recipient_balance", "new_supply", "ret", "record_event"}
<1>1. ~OutOfGas
  BY Answered DEF OutOfGas
<1>2. Asks => Head(run.steps) \in Arguments
  BY ArgumentNames DEF Asks, get_named_arg, At
<1>3. Checks => Head(run.steps) \in {"owner_is_not_spender", "sender_is_not_recipient",
               "owner_is_caller", "enabled", "not_initialized", "sec_check", "init_events"}
  BY DEF Checks, Check, sec_check, init_events, At
<1>4. Computes => Head(run.steps) \in {"new_allowance", "new_sender_balance",
                                       "new_recipient_balance", "new_supply", "ret"}
  BY DEF Computes, new_allowance, new_sender_balance, new_recipient_balance,
         new_total_supply, ret, At
<1>5. record_event_dictionary => Head(run.steps) = "record_event"
  BY DEF record_event_dictionary, At
<1>6. QED
  BY <1>1, <1>2, <1>3, <1>4, <1>5, EndsByFail DEF Arguments

LEMMA ClientTable ==
    /\ DOMAIN ClientPasses = {"call", "transfer", "transfer_from", "approve",
            "increase_allowance", "decrease_allowance", "mint", "burn", "change_security"}
    /\ ClientPasses["call"] = {"name", "symbol", "decimals", "total_supply", "events_mode",
                               "enable_mint_burn"}
    /\ ClientPasses["transfer"] = {"recipient", "amount"}
    /\ ClientPasses["transfer_from"] = {"owner", "recipient", "amount"}
    /\ \A e \in {"approve", "increase_allowance", "decrease_allowance"} :
          ClientPasses[e] = {"spender", "amount"}
    /\ \A e \in {"mint", "burn"} : ClientPasses[e] = {"owner", "amount"}
    /\ ClientPasses["change_security"] = CommentedLists
BY DEF ClientPasses

\* An argument is refused to nobody but a session.
LEMMA AskFails ==
  ASSUME Control, Args, Asks, Next, run' = Idle
  PROVE  /\ run.source = "session"
         /\ Head(run.steps) \in Own(run.entry_point) \cap Arguments
         /\ \/ Head(run.steps) \in Required /\ deploy'.error = "MissingArgument"
            \/ deploy'.error \in Errors \ {"MissingArgument", "OutOfGas"}
<1>1. PICK x \in ArgumentName : get_named_arg(x)
  BY DEF Asks
<1>2. Head(run.steps) = x /\ run.steps # <<>> /\ x \in Arguments
  BY <1>1, ArgumentNames DEF get_named_arg, At
<1>3. x \in Own(run.entry_point)
  BY <1>2, HeadOwn DEF Arguments
<1>4. ~(\E name, args : Sought(name, args))
  BY <1>2, SoughtFields, RunStays DEF Popped
<1>5. \/ MayOmit(x) /\ x \notin DOMAIN Optional /\ Fail("MissingArgument")
      \/ /\ run.source = "session"
         /\ Fail(IF x \in DOMAIN Optional THEN Optional[x] ELSE "InvalidArgument")
  BY <1>1, <1>4 DEF get_named_arg
<1>6. CASE MayOmit(x) /\ x \notin DOMAIN Optional /\ Fail("MissingArgument")
  <2>1. x \in Required
    BY <1>2, <1>6 DEF Required
  <2>2. run.source # "contract"
    BY <1>3, <1>6, <2>1 DEF Args, MayOmit
  <2>3. ASSUME run.source = "client" PROVE FALSE
    <3>1. x \notin ClientPasses[run.entry_point] /\ run.entry_point \in DOMAIN ClientPasses
      BY <1>6, <2>3 DEF MayOmit, MayPass, Control
    <3>2. x \in ClientPasses[run.entry_point]
      BY <1>3, <2>1, <3>1, ClientTable, OwnSteps, OptionalTable DEF Required, Arguments
    <3>3. QED
      BY <3>1, <3>2
  <2>4. run.source = "session"
    BY <2>2, <2>3 DEF Control
  <2>5. QED
    BY <1>2, <1>3, <1>6, <2>1, <2>4, Answered
<1>7. CASE /\ run.source = "session"
           /\ Fail(IF x \in DOMAIN Optional THEN Optional[x] ELSE "InvalidArgument")
  BY <1>2, <1>3, <1>7, Answered, OptionalTable DEF Errors
<1>8. QED
  BY <1>5, <1>6, <1>7

\* The client, the test contract and install_contract pass what the code they call reads: only a
\* session that builds its own arguments is ever refused one.
THEOREM CallersPass == Spec => CallersPassWhatIsRead
<1>1. ASSUME ExecutionInv, Next, Ends, AtArgument, deploy'.error # "OutOfGas"
      PROVE  run.source = "session"
  <2>1. Control /\ Args /\ run' = Idle /\ run.steps # <<>> /\ Head(run.steps) \in Arguments
    BY <1>1, ArgumentNames DEF Ends, AtArgument, ExecutionInv, ControlInv, ArgsInv
  <2>2. ~Commit
    BY <2>1 DEF Commit
  <2>3. QED
    BY <1>1, <2>1, <2>2, FailsAt, AskFails
<1>2. ExecutionInv /\ [Next]_vars => [Ends /\ AtArgument /\ deploy'.error # "OutOfGas"
                                        => run.source = "session"]_vars
  BY <1>1
<1>3. QED
  BY <1>2, ExecutionInvariant, PTL DEF Spec, CallersPassWhatIsRead

-----------------------------------------------------------------------------
(***************************************************************************)
(* What is set at installation, and the checks that come before a write    *)
(***************************************************************************)
\* No deploy but the installation changes what is set at installation, and one that calls init
\* again never gets beyond its first step.
Config ==
    /\ run.deployed # "call" =>
          /\ copy.initialized = ledger.initialized
          /\ copy.events_mode = ledger.events_mode
          /\ copy.enable_mint_burn = ledger.enable_mint_burn
    /\ run.deployed = "init" => "not_initialized" \in Todo
    /\ run.deployed = "call" /\ run.entry_point = "init" =>
          "init_events" \in Todo \/ copy.events_mode \in EventsMode

ConfigInv ==
    /\ run # Idle => Config
    /\ ledger.initialized => ledger.events_mode \in EventsMode

\* The steps that come after the first write.
Late == {"write_sender_balance", "write_recipient_balance", "write_allowance", "write_supply",
         "record_event", "store_result"}

\* While anything but writes, the event and the result is left to do, nothing is written.
Unwritten == run.deployed # "call" => copy = ledger \/ Todo \subseteq Late

UnwrittenInv == run # Idle => Unwritten

LEMMA NotInitializedFirst ==
  \A x \in {"package_hash", "new_dictionaries", "total_supply", "write_initial_balance",
            "write_installer_badge", "admin_list", "minter_list", "init_events",
            "write_minters", "write_admins", "record_event"} :
      ~(Rank(x) <= Rank("not_initialized"))
BY RankTable

\* init is called by the installation alone, or is at its first step.
LEMMA InitSteps ==
  ASSUME Control, Config, run.steps # <<>>, run.deployed # "call",
         Head(run.steps) # "not_initialized"
  PROVE  run.entry_point # "init"
<1>1. ASSUME run.deployed = "init" PROVE FALSE
  <2>1. Rank(Head(run.steps)) <= Rank("not_initialized")
    BY <1>1, HeadTodo DEF Config
  <2>2. Head(run.steps) \in Own("init")
    <3>1. run.entry_point = "init"
      BY <1>1, CallTable DEF Control
    <3>2. QED
      BY <1>1, <3>1, HeadTodo, CallTable DEF Control
  <2>3. \A x \in Own("init") : x # "not_initialized" => ~(Rank(x) <= Rank("not_initialized"))
    <3>1. \A x \in Own("init") : x = "not_initialized" \/ x \in {"package_hash",
             "new_dictionaries", "total_supply", "write_initial_balance",
             "write_installer_badge", "admin_list", "minter_list", "init_events",
             "write_minters", "write_admins", "record_event"}
      BY OwnSteps
    <3>2. QED
      BY <3>1, NotInitializedFirst
  <2>4. QED
    BY <2>1, <2>2, <2>3
<1>2. QED
  BY <1>1, CallTable DEF Control

\* A write is made when only writes, the event and the result are left to do.
LEMMA WritesLate ==
  ASSUME Control, Config, Writes, run.deployed # "call"
  PROVE  /\ Todo' \subseteq Late
         /\ Head(run.steps) \in {"write_allowance", "write_sender_balance",
               "write_recipient_balance", "write_supply", "change_sec_badge", "store_result"}
<1> DEFINE head == Head(run.steps)
<1>1. /\ Popped /\ ledger' = ledger
      /\ head \in {"write_allowance", "write_sender_balance", "write_recipient_balance",
                   "write_supply", "change_sec_badge", "new_dictionaries",
                   "write_initial_balance", "write_installer_badge", "write_minters",
                   "write_admins", "store_result"}
  BY WritePops
<1>2. run.steps # <<>> /\ Todo' = Todo \ {head}
  BY <1>1, PoppedControl DEF Popped
<1>3. run.entry_point # "init"
  BY <1>1, <1>2, InitSteps
<1>4. head \in {"write_allowance", "write_sender_balance", "write_recipient_balance",
                "write_supply", "change_sec_badge", "store_result"}
  BY <1>1, <1>2, <1>3, HeadOwn, StepOf DEF Control
<1>5. \A y \in Todo : Rank(head) <= Rank(y)
  BY <1>2, HeadTodo
<1>6. Todo \subseteq Own(run.entry_point) \cup {"store_result"} /\ Todo \subseteq Step
  BY TailTodo DEF Control, After, Todo, Elements
<1>7. CASE head = "store_result"
  <2>1. \A y \in Step : Rank("store_result") <= Rank(y) => y = "store_result"
    BY RankTable DEF Step, Arguments
  <2>2. QED
    BY <1>2, <1>5, <1>6, <1>7, <2>1
<1>8. CASE head = "change_sec_badge"
  <2>1. run.entry_point = "change_security"
    BY <1>2, <1>8, HeadOwn, StepOf DEF Control
  <2>2. Own("change_security") = {"enabled", "sec_check", "admin_list", "minter_list",
                                  "none_list", "change_sec_badge", "record_event"}
    BY OwnSteps
  <2>3. \A y \in {"enabled", "sec_check", "admin_list", "minter_list", "none_list"} :
           ~(Rank("change_sec_badge") <= Rank(y))
    BY RankTable
  <2>4. \A y \in Todo : y \notin {"enabled", "sec_check", "admin_list", "minter_list", "none_list"}
    BY <1>5, <1>8, <2>3
  <2>5. QED
    BY <1>2, <1>6, <1>8, <2>1, <2>2, <2>4 DEF Late
<1>9. CASE head \in {"write_allowance", "write_sender_balance", "write_recipient_balance",
                     "write_supply"}
  <2>1. ASSUME NEW y \in Todo, y \notin Late \cup {"call_contract", "ret"} PROVE FALSE
    <3>1. \A x \in Step \ (Late \cup {"call_contract", "ret"}) :
             ~(Rank("write_sender_balance") <= Rank(x))
      BY RankTable DEF Step, Arguments, Late
    <3>2. Rank("write_sender_balance") <= Rank(head) /\ Rank("write_sender_balance") \in Nat
      BY <1>9, RankTable
    <3>3. head \in Step /\ y \in Step
      BY <1>6, <1>9 DEF Step
    <3>4. Rank(head) \in Nat /\ Rank(y) \in Nat
      BY <3>3, RankNat
    <3>5. ~(Rank("write_sender_balance") <= Rank(y))
      BY <2>1, <3>1, <3>3
    <3>6. Rank(head) <= Rank(y)
      BY <1>5
    <3>7. QED
      BY <3>2, <3>4, <3>5, <3>6
  <2>2. run.entry_point \in WithAmount
    BY <1>2, <1>9, HeadOwn, StepOf DEF Control, WithAmount
  <2>3. "call_contract" \notin Own(run.entry_point) /\ "ret" \notin Own(run.entry_point)
    BY <2>2, OwnSteps DEF WithAmount
  <2>4. "call_contract" \notin Todo /\ "ret" \notin Todo
    BY <1>6, <2>3
  <2>5. QED
    BY <1>2, <1>4, <2>1, <2>4
<1>10. QED
  BY <1>4, <1>7, <1>8, <1>9

\* A check that does not end the deploy has held.
LEMMA CheckHolds ==
  ASSUME Control, Checks, run' # Idle
  PROVE  /\ Head(run.steps) = "owner_is_not_spender" => caller # run.args["spender"]
         /\ Head(run.steps) = "sender_is_not_recipient" => From # To
         /\ Head(run.steps) = "owner_is_caller" => From = caller
         /\ Head(run.steps) = "enabled" => copy.enable_mint_burn # 0
         /\ Head(run.steps) = "not_initialized" => ~copy.initialized
         /\ Head(run.steps) = "sec_check" => copy.security_badges[caller] \in sec_check_list
         /\ Head(run.steps) = "init_events" => copy.events_mode \in EventsMode
BY FailEnds DEF Checks, Check, At, sec_check, init_events

\* The installation that commits has called init.
LEMMA CommittedInit ==
  ASSUME Control, Commit, run.deployed = "call"
  PROVE  run.entry_point = "init" /\ run.source = "contract" /\ Todo = {}
<1>1. Todo = {}
  BY EmptySteps DEF Commit, Todo
<1>2. run.entry_point # "call"
  BY <1>1, CallTable DEF Control
<1>3. QED
  BY <1>1, <1>2, CallTable DEF Control

LEMMA InitProgram ==
    "not_initialized" \in Elements(Program["init"]) /\ "init_events" \in Elements(Program["init"])
<1>1. Elements(Program["init"]) = Own("init")
  BY ProgramExact DEF EntryPoint
<1>2. QED
  BY <1>1, OwnSteps

LEMMA StartConfig ==
  ASSUME copy = ledger, NEW account \in Account, NEW source \in {"session", "client"},
         NEW e \in Called, Start(account, source, e)
  PROVE  Config' /\ Unwritten' /\ ledger' = ledger
<1>1. /\ run'.deployed = e /\ run'.entry_point = e /\ run'.steps = Program[e]
      /\ copy' = copy /\ ledger' = ledger
  BY DEF Start
<1>2. Todo' = Elements(Program[e])
  BY <1>1 DEF Todo
<1>3. "not_initialized" \in Elements(Program["init"])
  BY InitProgram
<1>4. QED
  BY <1>1, <1>2, <1>3 DEF Config, Unwritten

LEMMA ConfigSame ==
  ASSUME Control, Config, Popped, ledger' = ledger, Head(run.steps) # "call_contract",
         Head(run.steps) \notin {"not_initialized", "init_events"},
         run.deployed # "call" => /\ copy'.initialized = copy.initialized
                                  /\ copy'.enable_mint_burn = copy.enable_mint_burn,
         copy'.events_mode = copy.events_mode
  PROVE  Config'
<1>1. Todo' = Todo \ {Head(run.steps)}
  BY PoppedControl
<1>2. QED
  BY <1>1 DEF Config, Popped, Kept

LEMMA WriteConfig ==
  ASSUME Control, Config, StateTyped(copy), Writes
  PROVE  Config'
<1>1. /\ Popped /\ ledger' = ledger
      /\ Head(run.steps) \notin {"call_contract", "not_initialized", "init_events"}
  BY WritePops
<1>2. DOMAIN copy = StateFields
  BY DEF StateTyped
<1>3. copy'.events_mode = copy.events_mode
  BY <1>2, WriteEffect DEF Only, StateFields
<1>4. ASSUME run.deployed # "call"
      PROVE  /\ copy'.initialized = copy.initialized
             /\ copy'.enable_mint_burn = copy.enable_mint_burn
  <2>1. Head(run.steps) # "new_dictionaries"
    BY <1>4, WritesLate
  <2>2. QED
    BY <1>2, <2>1, WriteEffect DEF Only, StateFields
<1>5. QED
  BY <1>1, <1>3, <1>4, ConfigSame

LEMMA CheckConfig ==
  ASSUME Control, Config, Checks, run' # Idle
  PROVE  Config'
<1>1. /\ Popped /\ ledger' = ledger /\ copy' = copy /\ Head(run.steps) # "call_contract"
  BY CheckPops
<1>2. Todo' = Todo \ {Head(run.steps)}
  BY <1>1, PoppedControl
<1>3. Head(run.steps) = "not_initialized" => run.deployed = "call"
  BY CheckHolds DEF Config, Control
<1>4. Head(run.steps) = "init_events" => copy.events_mode \in EventsMode
  BY CheckHolds
<1>5. QED
  BY <1>1, <1>2, <1>3, <1>4 DEF Config, Popped, Kept

LEMMA CallConfig ==
  ASSUME Control, Config, call_contract
  PROVE  Config'
<1>1. /\ run'.entry_point = Calls[run.entry_point].callee /\ run'.deployed = run.deployed
      /\ ledger' = ledger /\ copy' = copy
  BY CallFields
<1>2. /\ run.entry_point = run.deployed /\ run.deployed \in DOMAIN Calls
      /\ Todo' = Elements(Program[Calls[run.entry_point].callee]) \cup After(run.deployed)
  BY <1>1, CallControl
<1>3. "init_events" \in Elements(Program["init"])
  BY InitProgram
<1>4. run.deployed # "init"
  BY <1>2, CallTable
<1>5. run.deployed = "call" => "init_events" \in Todo'
  <2>1. run.deployed = "call" => Calls[run.entry_point].callee = "init"
    BY <1>2, CallTable
  <2>2. QED
    BY <1>2, <1>3, <2>1
<1>6. QED
  BY <1>1, <1>4, <1>5 DEF Config

LEMMA ConfigNext ==
  ASSUME ControlInv, TypesInv, CopyInv, ConfigInv, Next PROVE ConfigInv'
<1>1. CASE run = Idle
  BY <1>1, IdleStarts, StartConfig DEF CopyInv, ConfigInv
<1>2. CASE run # Idle
  <2>1. Control /\ Config /\ StateTyped(copy)
    BY <1>2 DEF ControlInv, ConfigInv, TypesInv
  <2>2. CASE run' = Idle
    <3>1. CASE Commit
      <4>1. ledger' = copy
        BY <3>1 DEF Commit
      <4>2. copy.initialized => copy.events_mode \in EventsMode
        <5>1. CASE run.deployed = "call"
          BY <2>1, <3>1, <5>1, CommittedInit DEF Config
        <5>2. CASE run.deployed # "call"
          BY <2>1, <5>2 DEF Config, ConfigInv
        <5>3. QED
          BY <5>1, <5>2
      <4>3. QED
        BY <2>2, <4>1, <4>2 DEF ConfigInv
    <3>2. CASE ~Commit
      <4>1. ledger' = ledger
        BY <2>1, <2>2, <3>2, EndsByFail, FailEnds
      <4>2. QED
        BY <2>2, <4>1 DEF ConfigInv
    <3>3. QED
      BY <3>1, <3>2
  <2>3. CASE run' # Idle
    <3>1. ledger' = ledger /\ Config'
      <4>1. CASE Asks
        BY <2>1, <2>3, <4>1, AskPops, ConfigSame, ArgumentNames DEF Arguments
      <4>2. CASE Checks
        BY <2>1, <2>3, <4>2, CheckPops, CheckConfig
      <4>3. CASE Computes
        BY <2>1, <2>3, <4>3, ComputePops, ConfigSame
      <4>4. CASE Writes
        BY <2>1, <4>4, WritePops, WriteConfig
      <4>5. CASE record_event_dictionary
        <5>1. /\ Popped /\ ledger' = ledger /\ copy' = copy
              /\ Head(run.steps) = "record_event"
          BY <2>1, <2>3, <4>5, RecordFields DEF record_event_dictionary, At
        <5>2. QED
          BY <2>1, <5>1, ConfigSame
      <4>6. CASE new_contract
        <5>1. Popped /\ ledger' = ledger
          BY <2>1, <4>6, NewContractFields
        <5>2. run.entry_point = "call"
          BY <2>1, <4>6, HeadOwn, StepOf DEF new_contract, At, Control
        <5>3. QED
          BY <2>1, <5>1, <5>2, CallTable DEF Config, Control, Popped, Kept
      <4>7. CASE return_if_zero
        <5>1. Kept /\ ledger' = ledger /\ copy' = copy
          BY <2>1, <4>7, ReturnFields
        <5>2. run.entry_point = "transfer_from"
          BY <2>1, <4>7, HeadOwn, StepOf DEF return_if_zero, At, Control
        <5>3. QED
          BY <2>1, <5>1, <5>2, CallTable DEF Config, Control, Kept
      <4>8. CASE call_transfer_balance
        <5>1. Kept /\ ledger' = ledger /\ copy' = copy
          BY <2>1, <4>8, TransferFields
        <5>2. run.entry_point \in {"transfer", "transfer_from"}
          BY <2>1, <4>8, HeadOwn, StepOf DEF call_transfer_balance, At, Control
        <5>3. QED
          BY <2>1, <5>1, <5>2, CallTable DEF Config, Control, Kept
      <4>9. CASE call_contract
        BY <2>1, <4>9, CallFields, CallConfig
      <4>10. CASE Commit \/ OutOfGas
        BY <2>3, <4>10, FailEnds DEF Commit, OutOfGas
      <4>11. QED
        BY <1>2, <4>1, <4>2, <4>3, <4>4, <4>5, <4>6, <4>7, <4>8, <4>9, <4>10, Kinds
    <3>2. QED
      BY <3>1 DEF ConfigInv
  <2>4. QED
    BY <2>2, <2>3
<1>3. QED
  BY <1>1, <1>2

\* Steps that write nothing.
LEMMA UnwrittenSame ==
  ASSUME Unwritten, ledger' = ledger, copy' = copy, run'.deployed = run.deployed,
         Todo' \subseteq Todo \/ ~(Todo \subseteq Late)
  PROVE  Unwritten'
BY DEF Unwritten

LEMMA UnwrittenNext ==
  ASSUME ControlInv, CopyInv, ConfigInv, UnwrittenInv, Next PROVE UnwrittenInv'
<1>1. SUFFICES ASSUME run' # Idle PROVE Unwritten'
  BY DEF UnwrittenInv
<1>2. CASE run = Idle
  BY <1>2, IdleStarts, StartConfig DEF CopyInv
<1>3. CASE run # Idle
  <2>1. Control /\ Config /\ Unwritten
    BY <1>3 DEF ControlInv, ConfigInv, UnwrittenInv
  <2>2. CASE Asks \/ Checks \/ Computes \/ record_event_dictionary
    <3>1. /\ Popped /\ ledger' = ledger /\ copy' = copy
          /\ Head(run.steps) # "call_contract"
      BY <1>1, <2>1, <2>2, AskPops, CheckPops, ComputePops, RecordFields, ArgumentNames
         DEF Arguments, record_event_dictionary, At
    <3>2. Todo' = Todo \ {Head(run.steps)}
      BY <2>1, <3>1, PoppedControl
    <3>3. QED
      BY <2>1, <3>1, <3>2, UnwrittenSame DEF Popped, Kept
  <2>3. CASE Writes
    BY <2>1, <2>3, WritesLate, WritePops DEF Unwritten, Popped, Kept
  <2>4. CASE new_contract
    <3>1. run.entry_point = "call"
      BY <2>1, <2>4, HeadOwn, StepOf DEF new_contract, At, Control
    <3>2. run'.deployed = run.deployed
      BY <2>1, <2>4, NewContractFields DEF Popped, Kept
    <3>3. QED
      BY <2>1, <3>1, <3>2, CallTable DEF Control, Unwritten
  <2>5. CASE return_if_zero
    <3>1. Kept /\ ledger' = ledger /\ copy' = copy
      BY <2>1, <2>5, ReturnFields
    <3>2. Todo' \subseteq Todo
      BY <2>1, <2>5, ReturnControl
    <3>3. QED
      BY <2>1, <3>1, <3>2, UnwrittenSame DEF Kept
  <2>6. CASE call_transfer_balance
    <3>1. Kept /\ ledger' = ledger /\ copy' = copy
      BY <2>1, <2>6, TransferFields
    <3>2. "transfer_balance" \in Todo
      BY <2>1, <2>6, HeadTodo DEF call_transfer_balance, At
    <3>3. QED
      BY <2>1, <3>1, <3>2, UnwrittenSame DEF Kept, Late
  <2>7. CASE call_contract
    <3>1. run'.deployed = run.deployed /\ ledger' = ledger /\ copy' = copy
      BY <2>1, <2>7, CallFields
    <3>2. "call_contract" \in Todo
      BY <2>1, <2>7, HeadTodo DEF call_contract, At
    <3>3. QED
      BY <2>1, <3>1, <3>2, UnwrittenSame DEF Late
  <2>8. CASE Commit \/ OutOfGas
    BY <1>1, <2>8, FailEnds DEF Commit, OutOfGas
  <2>9. QED
    BY <1>3, <2>2, <2>3, <2>4, <2>5, <2>6, <2>7, <2>8, Kinds
<1>4. QED
  BY <1>2, <1>3

ChecksInv == ExecutionInv /\ ConfigInv /\ UnwrittenInv

\* init_events is passed before anything is recorded, and events_mode never changes after that,
\* so whatever is checked is checked of a copy nobody has written to.
THEOREM ChecksInvariant == Spec => []ChecksInv
<1>1. Init => ConfigInv /\ UnwrittenInv
  BY DEF Init, ConfigInv, UnwrittenInv
<1>2. ASSUME ConfigInv, UnwrittenInv, UNCHANGED vars PROVE ConfigInv' /\ UnwrittenInv'
  BY <1>2 DEF ConfigInv, UnwrittenInv, Config, Unwritten, Todo, vars
<1>3. ExecutionInv /\ ConfigInv /\ UnwrittenInv /\ [Next]_vars => ConfigInv' /\ UnwrittenInv'
  BY <1>2, ConfigNext, UnwrittenNext DEF ExecutionInv
<1>4. QED
  BY <1>1, <1>3, ExecutionInvariant, PTL DEF Spec, ChecksInv

\* The events mode is right wherever an event is recorded.
LEMMA RecordSucceeds ==
  ASSUME Control, Config, ConfigInv, record_event_dictionary
  PROVE  copy.events_mode \in EventsMode
<1>1. Head(run.steps) = "record_event" /\ run.steps # <<>>
  BY DEF record_event_dictionary, At
<1>2. CASE run.deployed # "call"
  BY <1>2 DEF Config, ConfigInv, Control
<1>3. CASE run.deployed = "call"
  <2>1. run.entry_point \notin DOMAIN Calls
    BY <1>1, HeadOwn, StepOf DEF Control
  <2>2. run.entry_point = "init"
    BY <1>3, <2>1, CallTable DEF Control
  <2>3. ~(Rank("record_event") <= Rank("init_events"))
    BY RankTable
  <2>4. "init_events" \notin Todo
    BY <1>1, <2>3, HeadTodo
  <2>5. QED
    BY <1>3, <2>2, <2>4 DEF Config
<1>4. QED
  BY <1>2, <1>3

LEMMA RecordNeverFails ==
  ASSUME Control, Config, ConfigInv, record_event_dictionary
  PROVE  run' # Idle
<1>1. copy.events_mode \in EventsMode
  BY RecordSucceeds
<1>2. QED
  BY <1>1 DEF record_event_dictionary, Control, Fields, Idle

\* No entry point finds out that it must revert once it has written something: whether a call is
\* refused never depends on the platform undoing it.  Installation is the one exception.
THEOREM ChecksFirst == Spec => ChecksPrecedeWrites
<1>1. ASSUME ChecksInv, Next, Ends, deploy'.error \notin {Ok, "OutOfGas"}, run.deployed # "call"
      PROVE  copy = ledger
  <2>1. Control /\ Config /\ ConfigInv /\ Unwritten /\ run' = Idle
    BY <1>1 DEF Ends, ChecksInv, ExecutionInv, ControlInv, ConfigInv, UnwrittenInv
  <2>2. ~Commit
    BY <1>1, <2>1, EndError
  <2>3. run.steps # <<>>
    BY <1>1, <2>1, <2>2, EndsByFail
  <2>4. /\ Head(run.steps) \in Todo
        /\ Head(run.steps) \in Late => Head(run.steps) = "record_event"
    BY <1>1, <2>1, <2>2, <2>3, HeadTodo, FailsAt DEF Late, Arguments
  <2>5. Head(run.steps) # "record_event"
    BY <1>1, <2>1, <2>2, FailsAt, RecordNeverFails
  <2>6. QED
    BY <1>1, <2>1, <2>4, <2>5 DEF Unwritten
<1>2. ChecksInv /\ [Next]_vars =>
        [Ends /\ deploy'.error \notin {Ok, "OutOfGas"} /\ run.deployed # "call"
           => copy = ledger]_vars
  BY <1>1
<1>3. QED
  BY <1>2, ChecksInvariant, PTL DEF Spec, ChecksPrecedeWrites

\* Of all that can go wrong, an argument that is missing is found where it is read.
LEMMA MissingAsks ==
  ASSUME Control, Config, ConfigInv, Next, run' = Idle, deploy'.error = "MissingArgument"
  PROVE  Asks
<1>1. run # Idle /\ ~Commit
  BY Running, EndError DEF Ok
<1>2. ~OutOfGas
  BY Answered DEF OutOfGas
<1>3. ~Checks
  <2>1. ~Proceed \/ run.steps = <<>>
    BY ProceedFields, RunStays DEF Popped
  <2>2. ASSUME Checks
        PROVE  \E error \in {"CannotTargetSelfUser", "InvalidBurnTarget", "MintBurnDisabled",
                             "AlreadyInitialized", "InsufficientRights", "InvalidEventsMode"} :
                  Fail(error)
    BY <2>1, <2>2 DEF Checks, Check, At, sec_check, init_events
  <2>3. QED
    BY <2>2, Answered
<1>4. ~Computes
  <2>1. ~(\E name, value : Compute(name, value)) \/ run.steps = <<>>
    BY ComputeFields, RunStays DEF Popped
  <2>2. ASSUME Computes
        PROVE  \E error \in {"InsufficientAllowance", "InsufficientBalance", "Overflow"} :
                  Fail(error)
    BY <2>1, <2>2 DEF Computes, new_allowance, new_sender_balance, new_recipient_balance,
       new_total_supply, ret, At
  <2>3. QED
    BY <2>2, Answered
<1>5. ~record_event_dictionary
  BY RecordNeverFails
<1>6. QED
  BY <1>1, <1>2, <1>3, <1>4, <1>5, EndsByFail

\* The table of entry points tells callers what to pass: no deploy is refused for an argument
\* that is not declared, and none succeeds without having looked for all that are.
THEOREM DeclaredIsRead == Spec => DeclaredIsWhatIsRead
<1>1. ASSUME ChecksInv, Next, Ends, run.entry_point # "call", deploy'.error = "MissingArgument"
      PROVE  Head(run.steps) \in Parameters(run.entry_point)
  <2>1. Control /\ Args /\ Config /\ ConfigInv /\ run' = Idle
    BY <1>1 DEF Ends, ChecksInv, ExecutionInv, ControlInv, ConfigInv, ArgsInv
  <2>2. Asks
    BY <1>1, <2>1, MissingAsks
  <2>3. /\ run.source = "session" /\ run.steps # <<>>
        /\ Head(run.steps) \in Own(run.entry_point) \cap Required
    BY <1>1, <2>1, <2>2, AskFails, EndsByFail, EndError DEF Required, Ok
  <2>4. run.entry_point = run.deployed /\ run.entry_point \in EntryPoint
    BY <2>1, <2>3 DEF Control
  <2>5. run.entry_point # "init"
    BY <1>1, <2>1, <2>3, <2>4, InitSteps DEF Required, Arguments
  <2>6. \A e \in EntryPoint \ {"call", "init"} : Own(e) \cap Required \subseteq Declared[e]
    BY OwnSteps, DeclaredTable, OptionalTable DEF Required, Arguments, EntryPoint
  <2>7. QED
    BY <1>1, <2>3, <2>4, <2>5, <2>6 DEF Parameters
<1>2. ASSUME ChecksInv, Next, Ends, run.entry_point # "call", deploy'.error = Ok
      PROVE  Parameters(run.entry_point) \subseteq run.sought
  <2>1. Control /\ Args /\ run' = Idle
    BY <1>2 DEF Ends, ChecksInv, ExecutionInv, ControlInv, ArgsInv
  <2>2. Todo = {} /\ run.entry_point \in EntryPoint
    BY <1>2, <2>1, EndError DEF Control
  <2>3. \A e \in EntryPoint \ {"call"} : Declared[e] \subseteq Own(e) \cap Arguments
    BY OwnSteps, DeclaredTable DEF Arguments, EntryPoint
  <2>4. QED
    BY <1>2, <2>1, <2>2, <2>3 DEF Args, Parameters
<1>3. ChecksInv /\ [Next]_vars =>
        [Ends /\ run.entry_point # "call" =>
           /\ deploy'.error = "MissingArgument" => Head(run.steps) \in Parameters(run.entry_point)
           /\ deploy'.error = Ok /\ run.deployed # "call"
                 => Parameters(run.entry_point) \subseteq run.sought]_vars
  BY <1>1, <1>2
<1>4. QED
  BY <1>3, ChecksInvariant, PTL DEF Spec, DeclaredIsWhatIsRead

-----------------------------------------------------------------------------
(***************************************************************************)
(* What the test contract stores                                           *)
(***************************************************************************)
\* The token's answer to the call at hand.
Current ==
    CASE run.entry_point = "total_supply" -> ledger.total_supply
      [] run.entry_point = "balance_of" -> ledger.balances[run.args["address"]]
      [] run.entry_point = "allowance" -> ledger.allowances[<<run.args["owner"], run.args["spender"]>>]

\* The answer is computed from what is committed, then stored; nothing comes in between.
Result ==
    run.deployed \in TestEntryPoint /\ run.entry_point \in ReadOnly =>
        /\ "ret" \in Todo => "store_result" \in Todo
        /\ "store_result" \in Todo => copy = ledger
        /\ "ret" \notin Todo => Todo \subseteq {"store_result"} /\ run.new["result"] = Current
        /\ "store_result" \notin Todo => copy.result = {Current}

ResultInv == run # Idle => Result

\* The read-only entry points are called by the test contract with a result to store.
LEMMA ReadOnlyCalled ==
  ASSUME Control, run.deployed \in TestEntryPoint, run.entry_point \in ReadOnly
  PROVE  /\ run.source = "contract" /\ run.deployed # "call"
         /\ run.entry_point \notin DOMAIN Calls
         /\ run.deployed \in {"check_total_supply", "check_balance_of", "check_allowance_of"}
         /\ Todo \subseteq {"address", "owner", "spender", "ret", "store_result"}
<1>1. run.entry_point \notin DOMAIN Calls /\ run.source = "contract"
  BY CallTable DEF Control, ReadOnly, TestEntryPoint
<1>2. run.deployed \in {"check_total_supply", "check_balance_of", "check_allowance_of"}
  BY <1>1, CallTable DEF Control, ReadOnly, TestEntryPoint
<1>3. \A e \in ReadOnly : Own(e) \subseteq {"address", "owner", "spender", "ret"}
  BY OwnSteps DEF ReadOnly
<1>4. QED
  BY <1>1, <1>2, <1>3 DEF Control, After, TestEntryPoint

LEMMA ResultSame ==
  ASSUME Result, Kept, ledger' = ledger, copy' = copy, run'.new = run.new,
         run'.args = run.args, Todo' = Todo
  PROVE  Result'
BY DEF Result, Current, Kept

\* An argument is read before the answer is computed.
LEMMA AskResult ==
  ASSUME Control, Result, Popped, ledger' = ledger, copy' = copy,
         Head(run.steps) \in Arguments
  PROVE  Result'
<1>1. Todo' = Todo \ {Head(run.steps)} /\ Head(run.steps) \in Todo
  BY PoppedControl, HeadTodo DEF Popped, Arguments
<1>2. SUFFICES ASSUME run.deployed \in TestEntryPoint, run.entry_point \in ReadOnly PROVE Result'
  BY DEF Result, Popped, Kept
<1>3. "ret" \in Todo /\ "store_result" \in Todo /\ copy = ledger
  BY <1>1, <1>2 DEF Result, Arguments
<1>4. "ret" \in Todo' /\ "store_result" \in Todo'
  BY <1>1, <1>3 DEF Arguments
<1>5. QED
  BY <1>3, <1>4 DEF Result

LEMMA ReadArguments ==
  ASSUME Control, Args, run.entry_point \in ReadOnly, run.steps # <<>>,
         Head(run.steps) = "ret"
  PROVE  /\ run.entry_point = "allowance" =>
               Grant = <<run.args["owner"], run.args["spender"]>>
<1>1. CASE run.entry_point = "allowance"
  <2>1. ~(Rank("ret") <= Rank("owner")) /\ ~(Rank("ret") <= Rank("spender"))
    BY RankTable
  <2>2. /\ "owner" \in Own(run.entry_point) \cap Arguments /\ "owner" \in Required
        /\ "spender" \in Own(run.entry_point) \cap Arguments /\ "spender" \in Required
    BY <1>1, OwnSteps, OptionalTable DEF Required, Arguments
  <2>3. "owner" \in DOMAIN run.args /\ "spender" \in DOMAIN run.args
    BY <2>1, <2>2, ArgumentRead
  <2>4. QED
    BY <2>3 DEF Grant, From, Given
<1>2. QED
  BY <1>1

LEMMA RetResult ==
  ASSUME Control, Args, Result, StateTyped(copy), ret, run' # Idle
  PROVE  Result'
<1>1. Head(run.steps) = "ret" /\ run.steps # <<>> /\ Computes
  BY DEF ret, At, Computes
<1>2. /\ Popped /\ ledger' = ledger /\ copy' = copy /\ run'.args = run.args
      /\ run.entry_point \in ReadOnly
  BY <1>1, ComputePops, HeadOwn, StepOf DEF Control
<1>3. SUFFICES ASSUME run.deployed \in TestEntryPoint PROVE Result'
  BY <1>2 DEF Result, Popped, Kept
<1>4. Todo' = Todo \ {"ret"} /\ "ret" \in Todo
  BY <1>1, <1>2, PoppedControl, HeadTodo
<1>5. copy = ledger /\ "store_result" \in Todo'
  BY <1>2, <1>3, <1>4 DEF Result
<1>6. Todo' \subseteq {"store_result"}
  <2>1. \A x \in {"address", "owner", "spender"} : ~(Rank("ret") <= Rank(x))
    BY RankTable
  <2>2. \A y \in Todo : Rank("ret") <= Rank(y)
    BY <1>1, HeadTodo
  <2>3. \A y \in Todo : y \notin {"address", "owner", "spender"}
    BY <2>1, <2>2
  <2>4. QED
    BY <1>2, <1>3, <1>4, <2>3, ReadOnlyCalled
<1>7. run'.new["result"] = Current
  <2>1. PICK value : Compute("result", value) /\ value = Current
    BY <1>1, <1>2, <1>5, ReadArguments DEF ret, Current, ReadOnly
  <2>2. run'.new = Bind("result", value, run.new)
    BY <1>1, <2>1, ComputeFields
  <2>3. Bind("result", value, run.new)["result"] = value
    BY BindFacts
  <2>4. QED
    BY <2>1, <2>2, <2>3
<1>8. Current' = Current
  BY <1>2 DEF Current, Popped, Kept
<1>9. QED
  BY <1>2, <1>4, <1>5, <1>6, <1>7, <1>8 DEF Result

LEMMA StoreResult ==
  ASSUME Control, Result, StateTyped(copy), Writes
  PROVE  Result'
<1>1. Popped /\ ledger' = ledger /\ run'.args = run.args /\ run'.new = run.new
  BY WritePops
<1>2. SUFFICES ASSUME run.deployed \in TestEntryPoint, run.entry_point \in ReadOnly PROVE Result'
  BY <1>1 DEF Result, Popped, Kept
<1>3. Head(run.steps) \in Todo /\ Todo' = Todo \ {Head(run.steps)}
  BY <1>1, HeadTodo, PoppedControl, WritePops DEF Popped
<1>4. Head(run.steps) = "store_result"
  BY <1>2, <1>3, ReadOnlyCalled, WritePops
<1>5. "ret" \notin Todo
  <2>1. Rank("ret") = 40 /\ Rank("store_result") = 41
    BY RankTable
  <2>2. ~(Rank("store_result") <= Rank("ret"))
    BY <2>1
  <2>3. QED
    BY <1>1, <1>4, <2>2, HeadTodo DEF Popped
<1>6. copy'.result = {run.new["result"]}
  BY <1>4, WriteEffect DEF StateTyped
<1>7. Current' = Current
  BY <1>1 DEF Current, Popped, Kept
<1>8. run.new["result"] = Current /\ Todo \subseteq {"store_result"}
  BY <1>2, <1>5 DEF Result
<1>9. QED
  BY <1>1, <1>3, <1>4, <1>6, <1>7, <1>8 DEF Result

LEMMA CallResult ==
  ASSUME Control, Unwritten, call_contract
  PROVE  Result'
<1>1. /\ run'.entry_point = Calls[run.entry_point].callee /\ run'.deployed = run.deployed
      /\ ledger' = ledger /\ copy' = copy
  BY CallFields
<1>2. /\ run.entry_point = run.deployed /\ run.deployed \in DOMAIN Calls
      /\ Todo' = Elements(Program[run'.entry_point]) \cup After(run.deployed)
  BY CallControl
<1>3. SUFFICES ASSUME run.deployed \in TestEntryPoint, run'.entry_point \in ReadOnly PROVE Result'
  BY <1>1 DEF Result
<1>4. copy = ledger
  <2>1. "call_contract" \in Todo
    BY HeadTodo DEF call_contract, At
  <2>2. QED
    BY <1>3, <2>1 DEF Unwritten, Late, TestEntryPoint
<1>5. "store_result" \in After(run.deployed)
  BY <1>1, <1>2, <1>3, CallTable DEF After, ReadOnly, TestEntryPoint
<1>6. "ret" \in Elements(Program[run'.entry_point])
  <2>1. \A e \in ReadOnly : Elements(Program[e]) = Own(e) /\ "ret" \in Own(e)
    BY ProgramExact, OwnSteps DEF ReadOnly, EntryPoint
  <2>2. QED
    BY <1>3, <2>1
<1>7. QED
  BY <1>1, <1>2, <1>4, <1>5, <1>6 DEF Result

LEMMA ResultNext ==
  ASSUME ExecutionInv, UnwrittenInv, ResultInv, Next PROVE ResultInv'
<1>1. SUFFICES ASSUME run' # Idle PROVE Result'
  BY DEF ResultInv
<1>2. CASE run = Idle
  <2>1. PICK account \in Account, source \in {"session", "client"}, e \in Called :
           Start(account, source, e)
    BY <1>2, IdleStarts
  <2>2. run'.deployed = e /\ run'.entry_point = e
    BY <2>1 DEF Start
  <2>3. QED
    BY <2>2, CallTable DEF Result, ReadOnly, TestEntryPoint
<1>3. CASE run # Idle
  <2>1. Control /\ Args /\ Result /\ Unwritten /\ StateTyped(copy)
    BY <1>3 DEF ExecutionInv, ControlInv, ArgsInv, TypesInv, UnwrittenInv, ResultInv
  <2>2. CASE Asks
    BY <1>1, <2>1, <2>2, AskPops, AskResult, ArgumentNames
  <2>3. CASE Writes
    BY <2>1, <2>3, StoreResult
  <2>4. CASE ret
    BY <1>1, <2>1, <2>4, RetResult
  <2>5. CASE call_contract
    BY <2>1, <2>5, CallResult
  <2>6. CASE \/ Checks \/ record_event_dictionary
             \/ return_if_zero \/ call_transfer_balance \/ new_contract
             \/ (Computes /\ ~ret)
    <3>1. /\ run.steps # <<>>
          /\ Head(run.steps) \notin {"address", "owner", "spender", "ret", "store_result"}
      BY <2>6 DEF Checks, Check, sec_check, init_events, record_event_dictionary,
         return_if_zero, call_transfer_balance, new_contract, Computes, new_allowance,
         new_sender_balance, new_recipient_balance, new_total_supply, At
    <3>2. ~(run.deployed \in TestEntryPoint /\ run.entry_point \in ReadOnly)
      BY <2>1, <3>1, HeadTodo, ReadOnlyCalled
    <3>3. run'.deployed = run.deployed /\ run'.entry_point = run.entry_point
      BY <1>1, <2>1, <2>6, CheckPops, RecordFields, ReturnFields, TransferFields,
         NewContractFields, ComputePops DEF Popped, Kept
    <3>4. QED
      BY <3>2, <3>3 DEF Result
  <2>7. CASE Commit \/ OutOfGas
    BY <1>1, <2>7, FailEnds DEF Commit, OutOfGas
  <2>8. QED
    BY <1>3, <2>2, <2>3, <2>4, <2>5, <2>6, <2>7, Kinds
<1>4. QED
  BY <1>2, <1>3

\* After a check_ entry point of the test contract the key "result" holds what the token holds,
\* never an earlier answer.
THEOREM ResultsCurrent == Spec => ResultIsCurrent
<1>1. Init => ResultInv
  BY DEF Init, ResultInv
<1>2. ASSUME ResultInv, UNCHANGED vars PROVE ResultInv'
  BY <1>2 DEF ResultInv, Result, Current, Todo, vars
<1>3. ChecksInv /\ ResultInv /\ [Next]_vars => ResultInv'
  BY <1>2, ResultNext DEF ChecksInv
<1>4. ASSUME ChecksInv, ResultInv, Next, Ends, deploy'.error = Ok,
             run.entry_point \in ReadOnly, run.deployed \in TestEntryPoint
      PROVE  ledger'.result = {Current}
  <2>1. Control /\ Result /\ run' = Idle
    BY <1>4 DEF Ends, ChecksInv, ExecutionInv, ControlInv, ResultInv
  <2>2. Commit /\ Todo = {}
    BY <1>4, <2>1, EndError
  <2>3. QED
    BY <1>4, <2>1, <2>2 DEF Result, Commit
<1>5. ChecksInv /\ ResultInv /\ [Next]_vars =>
        [Ends /\ deploy'.error = Ok /\ run.entry_point \in ReadOnly
           /\ run.deployed \in TestEntryPoint =>
          ledger'.result = {CASE run.entry_point = "total_supply" -> ledger.total_supply
                              [] run.entry_point = "balance_of" ->
                                    ledger.balances[run.args["address"]]
                              [] run.entry_point = "allowance" ->
                                    ledger.allowances[<<run.args["owner"], run.args["spender"]>>]}]_vars
  BY <1>4 DEF Current
<1>6. QED
  BY <1>1, <1>3, <1>5, ChecksInvariant, PTL DEF Spec, ResultIsCurrent
====
