---- MODULE EventReplay ----
(***************************************************************************)
(* What an observer who sees only the CES events of the contract can know  *)
(* of its state: the fields of each event, applied to the state before it. *)
(***************************************************************************)
EXTENDS CEP18

Credited(e) == IF e.type \in {"Mint", "Transfer", "TransferFrom"} THEN {e.recipient} ELSE {}
Debited(e)  == CASE e.type = "Transfer" -> {e.sender}
                 [] e.type \in {"TransferFrom", "Burn"} -> {e.owner}
                 [] OTHER -> {}

BalancesAfter(e) ==
    [k \in Key |-> balances[k] + (IF k \in Credited(e) THEN e.amount ELSE 0)
                               - (IF k \in Debited(e) THEN e.amount ELSE 0)]

AllowancesAfter(e) ==
    CASE e.type \in {"SetAllowance", "IncreaseAllowance", "DecreaseAllowance"} ->
            [allowances EXCEPT ![<<e.owner, e.spender>>] = e.allowance]
      [] e.type = "TransferFrom" ->
            [allowances EXCEPT ![<<e.owner, e.spender>>] = @ - e.amount]
      [] OTHER -> allowances

SupplyAfter(e) ==
    CASE e.type = "Mint" -> total_supply + e.amount
      [] e.type = "Burn" -> total_supply - e.amount
      [] OTHER -> total_supply

BadgesAfter(e) ==
    [k \in Key |-> IF e.type = "ChangeSecurity" /\ k \in DOMAIN e.sec_change_map
                   THEN e.sec_change_map[k] ELSE security_badges[k]]

\* With events_mode CES every change of a balance, an allowance or the supply, the initial
\* supply included, is exactly the one the emitted event describes, and so is every change
\* of a badge after installation (the badges init writes are in no event).
EventsTellEveryChange ==
    [][LET e == deploy'.event
       IN  events_mode' = 1 =>
              /\ balances' = BalancesAfter(e)
              /\ allowances' = AllowancesAfter(e)
              /\ total_supply' = SupplyAfter(e)
              /\ initialized => security_badges' = BadgesAfter(e)]_vars
====
