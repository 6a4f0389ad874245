---- MODULE GrantHistory ----
(***************************************************************************)
(* What one owner has offered one spender, and what the spender has moved, *)
(* over any number of calls.  approve overwrites: a spender that is quick  *)
(* enough takes the old amount before the owner's next approve and the new *)
(* amount after it.  The history says how much that can come to.           *)
(***************************************************************************)
EXTENDS CEP18

CONSTANTS Owner, Spender, \* the pair that is watched
          MaxOffered      \* bound on what the owner offers in all

ASSUME GrantHistoryAssumption == Owner \in Key /\ Spender \in Key /\ MaxOffered \in Nat

VARIABLES
    offered, \* every amount the owner has named in approve or increase_allowance
    taken,   \* what the spender has moved away from the owner
    latest,  \* the amount of the last approve, and of every increase_allowance since
    used     \* what the spender has moved since the last approve

history  == <<offered, taken, latest, used>>
histvars == <<vars, history>>

Same == UNCHANGED history

\* The call went through and was the owner's, for the spender.
Watched(owner, spender) ==
    /\ deploy'.error = Ok
    /\ owner = Owner /\ spender = Spender

approved(stack, spender, amount) ==
    IF Watched(get_immediate_caller_address(stack), spender)
    THEN /\ offered + amount <= MaxOffered
         /\ offered' = offered + amount
         /\ latest' = amount
         /\ used' = 0
         /\ UNCHANGED taken
    ELSE Same

increased(stack, spender, amount) ==
    IF Watched(get_immediate_caller_address(stack), spender)
    THEN /\ offered + amount <= MaxOffered
         /\ offered' = offered + amount
         /\ latest' = latest + amount
         /\ UNCHANGED <<taken, used>>
    ELSE Same

\* What was moved is told from the owner's balance.
moved(stack, owner) ==
    IF Watched(owner, get_immediate_caller_address(stack))
    THEN /\ taken' = taken + (balances[Owner] - balances'[Owner])
         /\ used' = used + (balances[Owner] - balances'[Owner])
         /\ UNCHANGED <<offered, latest>>
    ELSE Same

\* Call of CEP18, each entry point with what it adds to the history.
CallWithHistory(stack) ==
    \/ init(stack) /\ Same
    \/ \E spender \in Key, amount \in CallAmounts :
        \/ approve(stack, spender, amount) /\ approved(stack, spender, amount)
        \/ decrease_allowance(stack, spender, amount) /\ Same
        \/ increase_allowance(stack, spender, amount) /\ increased(stack, spender, amount)
    \/ \E recipient \in Key, amount \in CallAmounts : transfer(stack, recipient, amount) /\ Same
    \/ \E owner, recipient \in Key, amount \in CallAmounts :
        transfer_from(stack, owner, recipient, amount) /\ moved(stack, owner)
    \/ \E owner \in Key, amount \in CallAmounts :
        (mint(stack, owner, amount) \/ burn(stack, owner, amount)) /\ Same
    \/ \E admin_list, minter_list, none_list \in BadgeLists :
        change_security(stack, admin_list, minter_list, none_list) /\ Same

HistInit == Init /\ offered = 0 /\ taken = 0 /\ latest = 0 /\ used = 0

HistNext ==
    \/ Install /\ Same
    \/ \E stack \in CallStack : initialized /\ CallWithHistory(stack)

HistSpec == HistInit /\ [][HistNext]_histvars

-----------------------------------------------------------------------------
Allowance == allowances[<<Owner, Spender>>]

\* Over its whole life an allowance is never worth more than all the amounts the owner named.
WithinOffers == taken + Allowance <= offered

\* From an approve on, whatever was taken before it, the spender gets at most the amount it
\* names and those of later increases: an approve is a limit, not one more grant.
WithinLatest == used + Allowance <= latest

\* A spender that runs ahead of an approve gains the amounts offered before it, and no more.
TakenWithinOffers == WithinOffers /\ WithinLatest
====
