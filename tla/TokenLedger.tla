---- MODULE TokenLedger ----
(***************************************************************************)
(* What the token promises its holders, free of error codes, call stacks,  *)
(* badges and 256-bit arithmetic: each step is made by one holder, and     *)
(* here is everything that holder can do.                                  *)
(***************************************************************************)
EXTENDS Integers, FiniteSets

CONSTANTS Holder, \* those who can hold tokens
          Limit   \* the most tokens there can ever be

VARIABLES
    created,  \* the token exists
    elastic,  \* tokens can be issued and retired
    tokens,   \* how many each holder has
    grants,   \* how many of an owner's tokens a spender may still move
    issuers,  \* who may issue tokens
    managers, \* who may appoint issuers and managers
    by        \* the holder the last step was made by; no holder before the first

rights == <<created, elastic, issuers, managers>>
vars   == <<rights, tokens, grants, by>>

\* Tokens are counted one by one: the supply is not a number kept beside them.
Supply == Cardinality({unit \in Holder \X (1..Limit) : unit[2] <= tokens[unit[1]]})

\* n tokens change hands.
Move(from, to, n) ==
    /\ from # to
    /\ n <= tokens[from]
    /\ tokens' = [tokens EXCEPT ![from] = @ - n, ![to] = @ + n]

Create(founder, n) ==
    /\ ~created
    /\ created'
    /\ elastic' \in BOOLEAN
    /\ managers' \subseteq issuers'
    /\ issuers' \subseteq Holder
    /\ tokens' = [h \in Holder |-> IF h = founder THEN n ELSE 0]
    /\ UNCHANGED grants

Pay(from, to, n) == created /\ Move(from, to, n) /\ UNCHANGED <<rights, grants>>

Grant(owner, spender, n) ==
    /\ created
    /\ owner # spender
    /\ grants' = [grants EXCEPT ![<<owner, spender>>] = n]
    /\ UNCHANGED <<rights, tokens>>

Collect(spender, owner, to, n) ==
    /\ created
    /\ n <= grants[<<owner, spender>>]
    /\ Move(owner, to, n)
    /\ grants' = [grants EXCEPT ![<<owner, spender>>] = @ - n]
    /\ UNCHANGED rights

Issue(issuer, to, n) ==
    /\ created /\ elastic
    /\ issuer \in issuers
    /\ Supply + n <= Limit
    /\ tokens' = [tokens EXCEPT ![to] = @ + n]
    /\ UNCHANGED <<rights, grants>>

Retire(owner, n) ==
    /\ created /\ elastic
    /\ n <= tokens[owner]
    /\ tokens' = [tokens EXCEPT ![owner] = @ - n]
    /\ UNCHANGED <<rights, grants>>

\* A manager decides about everybody but itself.
Appoint(manager) ==
    /\ created /\ elastic
    /\ manager \in managers
    /\ managers' \subseteq issuers'
    /\ issuers' \subseteq Holder
    /\ manager \in managers'
    /\ UNCHANGED <<created, elastic, tokens, grants>>

\* A step that is refused, or asks for nothing.
Nothing == UNCHANGED <<rights, tokens, grants>>

Init ==
    /\ created = FALSE
    /\ elastic = FALSE
    /\ tokens = [h \in Holder |-> 0]
    /\ grants = [pair \in Holder \X Holder |-> 0]
    /\ issuers = {}
    /\ managers = {}
    /\ by = {}

Step(actor) ==
    \/ Nothing
    \/ Appoint(actor)
    \/ \E n \in 0..Limit :
        \/ Create(actor, n)
        \/ Retire(actor, n)
        \/ \E other \in Holder :
            \/ Pay(actor, other, n)
            \/ Grant(actor, other, n)
            \/ Issue(actor, other, n)
            \/ \E owner \in Holder : Collect(actor, owner, other, n)

Next == \E actor \in Holder : by' = {actor} /\ Step(actor)

Spec == Init /\ [][Next]_vars
====
