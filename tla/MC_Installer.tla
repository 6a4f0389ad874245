---- MODULE MC_Installer ----
EXTENDS Installer, TLC

AccountSymmetry == Permutations(Account)

\* Two unrelated names and one that begins like the end of the access prefix.
Names == {<<"X">>, <<"Y">>, <<"access_", "X">>}

\* No step reads the record of the previous deploy.
State == <<named_keys, packages, contracts>>
====
