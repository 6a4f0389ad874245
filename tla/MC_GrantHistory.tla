---- MODULE MC_GrantHistory ----
EXTENDS GrantHistory

\* No step reads the record of the previous call.
StateAndHistory == <<state, history>>

NoLists == {{}}
====
