----------------------------- MODULE MCPhoneSocket -----------------------------
(* A few sign-ins, and the events of one case at a time.                     *)
EXTENDS PhoneSocket

Budget(list) == [e \in Events |-> Cardinality({i \in DOMAIN list : list[i] = e})]
Cases == {Budget(l) : l \in {<<"leave", "leave", "kick", "kick", "break", "break", "again", "block">>,
  <<"leave", "leave", "kick", "restart", "restart", "break", "block">>}}
================================================================================
