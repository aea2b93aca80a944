----------------------------- MODULE MCProfile -----------------------------
EXTENDS Profile
CONSTANTS c1, c2
\* One command of any kind.
AnyOperation ==
  [c \in {c1} |-> {"refresh", "login", "workspace", "capacity", "logout", "set_pat", "revoke"}]
\* Two commands that both change the configuration, with and without a maintenance.
Configuring == [c \in {c1, c2} |-> IF c = c1 THEN {"workspace"} ELSE {"capacity"}]
OnlyRefresh == [c \in {c1} |-> {"refresh"}]
=============================================================================
