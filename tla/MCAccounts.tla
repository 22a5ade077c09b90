----------------------------- MODULE MCAccounts -----------------------------
EXTENDS Accounts, TLC
CONSTANTS p1, p2, a, b, hw, t1, g1, g2, m1

Load(ops, n, e, ts, gs) ==
  [ops |-> ops, accounts |-> n, errors |-> e, tokens |-> ts, subjects |-> gs]

\* Who may call themselves what; a token and the account it is for; bans.
SignUps == Load({"register", "delete", "callback", "complete"}, 2, 0, {}, {g1, g2})
Resets == Load({"register", "delete", "reset", "gen", "forgot"}, 2, 0, {t1}, {})
Bans == Load({"register", "delete", "moderate", "unban", "accstatus", "status"},
             1, 0, {}, {})
BansInErrors == Load({"register", "delete", "moderate"}, 1, 1, {}, {})

AllLoads == {SignUps, Resets, Bans, BansInErrors}
OnlyBans == {Bans}
MCMailOf == [g \in Subjects |-> m1]
=============================================================================
