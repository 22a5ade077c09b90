------------------------------ MODULE Accounts ------------------------------
(***************************************************************************)
(* The accounts of the site and what is recorded against them: bans, banned *)
(* devices, password reset tokens, Google links, and the roster file the    *)
(* game server reads (src/src/src/routes/auth, routes/oauth_google.rs, and  *)
(* the auto-unban task of main.rs).                                         *)
(*                                                                         *)
(* Every handler runs its SQL statements one by one on a pool of            *)
(* connections, outside any transaction.  A request is therefore a record   *)
(* of its operation, of the statement it is about to run and of what it has *)
(* read so far; one definition below is one handler, one disjunct of it one *)
(* statement (a statement that only finds a reason to refuse changes        *)
(* nothing and ends the request).                                           *)
(***************************************************************************)
EXTENDS Integers, FiniteSets

CONSTANTS Requests,     \* requests the server can be running at a time
          Loads,        \* what a run is about: [ops, tokens, subjects: what
                        \* requests may ask for, with which of the Tokens and
                        \* Subjects; accounts, errors: how many accounts are
                        \* ever made and how many errors auto-unban meets]
          BanTypes,     \* the bans admins hand out
          Names,        \* usernames (and the players of the roster)
          Devices,      \* hardware ids
          Tokens,       \* password reset tokens, drawn at random
          Subjects,     \* Google accounts
          Mails,        \* their e-mail addresses
          MailOf,       \* the address Google reports for each
          MaxAccounts,  \* bound: accounts ever made, in any load
          MaxBans       \* bound: moderation rows of one account

Ids == 1 .. MaxAccounts
Kinds == {"temp", "expired", "perm", "poison"}
Passwords == {"none", "set"}
Says == {"absent", "ok", "temp", "perm", "poison"}

ASSUME AccountsAssumption ==
    /\ MaxAccounts \in Nat \ {0}
    /\ MaxBans \in Nat \ {0}
    /\ \A w \in Loads : w.accounts \in Ids /\ w.errors \in Nat
         /\ w.tokens \subseteq Tokens /\ w.subjects \subseteq Subjects
    /\ BanTypes \subseteq Kinds \ {"expired"}
    /\ MailOf \in [Subjects -> Mails]
    /\ "none" \notin Mails \cup Subjects \cup Names \cup Requests

VARIABLES load,     \* the one of this run
          users,    \* the live accounts by id
          made,     \* ids handed out: uuids are never drawn twice
          bans,     \* user_moderation: the rows of each account by number
          poisoned, \* poison_hwids: the account each banned device is kept for
          tokens,   \* password_reset_sessions by token
          drawn,    \* tokens ever drawn
          spent,    \* tokens a request has answered "Password changed" for
          pending,  \* Google accounts that hold an oauth_pending cookie
          roster,   \* authedPlayers.json: what it says of each player
          locked,   \* the request that holds the lock on it, if any
          copy,     \* the roster as each request read it
          sweep,    \* auto-unban: accounts selected and not yet unbanned
          errors,   \* database errors it met so far
          call      \* the requests

db == <<users, made, bans, poisoned, tokens, drawn>>
file == <<roster, locked, copy>>
unban == <<sweep, errors>>
vars == <<load, db, spent, pending, file, unban, call>>

Nobody == "none"
NoRows == [k \in {} |-> "none"]
Unread == [n \in Names |-> "absent"]
Idle == [op |-> "idle", step |-> "none", name |-> "none", id |-> 0,
         arg |-> "none", also |-> "none"]

Live == DOMAIN users
Named(n) == {i \in Live : users[i].name = n}
Linked(g) == {i \in Live : users[i].subject = g}
Mailed(m) == {i \in Live : users[i].mail = m}
Without(f, D) == [x \in DOMAIN f \ D |-> f[x]]
Said(kind) == IF kind = "expired" THEN "temp" ELSE kind

\* INSERT INTO users.  The id is fresh; username, email and (oauth_provider,
\* oauth_subject) are unique indexes, and a row that repeats one is an error.
InsertUser(u) ==
    /\ made < load.accounts
    /\ Named(u.name) = {}
    /\ u.mail = "none" \/ Mailed(u.mail) = {}
    /\ u.subject = "none" \/ Linked(u.subject) = {}
    /\ made' = made + 1
    /\ users' = [i \in Live \cup {made'} |-> IF i = made' THEN u ELSE users[i]]

\* UPDATE users ... WHERE id = ?: no row, no change and no error.
UpdateUser(i, col, value) ==
    users' = IF i \in Live THEN [users EXCEPT ![i][col] = value] ELSE users

\* (Mutant: the clause that spares poison bans is missing.)
LiftBansAll(i) == bans' = [bans EXCEPT ![i] = NoRows]

\* DELETE FROM user_moderation WHERE user_id = ? AND type != 'poison'
LiftBans(i) ==
    bans' = [bans EXCEPT ![i] = Without(@, {k \in DOMAIN @ : @[k] # "poison"})]

\* INSERT INTO user_moderation: a row with a number of its own (of those an
\* account has left, the next one stands for it).
InsertBan(i, kind) ==
    \E k \in (1 .. MaxBans) \ DOMAIN bans[i] :
        /\ 1 .. k - 1 \subseteq DOMAIN bans[i]
        /\ bans' = [bans EXCEPT ![i] = [x \in DOMAIN @ \cup {k} |-> IF x = k THEN kind ELSE @[x]]]

\* (Mutant: the token outlives its use.)
SpendNothing(t) == tokens' = tokens

\* DELETE FROM password_reset_sessions WHERE session_token = ?
Spend(t) == tokens' = Without(tokens, {t})

-----------------------------------------------------------------------------
Init ==
    /\ load \in Loads
    /\ users = NoRows /\ made = 0 /\ bans = [i \in Ids |-> NoRows]
    /\ poisoned = NoRows /\ tokens = NoRows /\ drawn = {} /\ spent = {}
    /\ pending = {} /\ roster = Unread /\ locked = Nobody
    /\ copy = [p \in Requests |-> Unread]
    /\ sweep = {} /\ errors = 0
    /\ call = [p \in Requests |-> Idle]

At(p, op, step) == call[p].op = op /\ call[p].step = step
Becomes(p, r) == call' = [call EXCEPT ![p] = r]
Goes(p, step) == Becomes(p, [call[p] EXCEPT !.step = step])
Ends(p) == Becomes(p, Idle)
Starts(p, op, step, name, id, arg, also) ==
    /\ call[p] = Idle /\ op \in load.ops
    /\ Becomes(p, [op |-> op, step |-> step, name |-> name, id |-> id,
                   arg |-> arg, also |-> also])

\* A request ends before its next statement: a check refused, the database
\* failed, or the client went away.  What it has written stays written.  The
\* blocking task that writes the roster is not interrupted.
Stops(p) ==
    /\ call[p] # Idle /\ call[p].step \notin {"roster", "rewrite"}
    /\ Ends(p)
    /\ UNCHANGED <<db, spent, pending, file, unban>>

-----------------------------------------------------------------------------
(***************************************************************************)
(* Making and deleting accounts.                                           *)
(***************************************************************************)
\* POST /register: the device, then the username, then the row.
Register(p) ==
    /\ \/ /\ \E n \in Names, d \in Devices \ DOMAIN poisoned :
              Starts(p, "register", "username", n, 0, "none", "none")
          /\ UNCHANGED <<users, made>>
       \/ /\ At(p, "register", "username") /\ Named(call[p].name) = {}
          /\ Goes(p, "insert")
          /\ UNCHANGED <<users, made>>
       \/ /\ At(p, "register", "insert")
          /\ InsertUser([name |-> call[p].name, password |-> "set", mail |-> "none",
                         subject |-> "none"])
          /\ Ends(p)
    /\ UNCHANGED <<bans, poisoned, tokens, drawn, spent, pending, file, unban>>

\* DELETE /delete-account and DELETE /admin/delete-user: the row, and with it
\* by ON DELETE CASCADE the bans, the banned devices and the reset tokens kept
\* for it; then the bans once more.
DeleteUser(p) ==
    /\ \/ /\ \E n \in Names : \E i \in Named(n) :
              Starts(p, "delete", "user", n, i, "none", "none")
          /\ UNCHANGED <<users, bans, poisoned, tokens>>
       \/ /\ At(p, "delete", "user")
          /\ users' = Without(users, {call[p].id})
          /\ bans' = [bans EXCEPT ![call[p].id] = NoRows]
          /\ poisoned' = Without(poisoned, {d \in DOMAIN poisoned : poisoned[d] = call[p].id})
          /\ tokens' = Without(tokens, {t \in DOMAIN tokens : tokens[t].user = call[p].id})
          /\ Goes(p, "moderation")
       \/ /\ At(p, "delete", "moderation")
          /\ bans' = [bans EXCEPT ![call[p].id] = NoRows]
          /\ Ends(p)
          /\ UNCHANGED <<users, poisoned, tokens>>
    /\ UNCHANGED <<made, drawn, spent, pending, file, unban>>

\* GET /auth/oauth/google/callback, once Google has vouched for the subject:
\* sign in by subject, else link the account that has the (verified) address,
\* else remember the subject and ask for a username.
Callback(p) ==
    /\ \/ /\ \E g \in load.subjects, verified \in {"yes", "no"} :
              /\ Linked(g) = {}
              /\ Starts(p, "callback", "mail", "none", 0, g, verified)
          /\ UNCHANGED <<users, pending>>
       \/ /\ At(p, "callback", "mail") /\ call[p].also = "yes"
          /\ \E i \in Mailed(MailOf[call[p].arg]) :
              Becomes(p, [call[p] EXCEPT !.step = "link", !.id = i])
          /\ UNCHANGED <<users, pending>>
       \/ /\ At(p, "callback", "link") /\ Linked(call[p].arg) \subseteq {call[p].id}
          /\ UpdateUser(call[p].id, "subject", call[p].arg)
          /\ Ends(p)
          /\ UNCHANGED pending
       \/ /\ At(p, "callback", "mail")
          /\ call[p].also = "no" \/ Mailed(MailOf[call[p].arg]) = {}
          /\ pending' = pending \cup {call[p].arg}
          /\ Ends(p)
          /\ UNCHANGED users
    /\ UNCHANGED <<made, bans, poisoned, tokens, drawn, spent, file, unban>>

\* POST /auth/oauth/google/complete: a username for a pending subject.
Complete(p) ==
    /\ \/ /\ \E n \in Names, g \in pending, d \in Devices \ DOMAIN poisoned :
              Starts(p, "complete", "subject", n, 0, g, "none")
          /\ UNCHANGED <<users, made>>
       \/ /\ At(p, "complete", "subject") /\ Linked(call[p].arg) = {}
          /\ Goes(p, "username")
          /\ UNCHANGED <<users, made>>
       \/ /\ At(p, "complete", "username") /\ Named(call[p].name) = {}
          /\ Goes(p, "mail")
          /\ UNCHANGED <<users, made>>
       \/ /\ At(p, "complete", "mail") /\ Mailed(MailOf[call[p].arg]) = {}
          /\ Goes(p, "insert")
          /\ UNCHANGED <<users, made>>
       \/ /\ At(p, "complete", "insert")
          /\ InsertUser([name |-> call[p].name, password |-> "none",
                         mail |-> MailOf[call[p].arg], subject |-> call[p].arg])
          /\ Ends(p)
    /\ UNCHANGED <<bans, poisoned, tokens, drawn, spent, pending, file, unban>>

-----------------------------------------------------------------------------
(***************************************************************************)
(* Passwords.                                                              *)
(***************************************************************************)
\* POST /reset-password: verify the old password, hash the new one, store it.
ResetPassword(p) ==
    /\ \/ /\ \E n \in Names : \E i \in Named(n) :
              /\ users[i].password = "set"
              /\ Starts(p, "reset", "store", n, i, "none", "none")
          /\ UNCHANGED users
       \/ /\ At(p, "reset", "store")
          /\ UpdateUser(call[p].id, "password", "set")
          /\ Ends(p)
    /\ UNCHANGED <<made, bans, poisoned, tokens, drawn, spent, pending, file, unban>>

\* POST /admin/gen-pwd-reset: a token for a user, if the user is still there
\* when the row is inserted (it is a foreign key).
GenReset(p) ==
    /\ \/ /\ \E n \in Names : \E i \in Named(n) :
              Starts(p, "gen", "insert", n, i, "none", "none")
          /\ UNCHANGED <<tokens, drawn>>
       \/ /\ At(p, "gen", "insert") /\ call[p].id \in Live
          /\ \E t \in load.tokens \ drawn :
              /\ tokens' = [x \in DOMAIN tokens \cup {t} |->
                              IF x = t THEN [user |-> call[p].id, expired |-> FALSE]
                                       ELSE tokens[x]]
              /\ drawn' = drawn \cup {t}
          /\ Ends(p)
    /\ UNCHANGED <<users, made, bans, poisoned, spent, pending, file, unban>>

\* POST /forgot-password: find the token, refuse and delete it if it has
\* expired, find its user, store the new password, delete the token.
Forgot(p) ==
    /\ \/ /\ \E t \in DOMAIN tokens :
              Starts(p, "forgot", IF tokens[t].expired THEN "expired" ELSE "user",
                     "none", tokens[t].user, t, IF t \in spent THEN "spent" ELSE "none")
          /\ UNCHANGED <<users, tokens, spent>>
       \/ /\ At(p, "forgot", "expired")
          /\ Spend(call[p].arg)
          /\ Ends(p)
          /\ UNCHANGED <<users, spent>>
       \/ /\ At(p, "forgot", "user") /\ call[p].id \in Live
          /\ Goes(p, "store")
          /\ UNCHANGED <<users, tokens, spent>>
       \/ /\ At(p, "forgot", "store")
          /\ UpdateUser(call[p].id, "password", "set")
          /\ Goes(p, "spend")
          /\ UNCHANGED <<tokens, spent>>
       \/ /\ At(p, "forgot", "spend")
          /\ Spend(call[p].arg)
          /\ spent' = spent \cup {call[p].arg}
          /\ Ends(p)
          /\ UNCHANGED users
    /\ UNCHANGED <<made, bans, poisoned, drawn, pending, file, unban>>

-----------------------------------------------------------------------------
(***************************************************************************)
(* The roster file.  Every writer opens it for itself, takes the exclusive  *)
(* lock, reads all of it, changes one player's entry and writes all of it.  *)
(***************************************************************************)
\* (Mutant: nothing waits for the lock.)
RosterReadUnlocked(p) ==
    /\ call[p].step = "roster"
    /\ copy' = [copy EXCEPT ![p] = roster]
    /\ Goes(p, "rewrite")
    /\ UNCHANGED <<db, spent, pending, roster, locked, unban>>

\* update_authed_players_file, up to the parsed contents.
RosterRead(p) ==
    /\ call[p].step = "roster" /\ locked = Nobody
    /\ locked' = p
    /\ copy' = [copy EXCEPT ![p] = roster]
    /\ Goes(p, "rewrite")
    /\ UNCHANGED <<db, spent, pending, roster, unban>>

\* The rest of it: the entry is changed if the player has one; opening,
\* parsing or encoding may fail, which leaves the file alone; and so may the
\* write, which comes after the file was cut to nothing.  Whatever happens is
\* only logged, and the handler goes on.
RosterWritten(p, says) ==
    LET n == call[p].name
        entry == IF copy[p][n] = "absent" THEN "absent" ELSE says
    IN  /\ call[p].step = "rewrite"
        /\ roster' \in {[copy[p] EXCEPT ![n] = entry], roster, Unread}
        /\ locked' = Nobody
        /\ copy' = [copy EXCEPT ![p] = Unread]

\* External: the game server's plugin lists a player who joins.  The lock of
\* the file is advisory; that the plugin takes it too is a premise, and without
\* it a player who joins during a rewrite would be dropped from the file.
PlayerJoins(n) ==
    /\ locked = Nobody /\ roster[n] = "absent"
    /\ roster' = [roster EXCEPT ![n] = "ok"]
    /\ UNCHANGED <<db, spent, pending, locked, copy, unban, call>>

-----------------------------------------------------------------------------
(***************************************************************************)
(* Moderation.                                                             *)
(***************************************************************************)
\* POST /admin/moderate: find the user, see whether a row exists, update every
\* row of the user or insert one, note it in the roster (and set is_admin if
\* asked, a flag nothing below reads: PollRules and Polls keep it).
Moderate(p) ==
    LET i == call[p].id kind == call[p].arg IN
    /\ \/ /\ \E n \in Names, k \in BanTypes : \E u \in Named(n) :
              Starts(p, "moderate", "existing", n, u, k, "none")
          /\ UNCHANGED <<bans, roster, locked, copy>>
       \/ /\ At(p, "moderate", "existing")
          /\ Goes(p, IF bans[i] # NoRows THEN "update" ELSE "insert")
          /\ UNCHANGED <<bans, roster, locked, copy>>
       \/ /\ At(p, "moderate", "update")
          /\ bans' = [bans EXCEPT ![i] = [x \in DOMAIN @ |-> kind]]
          /\ Goes(p, "roster")
          /\ UNCHANGED <<roster, locked, copy>>
       \/ /\ At(p, "moderate", "insert") /\ i \in Live /\ InsertBan(i, kind)
          /\ Goes(p, "roster")
          /\ UNCHANGED <<roster, locked, copy>>
       \/ /\ call[p].op = "moderate" /\ RosterWritten(p, kind)
          /\ Ends(p)
          /\ UNCHANGED bans
    /\ UNCHANGED <<users, made, poisoned, tokens, drawn, spent, pending, unban>>

\* POST /admin/unban: poison bans stay, the roster is not told.
Unban(p) ==
    /\ \/ /\ \E n \in Names : \E i \in Named(n) :
              Starts(p, "unban", "lift", n, i, "none", "none")
          /\ UNCHANGED bans
       \/ /\ At(p, "unban", "lift")
          /\ LiftBans(call[p].id)
          /\ Ends(p)
    /\ UNCHANGED <<users, made, poisoned, tokens, drawn, spent, pending, file, unban>>

\* GET /accstatus-cuser, which the game server asks: the player's ban, copied
\* to the roster.
AccStatus(p) ==
    /\ \/ /\ \E n \in Names : \E i \in Named(n) :
              Starts(p, "accstatus", "ban", n, i, "none", "none")
          /\ UNCHANGED <<roster, locked, copy>>
       \/ /\ At(p, "accstatus", "ban")
          /\ LET rows == bans[call[p].id] IN
              IF rows = NoRows
              THEN Becomes(p, [call[p] EXCEPT !.step = "roster", !.arg = "ok"])
              ELSE \E k \in DOMAIN rows :
                     Becomes(p, [call[p] EXCEPT !.step = "roster", !.arg = Said(rows[k])])
          /\ UNCHANGED <<roster, locked, copy>>
       \/ /\ call[p].op = "accstatus" /\ RosterWritten(p, call[p].arg)
          /\ Ends(p)
    /\ UNCHANGED <<db, spent, pending, unban>>

\* GET /account-status: a poisoned account poisons the device it is read on.
\* INSERT IGNORE skips a device that is already listed or a user who is gone.
AccountStatus(p) ==
    /\ \/ /\ \E n \in Names, d \in Devices : \E i \in Named(n) :
              Starts(p, "status", "ban", n, i, d, "none")
          /\ UNCHANGED poisoned
       \/ /\ At(p, "status", "ban")
          /\ \E k \in DOMAIN bans[call[p].id] : bans[call[p].id][k] = "poison"
          /\ Goes(p, "device")
          /\ UNCHANGED poisoned
       \/ /\ At(p, "status", "device")
          /\ poisoned' = IF call[p].arg \in DOMAIN poisoned \/ call[p].id \notin Live
                         THEN poisoned
                         ELSE [d \in DOMAIN poisoned \cup {call[p].arg} |->
                                 IF d = call[p].arg THEN call[p].id ELSE poisoned[d]]
          /\ Ends(p)
    /\ UNCHANGED <<users, made, bans, tokens, drawn, spent, pending, file, unban>>

\* (Mutant: selects the bans that are still running.)
SweepSelectsRunning ==
    /\ sweep = {}
    /\ sweep' = {i \in Ids : \E k \in DOMAIN bans[i] : bans[i][k] = "temp"}
    /\ sweep' # {}
    /\ UNCHANGED <<db, spent, pending, file, errors, call>>

\* run_auto_unban, once a minute: select the users with an expired ban, then
\* lift the bans of each.
SweepSelects ==
    /\ sweep = {}
    /\ sweep' = {i \in Ids : \E k \in DOMAIN bans[i] : bans[i][k] = "expired"}
    /\ sweep' # {}
    /\ UNCHANGED <<db, spent, pending, file, errors, call>>

SweepLifts ==
    /\ \E i \in sweep :
        /\ LiftBans(i)
        /\ sweep' = sweep \ {i}
    /\ UNCHANGED <<users, made, poisoned, tokens, drawn, spent, pending, file, errors, call>>

\* A DELETE fails: the rest wait for the next minute.
SweepFails ==
    /\ sweep # {} /\ errors < load.errors
    /\ sweep' = {}
    /\ errors' = errors + 1
    /\ UNCHANGED <<db, spent, pending, file, call>>

-----------------------------------------------------------------------------
(***************************************************************************)
(* The clock: a temporary ban and a token run out.                         *)
(***************************************************************************)
BanExpires ==
    /\ \E i \in Ids : \E k \in DOMAIN bans[i] :
        /\ bans[i][k] = "temp"
        /\ bans' = [bans EXCEPT ![i][k] = "expired"]
    /\ UNCHANGED <<users, made, poisoned, tokens, drawn, spent, pending, file, unban, call>>

TokenExpires ==
    /\ \E t \in DOMAIN tokens :
        /\ ~tokens[t].expired
        /\ tokens' = [tokens EXCEPT ![t].expired = TRUE]
    /\ UNCHANGED <<users, made, bans, poisoned, drawn, spent, pending, file, unban, call>>

Handles(p) ==
    \/ Register(p) \/ DeleteUser(p) \/ Callback(p) \/ Complete(p)
    \/ ResetPassword(p) \/ GenReset(p) \/ Forgot(p)
    \/ RosterRead(p) \/ Moderate(p) \/ Unban(p) \/ AccStatus(p)
    \/ AccountStatus(p) \/ Stops(p)

Next ==
    /\ UNCHANGED load
    /\ \/ \E p \in Requests : Handles(p)
       \/ \E n \in Names : PlayerJoins(n)
       \/ SweepSelects \/ SweepLifts \/ SweepFails \/ BanExpires \/ TokenExpires

Spec == Init /\ [][Next]_vars
FairSpec == Spec /\ WF_vars(SweepSelects /\ UNCHANGED load)
                 /\ WF_vars(SweepLifts /\ UNCHANGED load)

-----------------------------------------------------------------------------
Users == [name : Names, password : Passwords, mail : Mails \cup {"none"},
          subject : Subjects \cup {"none"}]
Ops == {"idle", "register", "delete", "callback", "complete", "reset", "gen", "forgot",
        "moderate", "unban", "accstatus", "status"}
Steps == {"none", "username", "insert", "user", "moderation", "mail", "link", "subject",
          "store", "expired", "spend", "roster", "rewrite", "existing", "update",
          "lift", "ban", "device"}
Arguments == Subjects \cup Tokens \cup Devices \cup Kinds \cup Says \cup {"none"}

\* What a request has in hand is what its next statement takes: an account
\* made by now, a token drawn by now.
Calls(handed, tokensDrawn) ==
    {c \in [op : Ops, step : Steps, name : Names \cup {"none"}, id : {0} \cup handed,
            arg : Arguments, also : {"none", "yes", "no", "spent"}] :
        /\ c.op \in {"register", "complete", "moderate", "accstatus"} => c.name \in Names
        /\ c.op \in {"delete", "reset", "gen", "forgot", "moderate", "unban", "accstatus",
                     "status"} \/ c.step = "link" => c.id \in handed
        /\ c.op \in {"callback", "complete"} => c.arg \in Subjects
        /\ c.op = "forgot" => c.arg \in tokensDrawn
        /\ c.op = "status" => c.arg \in Devices
        /\ c.op = "moderate" => c.arg \in BanTypes
        /\ c.step \in {"roster", "rewrite"} =>
             c.op \in {"moderate", "accstatus"} /\ c.arg \in Says}

\* The types, and the foreign keys: what is recorded against an account goes
\* with it.
TypeOK ==
    /\ load \in Loads /\ made \in 0 .. load.accounts /\ errors \in Nat
    /\ Live \subseteq 1 .. made /\ users \in [Live -> Users]
    /\ bans = [i \in Ids |-> bans[i]]
    /\ \A i \in Ids : /\ bans[i] \in [DOMAIN bans[i] -> Kinds]
                      /\ DOMAIN bans[i] \subseteq IF i \in Live THEN 1 .. MaxBans ELSE {}
    /\ DOMAIN poisoned \subseteq Devices /\ poisoned \in [DOMAIN poisoned -> Live]
    /\ DOMAIN tokens \subseteq drawn
    /\ tokens \in [DOMAIN tokens -> [user : Live, expired : BOOLEAN]]
    /\ drawn \subseteq Tokens /\ spent \subseteq drawn /\ pending \subseteq Subjects
    /\ roster \in [Names -> Says] /\ copy \in [Requests -> [Names -> Says]]
    /\ locked \in Requests \cup {Nobody}
    /\ sweep \subseteq Ids
    /\ call \in [Requests -> Calls(1 .. made, drawn)]

\* Once a request has answered "Password changed" for a token, no later request
\* gets past the look-up with it (password.rs deletes it last, so two requests
\* that both found it first may still both change the password).
SpentTokenDead ==
    \A p \in Requests : call[p].op = "forgot" => call[p].also # "spent"

\* A poison ban ends only with its account or by an admin's new ruling; an
\* unban or an expiry that was decided on before the ban became a poison ban
\* does not take it along.
HasPoison(i) == \E k \in DOMAIN bans[i] : bans[i][k] = "poison"
RuledOn(i) == \E p \in Requests :
    At(p, "moderate", "update") /\ call[p].id = i /\ call'[p] # call[p]
PoisonStays ==
    [][\A i \in Ids : HasPoison(i) /\ ~HasPoison(i)' => i \notin Live' \/ RuledOn(i)]_vars

\* Two writers of the roster never undo each other: a step changes the entry of
\* one player, unless a failed write lost the whole file.
RosterWritesOneEntry ==
    [][\/ roster' = Unread
       \/ \E n \in Names : \A m \in Names \ {n} : roster'[m] = roster[m]]_vars

\* A temporary ban that has run out is eventually lifted (or replaced), whatever
\* admins do meanwhile and however many of its first attempts fail.
ExpiredBansGo ==
    \A i \in Ids : (\E k \in DOMAIN bans[i] : bans[i][k] = "expired")
                    ~> (\A k \in DOMAIN bans[i] : bans[i][k] # "expired")

\* What POST /admin/moderate answers, "... ban applied successfully": after the
\* statement that records it, the ban is there.
BanApplied ==
    [][\A p \in Requests :
        call[p].step \in {"update", "insert"} /\ call'[p].step = "roster" =>
            \E k \in DOMAIN bans'[call[p].id] : bans'[call[p].id][k] = call[p].arg]_vars

=============================================================================
