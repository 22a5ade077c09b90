---------------------------- MODULE AccountsProof ----------------------------
(***************************************************************************)
(* Theorems about Accounts, for any number of requests, accounts, tokens   *)
(* and rows: a used token stays dead, writers of the roster do not undo    *)
(* each other, and a poison ban is not lifted by accident.                 *)
(***************************************************************************)
EXTENDS Accounts, TLAPS

(* A token that a request has answered for is gone for good.               *)
SpentGone == \A t \in spent : t \notin DOMAIN tokens

(* Who rewrites the roster holds its lock, and what was read is what is there.*)
LockHeld ==
  \A p \in Requests : call[p].step = "rewrite" => locked = p /\ copy[p] = roster

(* The second clean-up of a deletion finds the account gone.               *)
DeletedGone ==
  \A p \in Requests : At(p, "delete", "moderation") => call[p].id \notin Live

TablesOK ==
  /\ made \in 0 .. load.accounts
  /\ Live \subseteq 1 .. made /\ users \in [Live -> Users]
  /\ bans = [i \in Ids |-> bans[i]]
  /\ \A i \in Ids : /\ bans[i] \in [DOMAIN bans[i] -> Kinds]
                    /\ DOMAIN bans[i] \subseteq IF i \in Live THEN 1 .. MaxBans ELSE {}
  /\ DOMAIN poisoned \subseteq Devices /\ poisoned \in [DOMAIN poisoned -> Live]
  /\ DOMAIN tokens \subseteq drawn
  /\ tokens \in [DOMAIN tokens -> [user : Live, expired : BOOLEAN]]
  /\ drawn \subseteq Tokens /\ spent \subseteq drawn

CallsOK == call \in [Requests -> Calls(1 .. made, drawn)]

RestOK ==
  /\ load \in Loads /\ errors \in Nat
  /\ pending \subseteq Subjects
  /\ roster \in [Names -> Says] /\ copy \in [Requests -> [Names -> Says]]
  /\ locked \in Requests \cup {Nobody}
  /\ sweep \subseteq Ids

Inv == TablesOK /\ RestOK /\ CallsOK /\ SpentGone /\ SpentTokenDead /\ LockHeld /\ DeletedGone

(* What one step does to the roster and to poison bans.                    *)
OneEntry ==
  \/ roster' = Unread
  \/ \E n \in Names : \A m \in Names \ {n} : roster'[m] = roster[m]

PoisonKept ==
  \A i \in Ids : HasPoison(i) /\ ~HasPoison(i)' => i \notin Live' \/ RuledOn(i)

Good == Inv' /\ OneEntry /\ PoisonKept

-----------------------------------------------------------------------------
(* More accounts and more tokens leave what requests hold in order.        *)
LEMMA CallsGrow ==
  ASSUME NEW h, NEW g, NEW d, NEW e, h \subseteq g, d \subseteq e
  PROVE  Calls(h, d) \subseteq Calls(g, e)
BY DEF Calls

(* A change of one call keeps them all well formed.                        *)
LEMMA CallsKept ==
  ASSUME CallsOK, NEW p \in Requests, NEW r, Becomes(p, r),
         r \in Calls(1 .. made', drawn'),
         made \in Nat, made' \in Nat, made <= made', drawn \subseteq drawn'
  PROVE  CallsOK'
<1>1. 1 .. made \subseteq 1 .. made'
  OBVIOUS
<1>2. Calls(1 .. made, drawn) \subseteq Calls(1 .. made', drawn')
  BY <1>1, CallsGrow
<1> QED BY <1>2 DEF CallsOK, Becomes

(* So does no change of any.                                               *)
LEMMA CallsStay ==
  ASSUME CallsOK, call' = call,
         made \in Nat, made' \in Nat, made <= made', drawn \subseteq drawn'
  PROVE  CallsOK'
<1>1. 1 .. made \subseteq 1 .. made'
  OBVIOUS
<1>2. Calls(1 .. made, drawn) \subseteq Calls(1 .. made', drawn')
  BY <1>1, CallsGrow
<1> QED BY <1>2 DEF CallsOK

-----------------------------------------------------------------------------
(* Numbers of accounts: those made are numbers the tables have room for.   *)
LEMMA MadeIsSmall ==
  ASSUME Inv
  PROVE  /\ made \in Nat /\ load.accounts \in Ids /\ 1 .. made \subseteq Ids
         /\ Live \subseteq Ids
BY AccountsAssumption DEF Inv, TablesOK, RestOK, Ids

LEMMA IdleCall ==
  ASSUME NEW h, NEW d
  PROVE  Idle \in Calls(h, d)
BY DEF Idle, Calls, Ops, Steps, Arguments

(* A request that goes on, and whose steps so far nobody can tell: what is *)
(* said of requests stays true if this one has not just read the roster.   *)
LEMMA CallSide ==
  ASSUME Inv, NEW p \in Requests, NEW r, Becomes(p, r),
         r \in Calls(1 .. made', drawn'), drawn \subseteq drawn',
         made' \in Nat, made <= made', \A i \in 1 .. made : i \in Live' => i \in Live,
         UNCHANGED file, r.step # "rewrite",
         r.op = "forgot" => r.also # "spent",
         r.op = "delete" /\ r.step = "moderation" => r.id \notin Live'
  PROVE  CallsOK' /\ SpentTokenDead' /\ LockHeld' /\ DeletedGone' /\ OneEntry
<1>1. CallsOK'
  BY CallsKept, MadeIsSmall DEF Inv
<1>2. /\ call \in [Requests -> Calls(1 .. made, drawn)]
      /\ \A q \in Requests : call'[q] = IF q = p THEN r ELSE call[q]
  BY DEF Inv, CallsOK, Becomes
<1>3. SpentTokenDead'
  BY <1>2 DEF Inv, SpentTokenDead
<1>4. LockHeld'
  BY <1>2 DEF Inv, LockHeld, file
<1>5. DeletedGone'
  <2>1. ASSUME NEW q \in Requests, At(q, "delete", "moderation")'
        PROVE  call'[q].id \notin Live'
    <3>1. CASE q = p
      BY <3>1, <2>1, <1>2 DEF At
    <3>2. CASE q # p
      <4>1. call'[q] = call[q] /\ At(q, "delete", "moderation")
        BY <3>2, <2>1, <1>2 DEF At
      <4>2. call[q].id \notin Live /\ call[q].id \in 1 .. made
        BY <4>1, <1>2 DEF Inv, DeletedGone, At, Calls
      <4> QED BY <4>1, <4>2
    <3> QED BY <3>1, <3>2
  <2> QED BY <2>1 DEF DeletedGone
<1>6. OneEntry
  BY DEF OneEntry, file, Unread, Inv, RestOK
<1> QED BY <1>1, <1>3, <1>4, <1>5, <1>6

(* The same of a step of the clock or of a task.                           *)
LEMMA CallsUntouched ==
  ASSUME Inv, call' = call, made' = made, drawn \subseteq drawn', Live' = Live,
         UNCHANGED file
  PROVE  CallsOK' /\ SpentTokenDead' /\ LockHeld' /\ DeletedGone' /\ OneEntry
<1>1. CallsOK'
  BY CallsStay, MadeIsSmall DEF Inv
<1>2. SpentTokenDead'
  BY DEF Inv, SpentTokenDead
<1>3. LockHeld'
  BY DEF Inv, LockHeld, file
<1>4. DeletedGone'
  BY DEF Inv, DeletedGone, At
<1>5. OneEntry
  BY DEF OneEntry, file, Unread, Inv, RestOK
<1> QED BY <1>1, <1>2, <1>3, <1>4, <1>5

LEMMA TablesStay ==
  ASSUME Inv, UNCHANGED <<load, db, spent>>
  PROVE  TablesOK' /\ SpentGone' /\ PoisonKept
<1>1. TablesOK'
  BY DEF Inv, TablesOK, db, Live
<1>2. SpentGone'
  BY DEF Inv, SpentGone, db
<1>3. PoisonKept
  BY DEF PoisonKept, HasPoison, db
<1> QED BY <1>1, <1>2, <1>3

(* A step that only reads, or ends.                                        *)
LEMMA OnlyReads ==
  ASSUME Inv, NEW p \in Requests, NEW r, Becomes(p, r),
         r \in Calls(1 .. made, drawn),
         UNCHANGED <<load, db, spent, pending, file, unban>>, r.step # "rewrite",
         r.op = "forgot" => r.also # "spent",
         r.op = "delete" /\ r.step = "moderation" => r.id \notin Live
  PROVE  Good
<1>1. CallsOK' /\ SpentTokenDead' /\ LockHeld' /\ DeletedGone' /\ OneEntry
  <2>1. /\ r \in Calls(1 .. made', drawn') /\ drawn \subseteq drawn' /\ Live' = Live
        /\ made' = made /\ made \in Nat
    BY MadeIsSmall DEF db, Live
  <2>2. /\ made' \in Nat /\ made <= made' /\ \A i \in 1 .. made : i \in Live' => i \in Live
        /\ r.op = "delete" /\ r.step = "moderation" => r.id \notin Live'
    BY <2>1
  <2> QED BY <2>1, <2>2, CallSide
<1>2. TablesOK' /\ SpentGone' /\ PoisonKept
  BY TablesStay
<1>3. RestOK'
  BY DEF Inv, RestOK, file, unban
<1> QED BY <1>1, <1>2, <1>3 DEF Good, Inv

LEMMA StopsGood ==
  ASSUME Inv, NEW p \in Requests, Stops(p), load' = load
  PROVE  Good
<1>1. Becomes(p, Idle) /\ Idle \in Calls(1 .. made, drawn)
  BY IdleCall DEF Stops, Ends
<1>2. Idle.step = "none" /\ Idle.op = "idle"
  BY DEF Idle
<1>3. UNCHANGED <<load, db, spent, pending, file, unban>>
  BY DEF Stops
<1> QED BY <1>1, <1>2, <1>3, OnlyReads

-----------------------------------------------------------------------------
(* Making and deleting accounts.                                           *)

(* A request begins by reading.                                            *)
LEMMA StartsGood ==
  ASSUME Inv, NEW p \in Requests, NEW op, NEW step, NEW name, NEW id, NEW arg, NEW also,
         Starts(p, op, step, name, id, arg, also),
         [op |-> op, step |-> step, name |-> name, id |-> id, arg |-> arg, also |-> also]
           \in Calls(1 .. made, drawn),
         step \notin {"rewrite", "moderation"}, op = "forgot" => also # "spent",
         UNCHANGED <<load, db, spent, pending, file, unban>>
  PROVE  Good
<1> DEFINE r == [op |-> op, step |-> step, name |-> name, id |-> id, arg |-> arg, also |-> also]
<1>1. Becomes(p, r) /\ r \in Calls(1 .. made, drawn)
  BY DEF Starts
<1>2. /\ r.step # "rewrite" /\ (r.op = "forgot" => r.also # "spent")
      /\ r.op = "delete" /\ r.step = "moderation" => r.id \notin Live
  OBVIOUS
<1> HIDE DEF r
<1> QED BY <1>1, <1>2, OnlyReads

(* A step to one that does not need more in hand.                          *)
LEMMA GoesTyped ==
  ASSUME Inv, NEW p \in Requests, NEW step \in Steps \ {"link", "roster", "rewrite"}
  PROVE  [call[p] EXCEPT !.step = step] \in Calls(1 .. made, drawn)
<1>1. call[p] \in Calls(1 .. made, drawn)
  BY DEF Inv, CallsOK
<1> QED BY <1>1 DEF Calls

LEMMA GoesGood ==
  ASSUME Inv, NEW p \in Requests, NEW step \in Steps \ {"link", "roster", "rewrite", "moderation"},
         Goes(p, step),
         UNCHANGED <<load, db, spent, pending, file, unban>>
  PROVE  Good
<1> DEFINE r == [call[p] EXCEPT !.step = step]
<1>1. Becomes(p, r) /\ r \in Calls(1 .. made, drawn)
  BY GoesTyped DEF Goes
<1>2. call[p] \in Calls(1 .. made, drawn)
  BY DEF Inv, CallsOK
<1>3. /\ r.step # "rewrite" /\ (r.op = "forgot" => r.also # "spent")
      /\ r.op = "delete" /\ r.step = "moderation" => r.id \notin Live
  BY <1>2 DEF Calls, Inv, SpentTokenDead
<1> HIDE DEF r
<1> QED BY <1>1, <1>3, OnlyReads

LEMMA InsertKeeps ==
  ASSUME Inv, load' = load, NEW u \in Users, InsertUser(u),
         UNCHANGED <<bans, poisoned, tokens, drawn, spent>>
  PROVE  /\ TablesOK' /\ SpentGone' /\ PoisonKept
         /\ made' \in Nat /\ made <= made' /\ \A i \in 1 .. made : i \in Live' => i \in Live
<1>1. made \in Nat /\ load.accounts \in Nat /\ made' = made + 1 /\ made + 1 <= load.accounts
  BY MadeIsSmall DEF InsertUser, Ids, Inv, TablesOK
<1>2. Live' = Live \cup {made + 1} /\ users' \in [Live' -> Users]
  BY <1>1 DEF InsertUser, Live, Inv, TablesOK
<1>3. made + 1 \notin Live /\ Live \subseteq Live' /\ Live' \subseteq 1 .. made'
  BY <1>1, <1>2 DEF Inv, TablesOK
<1>4. \A i \in Ids : /\ bans[i] \in [DOMAIN bans[i] -> Kinds]
                     /\ DOMAIN bans[i] \subseteq IF i \in Live' THEN 1 .. MaxBans ELSE {}
  BY <1>3 DEF Inv, TablesOK
<1>5. /\ poisoned \in [DOMAIN poisoned -> Live']
      /\ tokens \in [DOMAIN tokens -> [user : Live', expired : BOOLEAN]]
  BY <1>3 DEF Inv, TablesOK
<1>6. TablesOK'
  BY <1>1, <1>2, <1>3, <1>4, <1>5 DEF Inv, TablesOK
<1>7. SpentGone' /\ PoisonKept
  BY DEF Inv, SpentGone, PoisonKept, HasPoison
<1> QED BY <1>1, <1>2, <1>6, <1>7

(* An INSERT into users, with which the request ends.                      *)
LEMMA InsertGood ==
  ASSUME Inv, load' = load, NEW p \in Requests, NEW u \in Users, InsertUser(u), Ends(p),
         UNCHANGED <<bans, poisoned, tokens, drawn, spent, pending, file, unban>>
  PROVE  Good
<1>1. /\ TablesOK' /\ SpentGone' /\ PoisonKept
      /\ made' \in Nat /\ made <= made' /\ \A i \in 1 .. made : i \in Live' => i \in Live
  BY InsertKeeps
<1>2. /\ Becomes(p, Idle) /\ Idle \in Calls(1 .. made', drawn')
      /\ Idle.step = "none" /\ Idle.op = "idle"
  BY IdleCall DEF Ends, Idle
<1>3. CallsOK' /\ SpentTokenDead' /\ LockHeld' /\ DeletedGone' /\ OneEntry
  BY <1>1, <1>2, CallSide
<1>4. RestOK'
  BY DEF Inv, RestOK, file, unban
<1> QED BY <1>1, <1>3, <1>4 DEF Good, Inv

LEMMA RegisterGood ==
  ASSUME Inv, NEW p \in Requests, Register(p), load' = load
  PROVE  Good
<1>1. call[p] \in Calls(1 .. made, drawn)
  BY DEF Inv, CallsOK
<1>2. CASE \E n \in Names, d \in Devices \ DOMAIN poisoned :
             Starts(p, "register", "username", n, 0, "none", "none") /\ UNCHANGED <<users, made>>
  <2>1. PICK n \in Names : Starts(p, "register", "username", n, 0, "none", "none")
    BY <1>2
  <2>2. [op |-> "register", step |-> "username", name |-> n, id |-> 0, arg |-> "none",
         also |-> "none"] \in Calls(1 .. made, drawn)
    BY DEF Calls, Ops, Steps, Arguments
  <2>3. UNCHANGED <<load, db, spent, pending, file, unban>>
    BY <1>2 DEF Register, db
  <2> QED BY <2>1, <2>2, <2>3, StartsGood
<1>3. CASE Goes(p, "insert") /\ UNCHANGED <<users, made>>
  BY <1>3, GoesGood DEF Register, db, Steps
<1>4. CASE /\ At(p, "register", "insert")
           /\ InsertUser([name |-> call[p].name, password |-> "set", mail |-> "none",
                          subject |-> "none"])
           /\ Ends(p)
  <2> DEFINE u == [name |-> call[p].name, password |-> "set", mail |-> "none",
                   subject |-> "none"]
  <2>1. u \in Users
    BY <1>1, <1>4 DEF At, Calls, Users, Passwords
  <2>2. InsertUser(u) /\ Ends(p)
    BY <1>4
  <2> HIDE DEF u
  <2> QED BY <2>1, <2>2, InsertGood DEF Register
<1> QED BY <1>2, <1>3, <1>4 DEF Register

(* The account goes, and what is recorded against it with it.              *)
LEMMA DeletionKeeps ==
  ASSUME Inv, load' = load, NEW u \in 1 .. made,
         users' = Without(users, {u}),
         bans' = [bans EXCEPT ![u] = NoRows],
         poisoned' = Without(poisoned, {d \in DOMAIN poisoned : poisoned[d] = u}),
         tokens' = Without(tokens, {t \in DOMAIN tokens : tokens[t].user = u}),
         UNCHANGED <<made, drawn, spent>>
  PROVE  TablesOK' /\ SpentGone' /\ PoisonKept /\ Live' = Live \ {u}
<1>1. Live' = Live \ {u} /\ users' \in [Live' -> Users]
  BY DEF Without, Live, Inv, TablesOK
<1>2. u \in Ids /\ bans' = [i \in Ids |-> bans'[i]]
  BY MadeIsSmall DEF Inv, TablesOK
<1>3. ASSUME NEW i \in Ids
      PROVE  /\ bans'[i] \in [DOMAIN bans'[i] -> Kinds]
             /\ DOMAIN bans'[i] \subseteq IF i \in Live' THEN 1 .. MaxBans ELSE {}
  <2>1. CASE i = u
    BY <2>1, <1>1, <1>2 DEF NoRows, Inv, TablesOK
  <2>2. CASE i # u
    <3>1. bans'[i] = bans[i] /\ (i \in Live' <=> i \in Live)
      BY <2>2, <1>1, <1>2 DEF Inv, TablesOK
    <3> QED BY <3>1 DEF Inv, TablesOK
  <2> QED BY <2>1, <2>2
<1>4. DOMAIN poisoned' \subseteq Devices /\ poisoned' \in [DOMAIN poisoned' -> Live']
  BY <1>1 DEF Without, Inv, TablesOK
<1>5. /\ DOMAIN tokens' \subseteq DOMAIN tokens
      /\ tokens' \in [DOMAIN tokens' -> [user : Live', expired : BOOLEAN]]
  BY <1>1 DEF Without, Inv, TablesOK
<1>6. TablesOK'
  BY <1>1, <1>2, <1>3, <1>4, <1>5 DEF Inv, TablesOK
<1>7. SpentGone'
  BY <1>5 DEF Inv, SpentGone
<1>8. PoisonKept
  BY <1>1, <1>2 DEF PoisonKept, HasPoison, Inv, TablesOK
<1> QED BY <1>1, <1>6, <1>7, <1>8

LEMMA DeleteUserGood ==
  ASSUME Inv, NEW p \in Requests, DeleteUser(p), load' = load
  PROVE  Good
<1>1. call[p] \in Calls(1 .. made, drawn) /\ made \in Nat
  BY MadeIsSmall DEF Inv, CallsOK
<1>2. CASE /\ \E n \in Names : \E i \in Named(n) :
                Starts(p, "delete", "user", n, i, "none", "none")
           /\ UNCHANGED <<users, bans, poisoned, tokens>>
  <2>1. PICK n \in Names : \E i \in Named(n) : Starts(p, "delete", "user", n, i, "none", "none")
    BY <1>2
  <2>2. PICK i \in Named(n) : Starts(p, "delete", "user", n, i, "none", "none")
    BY <2>1
  <2>3. [op |-> "delete", step |-> "user", name |-> n, id |-> i, arg |-> "none",
         also |-> "none"] \in Calls(1 .. made, drawn)
    BY DEF Calls, Ops, Steps, Arguments, Named, Inv, TablesOK
  <2>4. UNCHANGED <<load, db, spent, pending, file, unban>>
    BY <1>2 DEF DeleteUser, db
  <2> QED BY <2>2, <2>3, <2>4, StartsGood
<1>3. CASE /\ At(p, "delete", "user")
           /\ users' = Without(users, {call[p].id})
           /\ bans' = [bans EXCEPT ![call[p].id] = NoRows]
           /\ poisoned' = Without(poisoned, {d \in DOMAIN poisoned : poisoned[d] = call[p].id})
           /\ tokens' = Without(tokens, {t \in DOMAIN tokens : tokens[t].user = call[p].id})
           /\ Goes(p, "moderation")
  <2> DEFINE u == call[p].id
             r == [call[p] EXCEPT !.step = "moderation"]
  <2>1. u \in 1 .. made
    BY <1>1, <1>3 DEF At, Calls
  <2>2. UNCHANGED <<made, drawn, spent, pending, file, unban>>
    BY DEF DeleteUser
  <2>3. TablesOK' /\ SpentGone' /\ PoisonKept /\ Live' = Live \ {u}
    BY <1>3, <2>1, <2>2, DeletionKeeps
  <2>4. Becomes(p, r) /\ r \in Calls(1 .. made', drawn')
    BY <1>3, <2>2, GoesTyped DEF Goes, Steps
  <2>5. /\ r.step # "rewrite" /\ (r.op = "forgot" => r.also # "spent")
        /\ r.op = "delete" /\ r.step = "moderation" => r.id \notin Live'
    BY <1>1, <1>3, <2>3 DEF At, Calls
  <2>6. /\ made' \in Nat /\ made <= made' /\ drawn \subseteq drawn' /\ UNCHANGED file
        /\ \A i \in 1 .. made : i \in Live' => i \in Live
    BY <1>1, <2>2, <2>3
  <2>7. CallsOK' /\ SpentTokenDead' /\ LockHeld' /\ DeletedGone' /\ OneEntry
    <3> HIDE DEF r, u
    <3> QED BY <2>4, <2>5, <2>6, CallSide
  <2>8. RestOK'
    BY <2>2 DEF Inv, RestOK, file, unban
  <2> QED BY <2>3, <2>7, <2>8 DEF Good, Inv
<1>4. CASE /\ At(p, "delete", "moderation")
           /\ bans' = [bans EXCEPT ![call[p].id] = NoRows]
           /\ Ends(p)
           /\ UNCHANGED <<users, poisoned, tokens>>
  <2>1. call[p].id \in Ids /\ call[p].id \notin Live
    BY <1>1, <1>4, MadeIsSmall DEF At, Calls, Inv, DeletedGone
  <2>2. bans[call[p].id] = NoRows
    <3> DEFINE rows == bans[call[p].id]
    <3>1. rows \in [DOMAIN rows -> Kinds] /\ DOMAIN rows \subseteq {}
      BY <2>1 DEF Inv, TablesOK
    <3>2. rows = [k \in DOMAIN rows |-> rows[k]] /\ DOMAIN rows = {}
      BY <3>1
    <3> QED BY <3>2 DEF NoRows
  <2>3. bans' = bans
    BY <1>4, <2>1, <2>2 DEF Inv, TablesOK
  <2>4. UNCHANGED <<load, db, spent, pending, file, unban>>
    BY <1>4, <2>3 DEF DeleteUser, db
  <2>5. Becomes(p, Idle) /\ Idle \in Calls(1 .. made, drawn)
    BY <1>4, IdleCall DEF Ends
  <2>6. Idle.step = "none" /\ Idle.op = "idle"
    BY DEF Idle
  <2> QED BY <2>4, <2>5, <2>6, OnlyReads
<1> QED BY <1>2, <1>3, <1>4 DEF DeleteUser

(* An UPDATE of a column of users.                                         *)
LEMMA UpdateKeeps ==
  ASSUME Inv, load' = load, users' \in [Live -> Users],
         UNCHANGED <<made, bans, poisoned, tokens, drawn, spent>>
  PROVE  TablesOK' /\ SpentGone' /\ PoisonKept /\ Live' = Live
<1>1. Live' = Live
  BY DEF Live
<1>2. TablesOK'
  BY <1>1 DEF Inv, TablesOK
<1>3. SpentGone' /\ PoisonKept
  BY DEF Inv, SpentGone, PoisonKept, HasPoison
<1> QED BY <1>1, <1>2, <1>3

LEMMA UpdateGood ==
  ASSUME Inv, load' = load, NEW p \in Requests, NEW r, Becomes(p, r),
         r \in Calls(1 .. made, drawn), r.step \notin {"rewrite", "moderation"},
         r.op = "forgot" => r.also # "spent",
         users' \in [Live -> Users],
         UNCHANGED <<made, bans, poisoned, tokens, drawn, spent, pending, file, unban>>
  PROVE  Good
<1>1. TablesOK' /\ SpentGone' /\ PoisonKept /\ Live' = Live
  BY UpdateKeeps
<1>2. /\ r \in Calls(1 .. made', drawn') /\ drawn \subseteq drawn' /\ made' \in Nat
      /\ made <= made' /\ \A i \in 1 .. made : i \in Live' => i \in Live
  BY <1>1, MadeIsSmall
<1>3. CallsOK' /\ SpentTokenDead' /\ LockHeld' /\ DeletedGone' /\ OneEntry
  BY <1>2, CallSide
<1>4. RestOK'
  BY DEF Inv, RestOK, file, unban
<1> QED BY <1>1, <1>3, <1>4 DEF Good, Inv

LEMMA SetSubject ==
  ASSUME Inv, NEW i, NEW g \in Subjects, UpdateUser(i, "subject", g)
  PROVE  users' \in [Live -> Users]
BY DEF Inv, TablesOK, UpdateUser, Users, Live

LEMMA SetPassword ==
  ASSUME Inv, NEW i, UpdateUser(i, "password", "set")
  PROVE  users' \in [Live -> Users]
BY DEF Inv, TablesOK, UpdateUser, Users, Passwords, Live

LEMMA CallbackGood ==
  ASSUME Inv, NEW p \in Requests, Callback(p), load' = load
  PROVE  Good
<1>1. call[p] \in Calls(1 .. made, drawn)
  BY DEF Inv, CallsOK
<1>2. CASE /\ \E g \in load.subjects, verified \in {"yes", "no"} :
                /\ Linked(g) = {}
                /\ Starts(p, "callback", "mail", "none", 0, g, verified)
           /\ UNCHANGED <<users, pending>>
  <2>1. PICK g \in load.subjects, v \in {"yes", "no"} :
          Starts(p, "callback", "mail", "none", 0, g, v)
    BY <1>2
  <2>2. g \in Subjects
    BY AccountsAssumption DEF Inv, RestOK
  <2>3. [op |-> "callback", step |-> "mail", name |-> "none", id |-> 0, arg |-> g,
         also |-> v] \in Calls(1 .. made, drawn)
    BY <2>2 DEF Calls, Ops, Steps, Arguments
  <2>4. UNCHANGED <<load, db, spent, pending, file, unban>>
    BY <1>2 DEF Callback, db
  <2> QED BY <2>1, <2>3, <2>4, StartsGood
<1>3. CASE /\ At(p, "callback", "mail")
           /\ \E i \in Mailed(MailOf[call[p].arg]) :
                Becomes(p, [call[p] EXCEPT !.step = "link", !.id = i])
           /\ UNCHANGED <<users, pending>>
  <2>1. PICK i \in Mailed(MailOf[call[p].arg]) :
               Becomes(p, [call[p] EXCEPT !.step = "link", !.id = i])
    BY <1>3
  <2> DEFINE r == [call[p] EXCEPT !.step = "link", !.id = i]
  <2>2. i \in 1 .. made
    BY DEF Mailed, Inv, TablesOK
  <2>3. r \in Calls(1 .. made, drawn)
    BY <1>1, <1>3, <2>2 DEF Calls, Steps, At
  <2>4. r.step = "link" /\ r.op = "callback"
    BY <1>1, <1>3 DEF Calls, At
  <2>5. UNCHANGED <<load, db, spent, pending, file, unban>>
    BY <1>3 DEF Callback, db
  <2> HIDE DEF r
  <2> QED BY <2>1, <2>3, <2>4, <2>5, OnlyReads DEF r
<1>4. CASE /\ At(p, "callback", "link")
           /\ UpdateUser(call[p].id, "subject", call[p].arg)
           /\ Ends(p)
           /\ UNCHANGED pending
  <2>1. call[p].arg \in Subjects
    BY <1>1, <1>4 DEF Calls, At
  <2>2. users' \in [Live -> Users]
    BY <1>4, <2>1, SetSubject
  <2>3. Becomes(p, Idle) /\ Idle \in Calls(1 .. made, drawn)
    BY <1>4, IdleCall DEF Ends
  <2>4. Idle.step = "none" /\ Idle.op = "idle"
    BY DEF Idle
  <2> QED BY <1>4, <2>2, <2>3, <2>4, UpdateGood DEF Callback
<1>5. CASE /\ At(p, "callback", "mail")
           /\ pending' = pending \cup {call[p].arg}
           /\ Ends(p)
           /\ UNCHANGED users
  <2>1. call[p].arg \in Subjects
    BY <1>1, <1>5 DEF Calls, At
  <2>2. UNCHANGED <<load, db, spent, file, unban>>
    BY <1>5 DEF Callback, db
  <2>3. TablesOK' /\ SpentGone' /\ PoisonKept
    BY <2>2, TablesStay
  <2>4. /\ Becomes(p, Idle) /\ Idle \in Calls(1 .. made', drawn') /\ drawn \subseteq drawn'
        /\ made' \in Nat /\ made <= made' /\ \A i \in 1 .. made : i \in Live' => i \in Live
        /\ Idle.step = "none" /\ Idle.op = "idle"
    BY <1>5, <2>2, IdleCall, MadeIsSmall DEF Ends, Idle, db, Live
  <2>5. CallsOK' /\ SpentTokenDead' /\ LockHeld' /\ DeletedGone' /\ OneEntry
    BY <2>2, <2>4, CallSide
  <2>6. RestOK'
    BY <1>5, <2>1, <2>2 DEF Inv, RestOK, file, unban
  <2> QED BY <2>3, <2>5, <2>6 DEF Good, Inv
<1> QED BY <1>2, <1>3, <1>4, <1>5 DEF Callback

LEMMA CompleteGood ==
  ASSUME Inv, NEW p \in Requests, Complete(p), load' = load
  PROVE  Good
<1>1. call[p] \in Calls(1 .. made, drawn)
  BY DEF Inv, CallsOK
<1>2. CASE /\ \E n \in Names, g \in pending, d \in Devices \ DOMAIN poisoned :
                Starts(p, "complete", "subject", n, 0, g, "none")
           /\ UNCHANGED <<users, made>>
  <2>1. PICK n \in Names, g \in pending : Starts(p, "complete", "subject", n, 0, g, "none")
    BY <1>2
  <2>2. [op |-> "complete", step |-> "subject", name |-> n, id |-> 0, arg |-> g,
         also |-> "none"] \in Calls(1 .. made, drawn)
    BY DEF Calls, Ops, Steps, Arguments, Inv, RestOK
  <2>3. UNCHANGED <<load, db, spent, pending, file, unban>>
    BY <1>2 DEF Complete, db
  <2> QED BY <2>1, <2>2, <2>3, StartsGood
<1>3. CASE /\ \E step \in {"username", "mail", "insert"} : Goes(p, step)
           /\ UNCHANGED <<users, made>>
  <2>1. PICK step \in {"username", "mail", "insert"} : Goes(p, step)
    BY <1>3
  <2>2. step \in Steps \ {"link", "roster", "rewrite", "moderation"}
    BY DEF Steps
  <2>3. UNCHANGED <<load, db, spent, pending, file, unban>>
    BY <1>3 DEF Complete, db
  <2> QED BY <2>1, <2>2, <2>3, GoesGood
<1>4. CASE /\ At(p, "complete", "insert")
           /\ InsertUser([name |-> call[p].name, password |-> "none",
                          mail |-> MailOf[call[p].arg], subject |-> call[p].arg])
           /\ Ends(p)
  <2> DEFINE u == [name |-> call[p].name, password |-> "none",
                   mail |-> MailOf[call[p].arg], subject |-> call[p].arg]
  <2>1. u \in Users
    BY <1>1, <1>4, AccountsAssumption DEF At, Calls, Users, Passwords
  <2>2. InsertUser(u) /\ Ends(p)
    BY <1>4
  <2> HIDE DEF u
  <2> QED BY <2>1, <2>2, InsertGood DEF Complete
<1> QED BY <1>2, <1>3, <1>4 DEF Complete

-----------------------------------------------------------------------------
(* Passwords.                                                              *)
LEMMA ResetPasswordGood ==
  ASSUME Inv, NEW p \in Requests, ResetPassword(p), load' = load
  PROVE  Good
<1>1. CASE /\ \E n \in Names : \E i \in Named(n) :
                Starts(p, "reset", "store", n, i, "none", "none")
           /\ UNCHANGED users
  <2>1. PICK n \in Names : \E i \in Named(n) : Starts(p, "reset", "store", n, i, "none", "none")
    BY <1>1
  <2>2. PICK i \in Named(n) : Starts(p, "reset", "store", n, i, "none", "none")
    BY <2>1
  <2>3. [op |-> "reset", step |-> "store", name |-> n, id |-> i, arg |-> "none",
         also |-> "none"] \in Calls(1 .. made, drawn)
    BY DEF Calls, Ops, Steps, Arguments, Named, Inv, TablesOK
  <2>4. UNCHANGED <<load, db, spent, pending, file, unban>>
    BY <1>1 DEF ResetPassword, db
  <2> QED BY <2>2, <2>3, <2>4, StartsGood
<1>2. CASE UpdateUser(call[p].id, "password", "set") /\ Ends(p)
  <2>1. users' \in [Live -> Users]
    BY <1>2, SetPassword
  <2>2. Becomes(p, Idle) /\ Idle \in Calls(1 .. made, drawn)
    BY <1>2, IdleCall DEF Ends
  <2>3. Idle.step = "none" /\ Idle.op = "idle"
    BY DEF Idle
  <2> QED BY <2>1, <2>2, <2>3, UpdateGood DEF ResetPassword
<1> QED BY <1>1, <1>2 DEF ResetPassword

LEMMA GenResetGood ==
  ASSUME Inv, NEW p \in Requests, GenReset(p), load' = load
  PROVE  Good
<1>1. call[p] \in Calls(1 .. made, drawn)
  BY DEF Inv, CallsOK
<1>2. CASE /\ \E n \in Names : \E i \in Named(n) :
                Starts(p, "gen", "insert", n, i, "none", "none")
           /\ UNCHANGED <<tokens, drawn>>
  <2>1. PICK n \in Names : \E i \in Named(n) : Starts(p, "gen", "insert", n, i, "none", "none")
    BY <1>2
  <2>2. PICK i \in Named(n) : Starts(p, "gen", "insert", n, i, "none", "none")
    BY <2>1
  <2>3. [op |-> "gen", step |-> "insert", name |-> n, id |-> i, arg |-> "none",
         also |-> "none"] \in Calls(1 .. made, drawn)
    BY DEF Calls, Ops, Steps, Arguments, Named, Inv, TablesOK
  <2>4. UNCHANGED <<load, db, spent, pending, file, unban>>
    BY <1>2 DEF GenReset, db
  <2> QED BY <2>2, <2>3, <2>4, StartsGood
<1>3. CASE /\ At(p, "gen", "insert") /\ call[p].id \in Live
           /\ \E t \in load.tokens \ drawn :
                /\ tokens' = [x \in DOMAIN tokens \cup {t} |->
                                IF x = t THEN [user |-> call[p].id, expired |-> FALSE]
                                         ELSE tokens[x]]
                /\ drawn' = drawn \cup {t}
           /\ Ends(p)
  <2>1. PICK t \in load.tokens \ drawn :
          /\ tokens' = [x \in DOMAIN tokens \cup {t} |->
                          IF x = t THEN [user |-> call[p].id, expired |-> FALSE] ELSE tokens[x]]
          /\ drawn' = drawn \cup {t}
    BY <1>3
  <2>2. t \in Tokens
    BY AccountsAssumption DEF Inv, RestOK
  <2>3. UNCHANGED <<load, users, made, bans, poisoned, spent, pending, file, unban>>
    BY DEF GenReset
  <2>4. TablesOK'
    <3>1. tokens' \in [DOMAIN tokens' -> [user : Live, expired : BOOLEAN]]
      BY <1>3, <2>1 DEF Inv, TablesOK
    <3>2. DOMAIN tokens' \subseteq drawn' /\ drawn' \subseteq Tokens /\ spent \subseteq drawn'
      BY <2>1, <2>2 DEF Inv, TablesOK
    <3> QED BY <2>3, <3>1, <3>2 DEF Inv, TablesOK, Live
  <2>5. SpentGone'
    BY <2>1, <2>3 DEF Inv, SpentGone, TablesOK
  <2>6. PoisonKept
    BY <2>3 DEF PoisonKept, HasPoison
  <2>7. /\ Becomes(p, Idle) /\ Idle \in Calls(1 .. made', drawn') /\ drawn \subseteq drawn'
        /\ made' \in Nat /\ made <= made' /\ \A i \in 1 .. made : i \in Live' => i \in Live
        /\ Idle.step = "none" /\ Idle.op = "idle"
    BY <1>3, <2>1, <2>3, IdleCall, MadeIsSmall DEF Ends, Idle, Live
  <2>8. CallsOK' /\ SpentTokenDead' /\ LockHeld' /\ DeletedGone' /\ OneEntry
    BY <2>3, <2>7, CallSide
  <2>9. RestOK'
    BY <2>3 DEF Inv, RestOK, file, unban
  <2> QED BY <2>4, <2>5, <2>6, <2>8, <2>9 DEF Good, Inv
<1> QED BY <1>2, <1>3 DEF GenReset

(* A token goes; the request that has used it may say so.                  *)
LEMMA SpendGood ==
  ASSUME Inv, load' = load, NEW p \in Requests, At(p, "forgot", call[p].step), Ends(p),
         Spend(call[p].arg), spent' \in {spent, spent \cup {call[p].arg}},
         UNCHANGED <<users, made, bans, poisoned, drawn, pending, file, unban>>
  PROVE  Good
<1> DEFINE t == call[p].arg
<1>1. t \in drawn
  BY DEF Inv, CallsOK, Calls, At
<1>2. DOMAIN tokens' = DOMAIN tokens \ {t} /\ \A x \in DOMAIN tokens' : tokens'[x] = tokens[x]
  BY DEF Spend, Without
<1>3. TablesOK'
  <2>1. tokens' \in [DOMAIN tokens' -> [user : Live, expired : BOOLEAN]]
    BY DEF Spend, Without, Inv, TablesOK
  <2> QED BY <1>1, <1>2, <2>1 DEF Inv, TablesOK, Live
<1>4. SpentGone'
  BY <1>2 DEF Inv, SpentGone
<1>5. PoisonKept
  BY DEF PoisonKept, HasPoison
<1>6. /\ Becomes(p, Idle) /\ Idle \in Calls(1 .. made', drawn') /\ drawn \subseteq drawn'
      /\ made' \in Nat /\ made <= made' /\ \A i \in 1 .. made : i \in Live' => i \in Live
      /\ Idle.step = "none" /\ Idle.op = "idle"
  BY IdleCall, MadeIsSmall DEF Ends, Idle, Live
<1>7. CallsOK' /\ SpentTokenDead' /\ LockHeld' /\ DeletedGone' /\ OneEntry
  BY <1>6, CallSide
<1>8. RestOK'
  BY DEF Inv, RestOK, file, unban
<1> QED BY <1>3, <1>4, <1>5, <1>7, <1>8 DEF Good, Inv

LEMMA ForgotGood ==
  ASSUME Inv, NEW p \in Requests, Forgot(p), load' = load
  PROVE  Good
<1>1. call[p] \in Calls(1 .. made, drawn)
  BY DEF Inv, CallsOK
<1>2. CASE /\ \E t \in DOMAIN tokens :
                Starts(p, "forgot", IF tokens[t].expired THEN "expired" ELSE "user",
                       "none", tokens[t].user, t, IF t \in spent THEN "spent" ELSE "none")
           /\ UNCHANGED <<users, tokens, spent>>
  <2>1. PICK t \in DOMAIN tokens :
          Starts(p, "forgot", IF tokens[t].expired THEN "expired" ELSE "user",
                 "none", tokens[t].user, t, IF t \in spent THEN "spent" ELSE "none")
    BY <1>2
  <2> DEFINE step == IF tokens[t].expired THEN "expired" ELSE "user"
             also == IF t \in spent THEN "spent" ELSE "none"
             id == tokens[t].user
  <2>2. t \in drawn /\ t \notin spent /\ t \in Tokens /\ id \in 1 .. made
    BY DEF Inv, TablesOK, SpentGone
  <2>3. step \in {"expired", "user"} /\ also = "none"
    BY <2>2
  <2>4. Starts(p, "forgot", step, "none", id, t, also)
    BY <2>1
  <2> HIDE DEF step, also, id
  <2>5. [op |-> "forgot", step |-> step, name |-> "none", id |-> id, arg |-> t,
         also |-> also] \in Calls(1 .. made, drawn)
    BY <2>2, <2>3 DEF Calls, Ops, Steps, Arguments
  <2>6. UNCHANGED <<load, db, spent, pending, file, unban>>
    BY <1>2 DEF Forgot, db
  <2>7. step \notin {"rewrite", "moderation"} /\ also # "spent"
    BY <2>3
  <2> QED BY <2>4, <2>5, <2>6, <2>7, StartsGood
<1>3. CASE At(p, "forgot", "expired") /\ Spend(call[p].arg) /\ Ends(p) /\ UNCHANGED <<users, spent>>
  BY <1>3, SpendGood DEF Forgot, At
<1>4. CASE At(p, "forgot", "user") /\ Goes(p, "store") /\ UNCHANGED <<users, tokens, spent>>
  BY <1>4, GoesGood DEF Forgot, db, Steps
<1>5. CASE /\ At(p, "forgot", "store")
           /\ UpdateUser(call[p].id, "password", "set")
           /\ Goes(p, "spend")
           /\ UNCHANGED <<tokens, spent>>
  <2> DEFINE r == [call[p] EXCEPT !.step = "spend"]
  <2>1. users' \in [Live -> Users]
    BY <1>5, SetPassword
  <2>2. Becomes(p, r) /\ r \in Calls(1 .. made, drawn)
    BY <1>5, GoesTyped DEF Goes, Steps
  <2>3. r.step = "spend" /\ (r.op = "forgot" => r.also # "spent")
    BY <1>1 DEF Calls, Inv, SpentTokenDead
  <2>4. UNCHANGED <<made, bans, poisoned, tokens, drawn, spent, pending, file, unban>>
    BY <1>5 DEF Forgot
  <2> HIDE DEF r
  <2> QED BY <2>1, <2>2, <2>3, <2>4, UpdateGood
<1>6. CASE /\ At(p, "forgot", "spend")
           /\ Spend(call[p].arg)
           /\ spent' = spent \cup {call[p].arg}
           /\ Ends(p)
           /\ UNCHANGED users
  BY <1>6, SpendGood DEF Forgot, At
<1> QED BY <1>2, <1>3, <1>4, <1>5, <1>6 DEF Forgot

-----------------------------------------------------------------------------
(* The roster file.                                                        *)

(* A request asks for the lock once it knows what to write.                *)
LEMMA RosterReadGood ==
  ASSUME Inv, NEW p \in Requests, RosterRead(p), load' = load
  PROVE  Good
<1> DEFINE r == [call[p] EXCEPT !.step = "rewrite"]
<1>1. /\ call \in [Requests -> Calls(1 .. made, drawn)]
      /\ UNCHANGED <<load, db, spent, pending, roster, unban>>
      /\ Becomes(p, r) /\ locked' = p /\ copy' = [copy EXCEPT ![p] = roster]
      /\ call[p].step = "roster" /\ locked = Nobody
  BY DEF RosterRead, Goes, Inv, CallsOK
<1>2. r \in Calls(1 .. made, drawn) /\ r.step = "rewrite" /\ r.op = call[p].op /\ r.also = call[p].also
  BY <1>1 DEF Calls, Steps
<1>3. \A q \in Requests : call'[q] = IF q = p THEN r ELSE call[q]
  BY <1>1 DEF Becomes
<1>4. CallsOK'
  BY <1>1, <1>2 DEF Becomes, CallsOK, db
<1>5. SpentTokenDead'
  BY <1>2, <1>3 DEF Inv, SpentTokenDead
<1>6. LockHeld'
  <2>1. \A q \in Requests : call[q].step = "rewrite" => FALSE
    BY <1>1, AccountsAssumption DEF Inv, LockHeld, Nobody
  <2>2. copy'[p] = roster' /\ locked' = p
    BY <1>1 DEF Inv, RestOK
  <2> QED BY <1>3, <2>1, <2>2 DEF LockHeld
<1>7. DeletedGone'
  <2>1. Live' = Live
    BY <1>1 DEF Live, db
  <2> QED BY <1>2, <1>3, <2>1 DEF Inv, DeletedGone, At
<1>8. TablesOK' /\ SpentGone' /\ PoisonKept
  BY <1>1, TablesStay
<1>9. RestOK' /\ OneEntry
  <2>1. copy' \in [Requests -> [Names -> Says]]
    BY <1>1 DEF Inv, RestOK
  <2> QED BY <1>1, <2>1 DEF Inv, RestOK, unban, OneEntry, Unread
<1> QED BY <1>4, <1>5, <1>6, <1>7, <1>8, <1>9 DEF Good, Inv

(* And writes back what it read, but for one entry, or loses it.           *)
LEMMA RosterWrittenGood ==
  ASSUME Inv, NEW p \in Requests, RosterWritten(p, call[p].arg), Ends(p),
         UNCHANGED <<load, db, spent, pending, unban>>
  PROVE  Good
<1> DEFINE n == call[p].name
           entry == IF copy[p][n] = "absent" THEN "absent" ELSE call[p].arg
<1>1. /\ call[p] \in Calls(1 .. made, drawn) /\ call[p].step = "rewrite"
      /\ roster' \in {[copy[p] EXCEPT ![n] = entry], roster, Unread}
      /\ locked' = Nobody /\ copy' = [copy EXCEPT ![p] = Unread]
      /\ Becomes(p, Idle) /\ Idle.step = "none" /\ Idle.op = "idle"
  BY DEF RosterWritten, Inv, CallsOK, Ends, Idle
<1>2. n \in Names /\ call[p].arg \in Says
  BY <1>1 DEF Calls
<1>3. copy[p] = roster /\ locked = p /\ roster \in [Names -> Says]
  BY <1>1 DEF Inv, LockHeld, RestOK
<1>4. entry \in Says /\ Unread \in [Names -> Says]
  BY <1>2 DEF Says, Unread
<1>5. RestOK' /\ OneEntry
  <2>1. roster' \in [Names -> Says]
    BY <1>1, <1>2, <1>3, <1>4
  <2>2. copy' \in [Requests -> [Names -> Says]]
    BY <1>1, <1>4 DEF Inv, RestOK
  <2>3. roster' = Unread \/ \A m \in Names \ {n} : roster'[m] = roster[m]
    BY <1>1, <1>3
  <2> QED BY <1>1, <1>2, <2>1, <2>2, <2>3 DEF Inv, RestOK, unban, OneEntry
<1>6. call' = [call EXCEPT ![p] = Idle] /\ CallsOK'
  BY <1>1, IdleCall DEF Becomes, Inv, CallsOK, db
<1>7. \A q \in Requests : call'[q] = IF q = p THEN Idle ELSE call[q]
  BY <1>6 DEF Inv, CallsOK
<1>8. SpentTokenDead'
  BY <1>1, <1>7 DEF Inv, SpentTokenDead
<1>9. LockHeld'
  BY <1>1, <1>3, <1>7 DEF Inv, LockHeld
<1>10. DeletedGone'
  <2>1. Live' = Live
    BY DEF Live, db
  <2> QED BY <1>1, <1>7, <2>1 DEF Inv, DeletedGone, At
<1>11. TablesOK' /\ SpentGone' /\ PoisonKept
  BY TablesStay
<1> QED BY <1>5, <1>6, <1>8, <1>9, <1>10, <1>11 DEF Good, Inv

LEMMA PlayerJoinsGood ==
  ASSUME Inv, NEW n \in Names, PlayerJoins(n), load' = load
  PROVE  Good
<1>1. /\ UNCHANGED <<load, db, spent, pending, locked, copy, unban, call>>
      /\ locked = Nobody /\ roster' = [roster EXCEPT ![n] = "ok"]
  BY DEF PlayerJoins
<1>2. RestOK' /\ OneEntry
  BY <1>1 DEF Inv, RestOK, unban, OneEntry, Says
<1>3. LockHeld'
  BY <1>1, AccountsAssumption DEF Inv, LockHeld, Nobody
<1>4. CallsOK' /\ SpentTokenDead' /\ DeletedGone'
  BY <1>1 DEF Inv, CallsOK, SpentTokenDead, DeletedGone, At, Live, db
<1>5. TablesOK' /\ SpentGone' /\ PoisonKept
  BY <1>1, TablesStay
<1> QED BY <1>2, <1>3, <1>4, <1>5 DEF Good, Inv

-----------------------------------------------------------------------------
(* Moderation.                                                             *)

(* Any change of the rows of one account that has some.                    *)
LEMMA BansKeep ==
  ASSUME Inv, NEW i \in Ids, NEW rows, bans' = [bans EXCEPT ![i] = rows],
         rows \in [DOMAIN rows -> Kinds],
         DOMAIN rows \subseteq IF i \in Live THEN 1 .. MaxBans ELSE {},
         HasPoison(i) /\ (\A k \in DOMAIN rows : rows[k] # "poison") => RuledOn(i),
         UNCHANGED <<load, users, made, poisoned, tokens, drawn, spent>>
  PROVE  TablesOK' /\ SpentGone' /\ PoisonKept /\ Live' = Live
<1>1. Live' = Live
  BY DEF Live
<1>2. \A j \in Ids : bans'[j] = IF j = i THEN rows ELSE bans[j]
  BY DEF Inv, TablesOK
<1>3. TablesOK'
  <2>1. bans' = [j \in Ids |-> bans'[j]]
    BY DEF Inv, TablesOK
  <2>2. \A j \in Ids : /\ bans'[j] \in [DOMAIN bans'[j] -> Kinds]
                       /\ DOMAIN bans'[j] \subseteq IF j \in Live THEN 1 .. MaxBans ELSE {}
    BY <1>2 DEF Inv, TablesOK
  <2> QED BY <1>1, <2>1, <2>2 DEF Inv, TablesOK
<1>4. SpentGone'
  BY DEF Inv, SpentGone
<1>5. PoisonKept
  <2> SUFFICES ASSUME NEW j \in Ids, HasPoison(j), ~HasPoison(j)'
               PROVE  RuledOn(j)
    BY DEF PoisonKept
  <2>1. CASE j = i
    BY <2>1, <1>2 DEF HasPoison
  <2>2. CASE j # i
    BY <2>2, <1>2 DEF HasPoison
  <2> QED BY <2>1, <2>2
<1> QED BY <1>1, <1>3, <1>4, <1>5

LEMMA LiftKeeps ==
  ASSUME Inv, NEW i \in Ids, LiftBans(i),
         UNCHANGED <<load, users, made, poisoned, tokens, drawn, spent>>
  PROVE  TablesOK' /\ SpentGone' /\ PoisonKept /\ Live' = Live
<1> DEFINE rows == Without(bans[i], {k \in DOMAIN bans[i] : bans[i][k] # "poison"})
<1>1. bans' = [bans EXCEPT ![i] = rows]
  BY DEF LiftBans, Inv, TablesOK
<1>2. /\ DOMAIN rows = {k \in DOMAIN bans[i] : bans[i][k] = "poison"}
      /\ \A k \in DOMAIN rows : rows[k] = bans[i][k]
  BY DEF Without
<1>3. /\ rows = [k \in DOMAIN rows |-> rows[k]]
      /\ DOMAIN rows \subseteq IF i \in Live THEN 1 .. MaxBans ELSE {}
  BY <1>2 DEF Without, Inv, TablesOK
<1>4. rows \in [DOMAIN rows -> Kinds]
  BY <1>2, <1>3 DEF Kinds
<1>5. HasPoison(i) /\ (\A k \in DOMAIN rows : rows[k] # "poison") => RuledOn(i)
  BY <1>2 DEF HasPoison
<1> HIDE DEF rows
<1> QED BY <1>1, <1>3, <1>4, <1>5, BansKeep

(* The rest of a request that has changed a row of bans.                   *)
LEMMA BansGood ==
  ASSUME Inv, load' = load, TablesOK', SpentGone', PoisonKept, Live' = Live,
         NEW p \in Requests, NEW r, Becomes(p, r),
         r \in Calls(1 .. made, drawn), r.step \notin {"rewrite", "moderation"},
         r.op = "forgot" => r.also # "spent",
         UNCHANGED <<made, drawn, pending, file, unban>>
  PROVE  Good
<1>1. /\ r \in Calls(1 .. made', drawn') /\ drawn \subseteq drawn' /\ made' \in Nat
      /\ made <= made' /\ \A i \in 1 .. made : i \in Live' => i \in Live
  BY MadeIsSmall
<1>2. CallsOK' /\ SpentTokenDead' /\ LockHeld' /\ DeletedGone' /\ OneEntry
  BY <1>1, CallSide
<1>3. RestOK'
  BY DEF Inv, RestOK, file, unban
<1> QED BY <1>2, <1>3 DEF Good, Inv

LEMMA UnbanGood ==
  ASSUME Inv, NEW p \in Requests, Unban(p), load' = load
  PROVE  Good
<1>1. CASE /\ \E n \in Names : \E i \in Named(n) :
                Starts(p, "unban", "lift", n, i, "none", "none")
           /\ UNCHANGED bans
  <2>1. PICK n \in Names : \E i \in Named(n) : Starts(p, "unban", "lift", n, i, "none", "none")
    BY <1>1
  <2>2. PICK i \in Named(n) : Starts(p, "unban", "lift", n, i, "none", "none")
    BY <2>1
  <2>3. [op |-> "unban", step |-> "lift", name |-> n, id |-> i, arg |-> "none",
         also |-> "none"] \in Calls(1 .. made, drawn)
    BY DEF Calls, Ops, Steps, Arguments, Named, Inv, TablesOK
  <2>4. UNCHANGED <<load, db, spent, pending, file, unban>>
    BY <1>1 DEF Unban, db
  <2> QED BY <2>2, <2>3, <2>4, StartsGood
<1>2. CASE At(p, "unban", "lift") /\ LiftBans(call[p].id) /\ Ends(p)
  <2>1. call[p].id \in Ids
    BY <1>2, MadeIsSmall DEF Inv, CallsOK, Calls, At
  <2>2. UNCHANGED <<users, made, poisoned, tokens, drawn, spent, pending, file, unban>>
    BY DEF Unban
  <2>3. TablesOK' /\ SpentGone' /\ PoisonKept /\ Live' = Live
    BY <1>2, <2>1, <2>2, LiftKeeps
  <2>4. Becomes(p, Idle) /\ Idle \in Calls(1 .. made, drawn)
    BY <1>2, IdleCall DEF Ends
  <2>5. Idle.step = "none" /\ Idle.op = "idle"
    BY DEF Idle
  <2> QED BY <2>2, <2>3, <2>4, <2>5, BansGood
<1> QED BY <1>1, <1>2 DEF Unban

(* An admin's ruling in hand, to be noted in the roster.                   *)
LEMMA RulingTyped ==
  ASSUME Inv, NEW p \in Requests, call[p].op = "moderate"
  PROVE  /\ [call[p] EXCEPT !.step = "roster"] \in Calls(1 .. made, drawn)
         /\ call[p].id \in Ids /\ call[p].arg \in Kinds
<1>1. call[p] \in Calls(1 .. made, drawn) /\ call[p].arg \in BanTypes
  BY DEF Inv, CallsOK, Calls
<1>2. call[p].arg \in Says /\ call[p].arg \in Kinds
  BY <1>1, AccountsAssumption DEF Kinds, Says
<1>3. call[p].id \in Ids
  BY <1>1, MadeIsSmall DEF Calls
<1>4. [call[p] EXCEPT !.step = "roster"] \in Calls(1 .. made, drawn)
  BY <1>1, <1>2 DEF Calls, Steps
<1> QED BY <1>2, <1>3, <1>4

LEMMA ModerateGood ==
  ASSUME Inv, NEW p \in Requests, Moderate(p), load' = load
  PROVE  Good
<1> DEFINE i == call[p].id
           kind == call[p].arg
           r == [call[p] EXCEPT !.step = "roster"]
<1>1. call[p] \in Calls(1 .. made, drawn)
  BY DEF Inv, CallsOK
<1>2. CASE /\ \E n \in Names, k \in BanTypes : \E u \in Named(n) :
                Starts(p, "moderate", "existing", n, u, k, "none")
           /\ UNCHANGED <<bans, roster, locked, copy>>
  <2>1. PICK n \in Names, k \in BanTypes : \E u \in Named(n) :
               Starts(p, "moderate", "existing", n, u, k, "none")
    BY <1>2
  <2>2. PICK u \in Named(n) : Starts(p, "moderate", "existing", n, u, k, "none")
    BY <2>1
  <2>3. k \in Kinds
    BY AccountsAssumption
  <2>4. [op |-> "moderate", step |-> "existing", name |-> n, id |-> u, arg |-> k,
         also |-> "none"] \in Calls(1 .. made, drawn)
    BY <2>3 DEF Calls, Ops, Steps, Arguments, Named, Inv, TablesOK
  <2>5. UNCHANGED <<load, db, spent, pending, file, unban>>
    BY <1>2 DEF Moderate, db, file
  <2> QED BY <2>2, <2>4, <2>5, StartsGood
<1>3. CASE /\ At(p, "moderate", "existing")
           /\ Goes(p, IF bans[i] # NoRows THEN "update" ELSE "insert")
           /\ UNCHANGED <<bans, roster, locked, copy>>
  <2>1. PICK step \in {"update", "insert"} : Goes(p, step)
    BY <1>3
  <2>2. step \in Steps \ {"link", "roster", "rewrite", "moderation"}
    BY DEF Steps
  <2>3. UNCHANGED <<load, db, spent, pending, file, unban>>
    BY <1>3 DEF Moderate, db, file
  <2> QED BY <2>1, <2>2, <2>3, GoesGood
<1>4. CASE /\ At(p, "moderate", "update")
           /\ bans' = [bans EXCEPT ![i] = [x \in DOMAIN @ |-> kind]]
           /\ Goes(p, "roster")
           /\ UNCHANGED <<roster, locked, copy>>
  <2>1. /\ r \in Calls(1 .. made, drawn) /\ i \in Ids /\ kind \in Kinds
        /\ Becomes(p, r) /\ r.step = "roster" /\ r.op = "moderate"
    BY <1>1, <1>4, RulingTyped DEF At, Goes, Calls
  <2>2. UNCHANGED <<users, made, poisoned, tokens, drawn, spent, pending, file, unban>>
    BY <1>4 DEF Moderate, file
  <2> DEFINE rows == [x \in DOMAIN bans[i] |-> kind]
  <2>3. bans' = [bans EXCEPT ![i] = rows]
    BY <1>4, <2>1 DEF Inv, TablesOK
  <2>4. /\ rows \in [DOMAIN rows -> Kinds]
        /\ DOMAIN rows \subseteq IF i \in Live THEN 1 .. MaxBans ELSE {}
    BY <2>1 DEF Inv, TablesOK
  <2>5. RuledOn(i)
    <3>1. call'[p] = r /\ call[p].step = "update"
      BY <2>1, <1>4 DEF Becomes, At, Inv, CallsOK
    <3>2. call'[p] # call[p]
      BY <2>1, <3>1
    <3> QED BY <1>4, <3>2 DEF RuledOn
  <2>6. r.step \notin {"rewrite", "moderation"} /\ (r.op = "forgot" => r.also # "spent")
    BY <2>1
  <2> HIDE DEF rows, r
  <2>7. TablesOK' /\ SpentGone' /\ PoisonKept /\ Live' = Live
    BY <2>1, <2>2, <2>3, <2>4, <2>5, BansKeep
  <2> QED BY <2>1, <2>2, <2>6, <2>7, BansGood
<1>5. CASE /\ At(p, "moderate", "insert") /\ i \in Live /\ InsertBan(i, kind)
           /\ Goes(p, "roster")
           /\ UNCHANGED <<roster, locked, copy>>
  <2>1. /\ r \in Calls(1 .. made, drawn) /\ i \in Ids /\ kind \in Kinds
        /\ Becomes(p, r) /\ r.step = "roster" /\ r.op = "moderate"
    BY <1>1, <1>5, RulingTyped DEF At, Goes, Calls
  <2>2. UNCHANGED <<users, made, poisoned, tokens, drawn, spent, pending, file, unban>>
    BY <1>5 DEF Moderate, file
  <2>3. PICK k \in (1 .. MaxBans) \ DOMAIN bans[i] :
          bans' = [bans EXCEPT ![i] = [x \in DOMAIN @ \cup {k} |-> IF x = k THEN kind ELSE @[x]]]
    BY <1>5 DEF InsertBan
  <2> DEFINE rows == [x \in DOMAIN bans[i] \cup {k} |-> IF x = k THEN kind ELSE bans[i][x]]
  <2>4. bans' = [bans EXCEPT ![i] = rows]
    BY <2>1, <2>3 DEF Inv, TablesOK
  <2>5. /\ rows \in [DOMAIN rows -> Kinds]
        /\ DOMAIN rows \subseteq IF i \in Live THEN 1 .. MaxBans ELSE {}
    BY <1>5, <2>1 DEF Inv, TablesOK
  <2>6. HasPoison(i) => \E x \in DOMAIN rows : rows[x] = "poison"
    BY DEF HasPoison
  <2>7. r.step \notin {"rewrite", "moderation"} /\ (r.op = "forgot" => r.also # "spent")
    BY <2>1
  <2> HIDE DEF rows, r
  <2>8. TablesOK' /\ SpentGone' /\ PoisonKept /\ Live' = Live
    BY <2>1, <2>2, <2>4, <2>5, <2>6, BansKeep
  <2> QED BY <2>1, <2>2, <2>7, <2>8, BansGood
<1>6. CASE call[p].op = "moderate" /\ RosterWritten(p, kind) /\ Ends(p) /\ UNCHANGED bans
  BY <1>6, RosterWrittenGood DEF Moderate, db
<1> QED BY <1>2, <1>3, <1>4, <1>5, <1>6, Zenon DEF Moderate

LEMMA AccStatusGood ==
  ASSUME Inv, NEW p \in Requests, AccStatus(p), load' = load
  PROVE  Good
<1>1. call[p] \in Calls(1 .. made, drawn)
  BY DEF Inv, CallsOK
<1>2. CASE /\ \E n \in Names : \E i \in Named(n) :
                Starts(p, "accstatus", "ban", n, i, "none", "none")
           /\ UNCHANGED <<roster, locked, copy>>
  <2>1. PICK n \in Names : \E i \in Named(n) : Starts(p, "accstatus", "ban", n, i, "none", "none")
    BY <1>2
  <2>2. PICK i \in Named(n) : Starts(p, "accstatus", "ban", n, i, "none", "none")
    BY <2>1
  <2>3. [op |-> "accstatus", step |-> "ban", name |-> n, id |-> i, arg |-> "none",
         also |-> "none"] \in Calls(1 .. made, drawn)
    BY DEF Calls, Ops, Steps, Arguments, Named, Inv, TablesOK
  <2>4. UNCHANGED <<load, db, spent, pending, file, unban>>
    BY <1>2 DEF AccStatus, file
  <2> QED BY <2>2, <2>3, <2>4, StartsGood
<1>3. CASE /\ At(p, "accstatus", "ban")
           /\ \E says \in {"ok", "temp", "perm", "poison"} :
                Becomes(p, [call[p] EXCEPT !.step = "roster", !.arg = says])
           /\ UNCHANGED <<roster, locked, copy>>
  <2>1. PICK says \in {"ok", "temp", "perm", "poison"} :
               Becomes(p, [call[p] EXCEPT !.step = "roster", !.arg = says])
    BY <1>3
  <2> DEFINE r == [call[p] EXCEPT !.step = "roster", !.arg = says]
  <2>2. r \in Calls(1 .. made, drawn) /\ r.step = "roster" /\ r.op = "accstatus"
    BY <1>1, <1>3 DEF Calls, Steps, Arguments, Says, At
  <2>3. UNCHANGED <<load, db, spent, pending, file, unban>>
    BY <1>3 DEF AccStatus, file
  <2>4. Becomes(p, r)
    BY <2>1
  <2> HIDE DEF r
  <2> QED BY <2>2, <2>3, <2>4, OnlyReads
<1>4. CASE call[p].op = "accstatus" /\ RosterWritten(p, call[p].arg) /\ Ends(p)
  BY <1>4, RosterWrittenGood DEF AccStatus
<1>5. At(p, "accstatus", "ban") =>
        \A k \in DOMAIN bans[call[p].id] : Said(bans[call[p].id][k]) \in {"ok", "temp", "perm", "poison"}
  <2> SUFFICES ASSUME At(p, "accstatus", "ban"), NEW k \in DOMAIN bans[call[p].id]
               PROVE  Said(bans[call[p].id][k]) \in {"ok", "temp", "perm", "poison"}
    OBVIOUS
  <2>1. call[p].id \in Ids
    BY <1>1, MadeIsSmall DEF At, Calls
  <2>2. bans[call[p].id][k] \in Kinds
    BY <2>1 DEF Inv, TablesOK
  <2> QED BY <2>2 DEF Kinds, Said
<1> QED BY <1>2, <1>3, <1>4, <1>5 DEF AccStatus

LEMMA AccountStatusGood ==
  ASSUME Inv, NEW p \in Requests, AccountStatus(p), load' = load
  PROVE  Good
<1>1. call[p] \in Calls(1 .. made, drawn)
  BY DEF Inv, CallsOK
<1>2. CASE /\ \E n \in Names, d \in Devices : \E i \in Named(n) :
                Starts(p, "status", "ban", n, i, d, "none")
           /\ UNCHANGED poisoned
  <2>1. PICK n \in Names, d \in Devices : \E i \in Named(n) :
               Starts(p, "status", "ban", n, i, d, "none")
    BY <1>2
  <2>2. PICK i \in Named(n) : Starts(p, "status", "ban", n, i, d, "none")
    BY <2>1
  <2>3. [op |-> "status", step |-> "ban", name |-> n, id |-> i, arg |-> d,
         also |-> "none"] \in Calls(1 .. made, drawn)
    BY DEF Calls, Ops, Steps, Arguments, Named, Inv, TablesOK
  <2>4. UNCHANGED <<load, db, spent, pending, file, unban>>
    BY <1>2 DEF AccountStatus, db
  <2> QED BY <2>2, <2>3, <2>4, StartsGood
<1>3. CASE Goes(p, "device") /\ UNCHANGED poisoned
  BY <1>3, GoesGood DEF AccountStatus, db, Steps
<1>4. CASE /\ At(p, "status", "device")
           /\ poisoned' = IF call[p].arg \in DOMAIN poisoned \/ call[p].id \notin Live
                          THEN poisoned
                          ELSE [d \in DOMAIN poisoned \cup {call[p].arg} |->
                                  IF d = call[p].arg THEN call[p].id ELSE poisoned[d]]
           /\ Ends(p)
  <2>1. UNCHANGED <<users, made, bans, tokens, drawn, spent, pending, file, unban>>
    BY DEF AccountStatus
  <2>2. call[p].arg \in Devices
    BY <1>1, <1>4 DEF At, Calls
  <2>3. DOMAIN poisoned' \subseteq Devices /\ poisoned' \in [DOMAIN poisoned' -> Live]
    BY <1>4, <2>2 DEF Inv, TablesOK
  <2>4. Live' = Live
    BY <2>1 DEF Live
  <2>5. TablesOK' /\ SpentGone' /\ PoisonKept
    BY <2>1, <2>3, <2>4 DEF Inv, TablesOK, SpentGone, PoisonKept, HasPoison
  <2>6. Becomes(p, Idle) /\ Idle \in Calls(1 .. made, drawn)
    BY <1>4, IdleCall DEF Ends
  <2>7. Idle.step = "none" /\ Idle.op = "idle"
    BY DEF Idle
  <2> QED BY <2>1, <2>4, <2>5, <2>6, <2>7, BansGood
<1> QED BY <1>2, <1>3, <1>4 DEF AccountStatus


-----------------------------------------------------------------------------
(* Auto-unban and the clock: steps in which no request moves.              *)
LEMMA SweepSelectsGood ==
  ASSUME Inv, SweepSelects, load' = load
  PROVE  Good
<1>1. UNCHANGED <<load, db, spent, pending, file, errors, call>>
  BY DEF SweepSelects
<1>2. sweep' \subseteq Ids
  BY DEF SweepSelects
<1>3. TablesOK' /\ SpentGone' /\ PoisonKept
  BY <1>1, TablesStay
<1>4. CallsOK' /\ SpentTokenDead' /\ LockHeld' /\ DeletedGone' /\ OneEntry
  <2>1. call' = call /\ made' = made /\ drawn \subseteq drawn' /\ Live' = Live /\ UNCHANGED file
    BY <1>1 DEF db, Live
  <2> QED BY <2>1, CallsUntouched
<1>5. RestOK'
  BY <1>1, <1>2 DEF Inv, RestOK, file
<1> QED BY <1>3, <1>4, <1>5 DEF Good, Inv

LEMMA SweepLiftsGood ==
  ASSUME Inv, SweepLifts, load' = load
  PROVE  Good
<1>1. PICK i \in sweep : LiftBans(i) /\ sweep' = sweep \ {i}
  BY DEF SweepLifts
<1>2. UNCHANGED <<users, made, poisoned, tokens, drawn, spent, pending, file, errors, call>>
  BY DEF SweepLifts
<1>3. i \in Ids
  BY DEF Inv, RestOK
<1>4. TablesOK' /\ SpentGone' /\ PoisonKept /\ Live' = Live
  BY <1>1, <1>2, <1>3, LiftKeeps
<1>5. CallsOK' /\ SpentTokenDead' /\ LockHeld' /\ DeletedGone' /\ OneEntry
  BY <1>2, <1>4, CallsUntouched
<1>6. RestOK'
  BY <1>1, <1>2 DEF Inv, RestOK, file
<1> QED BY <1>4, <1>5, <1>6 DEF Good, Inv

LEMMA SweepFailsGood ==
  ASSUME Inv, SweepFails, load' = load
  PROVE  Good
<1>1. UNCHANGED <<load, db, spent, pending, file, call>> /\ sweep' = {} /\ errors' = errors + 1
  BY DEF SweepFails
<1>2. TablesOK' /\ SpentGone' /\ PoisonKept
  BY <1>1, TablesStay
<1>3. CallsOK' /\ SpentTokenDead' /\ LockHeld' /\ DeletedGone' /\ OneEntry
  <2>1. call' = call /\ made' = made /\ drawn \subseteq drawn' /\ Live' = Live /\ UNCHANGED file
    BY <1>1 DEF db, Live
  <2> QED BY <2>1, CallsUntouched
<1>4. RestOK'
  BY <1>1 DEF Inv, RestOK, file
<1> QED BY <1>2, <1>3, <1>4 DEF Good, Inv

LEMMA BanExpiresGood ==
  ASSUME Inv, BanExpires, load' = load
  PROVE  Good
<1>1. PICK i \in Ids : \E k \in DOMAIN bans[i] :
        bans[i][k] = "temp" /\ bans' = [bans EXCEPT ![i][k] = "expired"]
  BY DEF BanExpires
<1>2. PICK k \in DOMAIN bans[i] :
        bans[i][k] = "temp" /\ bans' = [bans EXCEPT ![i][k] = "expired"]
  BY <1>1
<1>3. UNCHANGED <<users, made, poisoned, tokens, drawn, spent, pending, file, unban, call>>
  BY DEF BanExpires
<1> DEFINE rows == [bans[i] EXCEPT ![k] = "expired"]
<1>4. bans' = [bans EXCEPT ![i] = rows]
  BY <1>2
<1>5. /\ rows \in [DOMAIN rows -> Kinds]
      /\ DOMAIN rows \subseteq IF i \in Live THEN 1 .. MaxBans ELSE {}
  BY DEF Inv, TablesOK, Kinds
<1>6. HasPoison(i) => \E x \in DOMAIN rows : rows[x] = "poison"
  BY <1>2 DEF HasPoison, Inv, TablesOK
<1> HIDE DEF rows
<1>7. TablesOK' /\ SpentGone' /\ PoisonKept /\ Live' = Live
  BY <1>3, <1>4, <1>5, <1>6, BansKeep
<1>8. CallsOK' /\ SpentTokenDead' /\ LockHeld' /\ DeletedGone' /\ OneEntry
  BY <1>3, <1>7, CallsUntouched
<1>9. RestOK'
  BY <1>3 DEF Inv, RestOK, file, unban
<1> QED BY <1>7, <1>8, <1>9 DEF Good, Inv

LEMMA TokenExpiresGood ==
  ASSUME Inv, TokenExpires, load' = load
  PROVE  Good
<1>1. PICK t \in DOMAIN tokens : tokens' = [tokens EXCEPT ![t].expired = TRUE]
  BY DEF TokenExpires
<1>2. UNCHANGED <<users, made, bans, poisoned, drawn, spent, pending, file, unban, call>>
  BY DEF TokenExpires
<1>3. Live' = Live
  BY <1>2 DEF Live
<1>4. DOMAIN tokens' = DOMAIN tokens
      /\ tokens' \in [DOMAIN tokens' -> [user : Live, expired : BOOLEAN]]
  BY <1>1 DEF Inv, TablesOK
<1>5. TablesOK' /\ SpentGone' /\ PoisonKept
  BY <1>2, <1>3, <1>4 DEF Inv, TablesOK, SpentGone, PoisonKept, HasPoison
<1>6. CallsOK' /\ SpentTokenDead' /\ LockHeld' /\ DeletedGone' /\ OneEntry
  BY <1>2, <1>3, CallsUntouched
<1>7. RestOK'
  BY <1>2 DEF Inv, RestOK, file, unban
<1> QED BY <1>5, <1>6, <1>7 DEF Good, Inv

-----------------------------------------------------------------------------
LEMMA InitInvariant == Init => Inv
<1> SUFFICES ASSUME Init PROVE Inv
  OBVIOUS
<1>1. load.accounts \in Nat /\ load.accounts >= 1
  BY AccountsAssumption DEF Init, Ids
<1>2. TablesOK
  BY <1>1 DEF Init, TablesOK, NoRows, Live
<1>3. RestOK
  BY DEF Init, RestOK, Unread, Says
<1>4. CallsOK
  BY IdleCall DEF Init, CallsOK
<1>5. SpentGone /\ SpentTokenDead /\ LockHeld /\ DeletedGone
  BY DEF Init, SpentGone, SpentTokenDead, LockHeld, DeletedGone, At, Idle
<1> QED BY <1>2, <1>3, <1>4, <1>5 DEF Inv

LEMMA StutterGood ==
  ASSUME Inv, UNCHANGED vars
  PROVE  Good
<1>1. UNCHANGED <<load, db, spent, pending, file, unban, call>>
  BY DEF vars
<1>2. TablesOK' /\ SpentGone' /\ PoisonKept
  BY <1>1, TablesStay
<1>3. CallsOK' /\ SpentTokenDead' /\ LockHeld' /\ DeletedGone' /\ OneEntry
  <2>1. call' = call /\ made' = made /\ drawn \subseteq drawn' /\ Live' = Live /\ UNCHANGED file
    BY <1>1 DEF db, Live
  <2> QED BY <2>1, CallsUntouched
<1>4. RestOK'
  BY <1>1 DEF Inv, RestOK, file, unban
<1> QED BY <1>2, <1>3, <1>4 DEF Good, Inv

(* One case per handler, per task and per tick of the clock.               *)
LEMMA NextGood == Inv /\ [Next]_vars => Good
<1> SUFFICES ASSUME Inv, [Next]_vars PROVE Good
  OBVIOUS
<1>1. ASSUME NEW p \in Requests, Handles(p), load' = load
      PROVE  Good
  BY <1>1, RegisterGood, DeleteUserGood, CallbackGood, CompleteGood, ResetPasswordGood,
     GenResetGood, ForgotGood, RosterReadGood, ModerateGood, UnbanGood, AccStatusGood,
     AccountStatusGood, StopsGood DEF Handles
<1>2. CASE Next
  BY <1>1, <1>2, PlayerJoinsGood, SweepSelectsGood, SweepLiftsGood, SweepFailsGood,
     BanExpiresGood, TokenExpiresGood DEF Next
<1>3. CASE UNCHANGED vars
  BY <1>3, StutterGood
<1> QED BY <1>2, <1>3

LEMMA InvIsTypeOK == Inv => TypeOK
BY DEF Inv, TypeOK, TablesOK, RestOK, CallsOK

-----------------------------------------------------------------------------
(* The tables keep their foreign keys whatever the statements of different *)
(* handlers are interleaved with: no ban, device or token outlives its     *)
(* account.                                                                *)
THEOREM AccountsTypeCorrect == Spec => []TypeOK
<1>1. Init => Inv
  BY InitInvariant
<1>2. Inv /\ [Next]_vars => Inv'
  BY NextGood DEF Good
<1>3. Inv => TypeOK
  BY InvIsTypeOK
<1> QED BY <1>1, <1>2, <1>3, PTL DEF Spec

(* After "Password changed" for a token no later request gets past the     *)
(* look-up with it: tokens are deleted before they count as used and never *)
(* drawn again.                                                            *)
THEOREM SpentTokenDeadHolds == Spec => []SpentTokenDead
<1>1. Init => Inv
  BY InitInvariant
<1>2. Inv /\ [Next]_vars => Inv'
  BY NextGood DEF Good
<1>3. Inv => SpentTokenDead
  BY DEF Inv
<1> QED BY <1>1, <1>2, <1>3, PTL DEF Spec

(* Two writers of the roster file never undo each other: between the read  *)
(* of it and the write of it under the lock the file cannot change.        *)
THEOREM RosterWritesOneEntryHolds == Spec => RosterWritesOneEntry
<1>1. Init => Inv
  BY InitInvariant
<1>2. Inv /\ [Next]_vars => Inv'
  BY NextGood DEF Good
<1>3. Inv /\ [Next]_vars => OneEntry
  BY NextGood DEF Good
<1> QED BY <1>1, <1>2, <1>3, PTL DEF Spec, RosterWritesOneEntry, OneEntry

(* A poison ban ends only with its account or by an admin's new ruling: an *)
(* unban or an expiry decided on before it was made leaves it alone.       *)
THEOREM PoisonStaysHolds == Spec => PoisonStays
<1>1. Init => Inv
  BY InitInvariant
<1>2. Inv /\ [Next]_vars => Inv'
  BY NextGood DEF Good
<1>3. Inv /\ [Next]_vars => PoisonKept
  BY NextGood DEF Good
<1> QED BY <1>1, <1>2, <1>3, PTL DEF Spec, PoisonStays, PoisonKept

=============================================================================
