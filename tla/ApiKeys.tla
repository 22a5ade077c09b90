------------------------------ MODULE ApiKeys -------------------------------
(***************************************************************************)
(* API keys and the two limits on requests: so many an hour for a key       *)
(* (middleware/api_key_auth.rs, with the handlers of routes/api_keys.rs and *)
(* routes/auth/account.rs that make, show and delete keys), and so many in  *)
(* a sliding window for an address (middleware/rate_limit.rs).              *)
(*                                                                         *)
(* One definition is one handler, one disjunct of it one SQL statement.     *)
(***************************************************************************)
EXTENDS Integers, Sequences, FiniteSets, SequencesExt

CONSTANTS KeyRequests,   \* requests that run at a time
          Users,         \* users with an account
          FreeLimit,     \* hourly_limit of the key that get_key makes
          MaxRequests,   \* max_requests: of an address in a window
          Window,        \* window_secs
          MaxTime,       \* bound: the clock
          KeyLoads       \* what clients may ask for, the limits that admins may
                         \* give, and the bound on keys made

ASSUME ApiKeysAssumption ==
    /\ IsFiniteSet(KeyRequests) /\ KeyRequests # {}
    /\ FreeLimit \in Int /\ MaxRequests \in Nat /\ Window \in Nat /\ MaxTime \in Nat
    /\ \A l \in KeyLoads : l.keys \in Nat /\ l.limits \subseteq Int

VARIABLES keyLoad,  \* the load, chosen once
          keys,     \* rows of api_keys: id -> limit, count, and whether an hour is over
          drawn,    \* ids drawn so far: uuids are never drawn twice
          link,     \* users.apiKeyId, 0 for NULL
          admitted, \* requests each key was admitted for since its hour began
          asks,     \* requests of one address in the window, oldest first
          now,      \* the clock
          passed,   \* requests of the address that passed: <<time, how many by then>>
          keyCall   \* the requests

table == <<keys, drawn, link, admitted>>
limiter == <<asks, passed>>
keyVars == <<keyLoad, table, limiter, now, keyCall>>

KeyIdle == [op |-> "idle", step |-> "none", user |-> "none", key |-> 0, at |-> 0]
KeyAt(p, op, step) == keyCall[p].op = op /\ keyCall[p].step = step
KeyBecomes(p, r) == keyCall' = [keyCall EXCEPT ![p] = r]
KeyGoes(p, step) == KeyBecomes(p, [keyCall[p] EXCEPT !.step = step])
KeyEnds(p) == KeyBecomes(p, KeyIdle)
KeyStarts(p, op, r) == /\ keyCall[p] = KeyIdle /\ op \in keyLoad.ops
                       /\ KeyBecomes(p, [r EXCEPT !.op = op])
Held == DOMAIN keys

KeyInit ==
    /\ keyLoad \in KeyLoads
    /\ keys = << >> /\ drawn = 0 /\ link = [u \in Users |-> 0]
    /\ admitted = [k \in 1 .. keyLoad.keys |-> 0]
    /\ asks = << >> /\ now = 0 /\ passed = {}
    /\ keyCall = [p \in KeyRequests |-> KeyIdle]

\* INSERT INTO api_keys: request_count 0, last_reset NOW().
InsertKey(limit) ==
    /\ drawn < keyLoad.keys
    /\ drawn' = drawn + 1
    /\ keys' = [k \in Held \cup {drawn'} |->
                  IF k = drawn' THEN [limit |-> limit, count |-> 0, old |-> FALSE]
                  ELSE keys[k]]

\* (Mutant: the comparison lets the limit itself through.)
MayUseOneMore(row) == row.count <= row.limit

\* request_count >= hourly_limit refuses: a limit may be zero or negative.
MayUse(row) == row.count < row.limit

\* UPDATE api_keys SET request_count = ?, last_reset = NOW(): an hour begins,
\* unless another request has just begun it.
Restart(k, count, uses) ==
    IF k \in Held
      THEN /\ keys' = [keys EXCEPT ![k] = [@ EXCEPT !.count = count, !.old = FALSE]]
           /\ admitted' = [admitted EXCEPT ![k] = (IF keys[k].old THEN 0 ELSE @) + uses]
      ELSE UNCHANGED <<keys, admitted>>

\* validate_and_track_usage: read the row; a new hour, a refusal, or one more.
Validate(p) ==
    /\ \/ \E k \in Held :
           /\ keys[k].old
           /\ KeyStarts(p, "validate", [KeyIdle EXCEPT !.step = "restart", !.key = k])
           /\ UNCHANGED table
       \/ \E k \in Held :
           /\ ~keys[k].old /\ MayUse(keys[k])
           /\ KeyStarts(p, "validate", [KeyIdle EXCEPT !.step = "count", !.key = k])
           /\ UNCHANGED table
       \/ /\ KeyAt(p, "validate", "restart")
          /\ Restart(keyCall[p].key, 1, 1)
          /\ KeyEnds(p)
          /\ UNCHANGED <<drawn, link>>
       \/ /\ KeyAt(p, "validate", "count")
          /\ IF keyCall[p].key \in Held
               THEN /\ keys' = [keys EXCEPT ![keyCall[p].key].count = @ + 1]
                    /\ admitted' = [admitted EXCEPT ![keyCall[p].key] = @ + 1]
               ELSE UNCHANGED <<keys, admitted>>
          /\ KeyEnds(p)
          /\ UNCHANGED <<drawn, link>>
    /\ UNCHANGED <<limiter, now>>

\* get_key: the user's key; a link to a key that is gone is cleared and a new
\* key made, and the user linked to it.
GetKey(p) ==
    /\ \/ /\ \E u \in Users :
              KeyStarts(p, "get", [KeyIdle EXCEPT !.user = u, !.key = link[u],
                                   !.step = IF link[u] = 0 THEN "insert" ELSE "find"])
          /\ UNCHANGED <<keys, drawn, link>>
       \/ /\ KeyAt(p, "get", "find") /\ keyCall[p].key \in Held
          /\ KeyEnds(p)
          /\ UNCHANGED <<keys, drawn, link>>
       \/ /\ KeyAt(p, "get", "find") /\ keyCall[p].key \notin Held
          /\ KeyGoes(p, "clear")
          /\ UNCHANGED <<keys, drawn, link>>
       \/ /\ KeyAt(p, "get", "clear")
          /\ link' = [link EXCEPT ![keyCall[p].user] = 0]
          /\ KeyGoes(p, "insert")
          /\ UNCHANGED <<keys, drawn>>
       \/ /\ KeyAt(p, "get", "insert")
          /\ InsertKey(FreeLimit)
          /\ KeyBecomes(p, [keyCall[p] EXCEPT !.step = "link", !.key = drawn'])
          /\ UNCHANGED link
       \/ /\ KeyAt(p, "get", "link")
          /\ link' = [link EXCEPT ![keyCall[p].user] = keyCall[p].key]
          /\ KeyEnds(p)
          /\ UNCHANGED <<keys, drawn>>
    /\ UNCHANGED <<admitted, limiter, now>>

\* api_usage: the user's key; a link to a key that is gone is cleared; else
\* get_key_usage begins a new hour for a key whose hour is over and reads it.
ApiUsage(p) ==
    /\ \/ /\ \E u \in Users :
              /\ link[u] # 0
              /\ KeyStarts(p, "usage", [KeyIdle EXCEPT !.user = u, !.key = link[u],
                                        !.step = "find"])
          /\ UNCHANGED table
       \/ /\ KeyAt(p, "usage", "find")
          /\ KeyGoes(p, IF keyCall[p].key \in Held THEN "restart" ELSE "clear")
          /\ UNCHANGED table
       \/ /\ KeyAt(p, "usage", "clear")
          /\ link' = [link EXCEPT ![keyCall[p].user] = 0]
          /\ KeyEnds(p)
          /\ UNCHANGED <<keys, drawn, admitted>>
       \/ /\ KeyAt(p, "usage", "restart")
          /\ IF keyCall[p].key \in Held /\ keys[keyCall[p].key].old
               THEN Restart(keyCall[p].key, 0, 0) ELSE UNCHANGED <<keys, admitted>>
          /\ KeyEnds(p)
          /\ UNCHANGED <<drawn, link>>
    /\ UNCHANGED <<limiter, now>>

\* POST and DELETE /api/keys: one statement each; any limit is stored.
CreateApiKey ==
    /\ "create" \in keyLoad.ops /\ \E limit \in keyLoad.limits : InsertKey(limit)
    /\ UNCHANGED <<link, admitted, limiter, now, keyCall>>

DeleteApiKey ==
    /\ "delete" \in keyLoad.ops
    /\ \E k \in Held : keys' = [j \in Held \ {k} |-> keys[j]]
    /\ UNCHANGED <<drawn, link, admitted, limiter, now, keyCall>>

\* (Mutant: the oldest entry goes with its window, the window taken as open.)
DropOldEarly(s, t) ==
    LET kept == {i \in DOMAIN s : t - s[i] < Window}
    IN  IF kept = {} THEN << >> ELSE SubSeq(s, Min(kept), Len(s))

\* The entries at the front that are older than the window go; Instant
\* subtraction is never negative.
DropOld(s, t) ==
    LET kept == {i \in DOMAIN s : t - s[i] <= Window}
    IN  IF kept = {} THEN << >> ELSE SubSeq(s, Min(kept), Len(s))

PassedAt(t) == Cardinality({e \in passed : e[1] = t})

\* RateLimiter::check takes the time before it waits for the address's entry;
\* two checks may append their times in either order.
Check(p) ==
    /\ \/ /\ KeyStarts(p, "check", [KeyIdle EXCEPT !.step = "entry", !.at = now])
          /\ UNCHANGED limiter
       \/ /\ KeyAt(p, "check", "entry")
          /\ LET kept == DropOld(asks, keyCall[p].at)
             IN  IF Len(kept) >= MaxRequests
                   THEN asks' = kept /\ UNCHANGED passed
                   ELSE /\ asks' = Append(kept, keyCall[p].at)
                        /\ passed' = passed \cup {<<keyCall[p].at, PassedAt(keyCall[p].at) + 1>>}
          /\ KeyEnds(p)
    /\ UNCHANGED <<table, now>>

HourPasses ==
    /\ \E k \in Held : ~keys[k].old /\ keys' = [keys EXCEPT ![k].old = TRUE]
    /\ UNCHANGED <<drawn, link, admitted, limiter, now, keyCall>>

Tick ==
    /\ "check" \in keyLoad.ops /\ now < MaxTime /\ now' = now + 1
    /\ UNCHANGED <<table, limiter, keyCall>>

\* A request that is dropped or fails at a statement.
KeyStops(p) ==
    /\ keyCall[p] # KeyIdle /\ KeyEnds(p)
    /\ UNCHANGED <<table, limiter, now>>

KeyNext ==
    /\ \/ \E p \in KeyRequests : \/ Validate(p) \/ GetKey(p) \/ ApiUsage(p)
                              \/ Check(p) \/ KeyStops(p)
       \/ CreateApiKey \/ DeleteApiKey \/ HourPasses \/ Tick
    /\ UNCHANGED keyLoad

KeySpec == KeyInit /\ [][KeyNext]_keyVars

-----------------------------------------------------------------------------
KeyTypeOK ==
    /\ drawn \in 0 .. keyLoad.keys /\ Held \subseteq 1 .. drawn
    /\ keys \in [Held -> [limit : Int, count : Nat, old : BOOLEAN]]
    /\ link \in [Users -> 0 .. drawn]
    /\ now \in 0 .. MaxTime /\ Len(asks) <= MaxRequests
    /\ \A i \in 1 .. Len(asks) : asks[i] \in 0 .. now

\* However requests overlap, R of them at a time, a key is admitted in one hour
\* at most R times its limit and R(R - 1)/2 more: the count is read, compared and
\* written in separate statements; requests that all find the hour over all set
\* the count back to one, and between two such resets every other request that
\* read the count below the limit still adds one.  A limit below one counts as
\* one: whatever it is, the request that finds the hour over is admitted.
AtLeastOne(limit) == IF limit < 1 THEN 1 ELSE limit

HourlyNearLimit ==
    LET R == Cardinality(KeyRequests)
    IN  \A k \in Held :
            admitted[k] <= R * AtLeastOne(keys[k].limit) + (R * (R - 1)) \div 2

\* An address gets no more requests through in any window than the limit and
\* one for each other check under way: a check that read the clock first may
\* come to the entry after another has dropped what was still in its window.
WindowNearLimit ==
    \A t \in 0 .. MaxTime :
        Cardinality({e \in passed : e[1] \in t .. t + Window})
            <= MaxRequests + Cardinality(KeyRequests) - 1

\* So both limits are missed by no more than the requests that overlap.
KeysNearLimit == HourlyNearLimit /\ WindowNearLimit

=============================================================================
