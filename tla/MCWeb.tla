------------------------------- MODULE MCWeb -------------------------------
(***************************************************************************)
(* Parts of the web service that share nothing, so that each behaviour is  *)
(* about one of them: two requests of a user at their projects; three      *)
(* requests that use, make and delete API keys or come from one address;   *)
(* the service's start on any table that an earlier version left, with the *)
(* status page it then serves; and an answer about polls, put together     *)
(* while they change.                                                      *)
(***************************************************************************)
EXTENDS Projects, ApiKeys, Site, PollPages, TLC

CONSTANTS p1, p2, p3, u1, u2, tea, mate

VARIABLE part

all == <<part, vars, keyVars, siteVars, pageVars>>

(* Several projects and their directories; then one project and its files. *)
ProjectLoads ==
  {[ops |-> {"create", "delete", "upload"}, sizes |-> {1}, made |-> 3, stored |-> 2],
   [ops |-> {"create", "delete", "upload", "replace", "delfile"}, sizes |-> {1, 2},
    made |-> 1, stored |-> 3]}

(* One key used by many requests, one with a limit of 0 or less; one user  *)
(* who asks for keys an admin deletes; one address.                        *)
KeyUses ==
  {[ops |-> {"validate", "usage", "get"}, keys |-> 1, limits |-> {}],
   [ops |-> {"validate", "usage", "create"}, keys |-> 1, limits |-> {-1, 0}],
   [ops |-> {"get", "usage", "create", "delete"}, keys |-> 3, limits |-> {1}],
   [ops |-> {"check"}, keys |-> 0, limits |-> {}]}

UserColumns == {"password_hash", "is_admin", "is_chatallowed", "is_projallowed", "created_at",
                "is_member", "is_og", "email", "oauth_provider", "oauth_subject"}

(* No table, and tables that earlier versions made; then a status page.    *)
Databases ==
  {[columns |-> c, ops |-> {}, comps |-> {}, crashes |-> 2, incidents |-> 0, history |-> 0] :
     c \in {{}, {"password", "isAdmin", "is_plexallowed", "is_projallowed", "created_at without default"},
            {"password", "is_admin", "is_plexallowed", "is_projallowed", "created_at", "is_member"},
            {"password_hash", "is_admin", "is_plexallowed", "is_projallowed", "created_at", "is_member",
             "is_og"},
            UserColumns \ {"oauth_provider", "oauth_subject"}, UserColumns}}
  \cup {[columns |-> {}, ops |-> {"create", "update", "component"},
         comps |-> {"forum"}, crashes |-> 0, incidents |-> 1, history |-> 3]}

UserRenames == <<[old |-> "password", new |-> "password_hash"],
                 [old |-> "isAdmin", new |-> "is_admin"],
                 [old |-> "is_plexallowed", new |-> "is_chatallowed"],
                 [old |-> "created_at without default", new |-> "created_at"]>>
LateColumns == <<"is_member", "is_og", "email", "oauth_provider", "oauth_subject">>
UserIndexes == <<"idx_users_email", "idx_users_oauth">>
FirstComponents == <<"login", "storage">>

A(closes, ended, audience, out) ==
  [open |-> TRUE, multiple |-> FALSE, duration |-> IF closes = Null THEN Null ELSE 2,
   created |-> 0, closes |-> closes, ended |-> ended, audience |-> audience, excluded |-> out]

Everyone == {"everyone"}
Sorts == {A(Null, Null, Everyone, {}), A(4, Null, Everyone, {u1}), A(3, Null, {"members"}, {}),
          A(2, Null, Everyone, {}), A(Null, 1, {"members"}, {}), A(2, 1, Everyone, {u1})}

Readers == {u1, u2}
Listed == 1 .. 3
Drinks == {tea, mate}
Unvoted == [p \in Listed |-> [u \in Readers |-> {}]]
Flags == [u \in Readers |-> IF u = u1 THEN {"members"} ELSE {}]

(* Any two polls, and a live or an ended one, perhaps not there yet.       *)
ListWorlds ==
  {[polls |-> <<first, second, [third EXCEPT !.open = there]>>,
    ballots |-> Unvoted, flags |-> Flags] :
     first \in Sorts, second \in Sorts, there \in BOOLEAN,
     third \in {A(4, Null, Everyone, {u1}), A(Null, 1, {"members"}, {})}}

(* One poll, the others not there yet, and any ballots on it.              *)
TallyWorlds ==
  {[polls |-> [p \in Listed |-> IF p = 1 THEN [A(4, Null, Everyone, {}) EXCEPT !.multiple = TRUE]
                              ELSE [A(4, Null, Everyone, {}) EXCEPT !.open = FALSE]],
    ballots |-> [Unvoted EXCEPT ![1] = cast], flags |-> Flags] :
     cast \in [Readers -> SUBSET Drinks]}
  \cup
  {[polls |-> [p \in Listed |-> IF p = 1 THEN A(4, Null, Everyone, {})
                              ELSE [A(4, Null, Everyone, {}) EXCEPT !.open = FALSE]],
    ballots |-> [Unvoted EXCEPT ![1] = cast], flags |-> Flags] :
     cast \in [Readers -> {s \in SUBSET Drinks : Cardinality(s) <= 1}]}

AllWorlds == ListWorlds \cup TallyWorlds

(* A part that is not of this behaviour is at rest, under any of its loads. *)
Chosen(l, ls) == l = CHOOSE x \in ls : TRUE
FirstWorld == Chosen([polls |-> polls, ballots |-> ballots, flags |-> flags], Worlds)

Begins ==
  /\ part \in {"projects", "keys", "status", "pages"}
  /\ Init /\ KeyInit /\ SiteInit /\ PagesInit
  /\ part = "projects" \/ Chosen(load, Loads)
  /\ part = "keys" \/ Chosen(keyLoad, KeyLoads)
  /\ part = "status" \/ Chosen(siteLoad, SiteLoads)
  /\ part = "pages" \/ FirstWorld

Turn ==
  /\ \/ part = "projects" /\ Next /\ UNCHANGED <<keyVars, siteVars, pageVars>>
     \/ part = "keys" /\ KeyNext /\ UNCHANGED <<vars, siteVars, pageVars>>
     \/ part = "status" /\ SiteNext /\ UNCHANGED <<vars, keyVars, pageVars>>
     \/ part = "pages" /\ PagesNext /\ UNCHANGED <<vars, keyVars, siteVars>>
  /\ UNCHANGED part

WebSpec == Begins /\ [][Turn]_all

Symmetric == Permutations({p1, p2})
=============================================================================
