# A verification of apiRD

apiRD is the backend of a Minecraft community: accounts, polls, moderation, file
storage, and a console that watches and controls the game server. This directory
holds TLA+ modules translated from its source (paths below are relative to
`src/src/src/` unless they start with `src/`), TLC configurations that check them,
and TLAPS proofs of their main theorems.

The handlers are asynchronous Rust over MariaDB (InnoDB, REPEATABLE READ). Between
any two `await`s another request may run, and a request may be dropped there, so
almost everything that can go wrong in this code goes wrong *between* statements.
That is the grain of the models: one action per database statement, file operation
or lock region, with every other actor free to run in between.

## Inventory

| Component | State | Operations | What is hard |
| --- | --- | --- | --- |
| Polls (`routes/polls.rs`, `polls.rs`) | tables `polls`, `poll_options`, `poll_audiences`, `poll_exclusions`, `poll_votes` | create, vote, end, extend, list | ballots replaced by delete and insert; checks on rows and clocks read earlier; compare-and-set on closing times; cascades from deleted accounts |
| Power control (`console/control.rs`, `routes/console.rs`, `routes/api.rs`, `routes/auth/games.rs`, sidecar in `src/docker-compose.yml`) | job table in memory, spool directory, `console_audit` rows, docker | start, stop, restart, poll the result | two processes that share only files and restart independently; a save that must come first; results out of order with the task that asked |
| Console log (`console/mod.rs`, `console/tail.rs`) | backlog and broadcast channel per source, tail cursor | push, subscribe, tail, stream | backlog handed over to live lines; slow receivers; rotation and truncation |
| Presence and snapshots (`console/presence.rs`, `console/stats.rs`) | set of players online, cached RCON answers | apply a log line, resync, read | the answer to `list` races with log lines; caches |
| RCON client (`rcon.rs`) | one connection behind a mutex | execute, drain, reconnect | a retried command may run twice; late packets; timeouts |
| Console actions and audit (`routes/console.rs`, `console/audit.rs`) | `console_audit` rows | begin, finish, announce | a row before every action, whatever fails later |
| Moderation (`routes/auth/admin.rs`, `main.rs`, `routes/auth/common.rs`) | `user_moderation`, `poison_hwids`, `authedPlayers.json` | ban, unban, auto-unban, status check | select then write; a periodic task that deletes by user; a file rewritten in place |
| Sessions and accounts (`routes/auth/session.rs`, `account.rs`, `middleware/`) | `users`, tokens held by clients | register, login, refresh, delete | claims in a token against flags in the table |
| Password reset (`routes/auth/password.rs`) | `password_reset_sessions` | issue, use | look up, use and delete are separate |
| API keys and limits (`middleware/api_key_auth.rs`, `middleware/rate_limit.rs`, `routes/api_keys.rs`) | `api_keys`, window per address | count a request, reset, create, delete | counted by read, compare, write |
| Projects (`routes/projects.rs`) | `projects`, `project_files`, directories | create, upload, replace, delete | limits checked before the write; rows and files written separately |
| Google sign-in (`routes/oauth_google.rs`) | `users`, signed cookies | link, sign up | check then write |
| Status page (`routes/status.rs`) | incidents and components | open, update, resolve | several statements, no transaction |
| Database schema (`db.rs`) | all tables | create, migrate, seed | steps that must be repeatable |
| Player data (`console/inventory.rs`, `console/multiverse.rs`, `console/snbt.rs`, `console/players.rs`) | the server's player files, the plugin's files, replies of the running server | view live, saved or of a world; edit a saved file | replies of different moments; files replaced and half written; layouts of several ages, two of them in one file |
| Item textures (`console/textures.rs`, `console/models.rs`, `console/mod_assets.rs`) | file cache with misses, a lock per name, jars, mirrors | get a picture | what failed must not be remembered as missing; two fetches of one file |
| Skins, games, wiki, player count, panels, configuration | files, constants | serve | single reads and writes; no history |

They meet in few places: deleting an account cascades into polls and projects; the
RCON mutex is shared by the console, presence and the save before a power action;
log lines flow from the tailer through the hub to the viewers and to presence; every
console action opens an audit row first; several routes write to the same spool; an
edit of a player's file asks the presence set whether the player is away; an operator's
action drops the caches of presence and health.

What makes each correct, in a sentence:

- *Polls*: stored ballots are always whole, legal and entitled; an ending is final;
  an extension counts once; every handler is equivalent to one atomic step.
- *Power control*: no console command without a record, no console stop without a
  save tried first, no command run twice, no outcome reported that did not happen.
- *Console log*: each viewer sees each line once and in order, or is told of a gap.
- *Presence*: after a resync the set agrees with the server, up to lines in flight.
- *RCON*: a reply belongs to the command it is given for.
- *Moderation*: a ban that has not expired and was not lifted stays in force.
- *Accounts, reset, keys, projects, status*: limits hold up to the requests that race,
  a used token is dead, and rows and files agree after each failure.
- *Schema*: a start that dies anywhere leaves what the next start can finish.
- *Player data*: what is shown was so at a moment the view names, whatever the layout;
  an edit loses no save of the game and never leaves half a file.
- *Item textures*: the picture shown is the item's, and it is found in the end.
- *Health*: figures were true within their allowed age; callers wait on one probe.

`PROJECT.json` lists the hazards line by line, with the properties that are about each;
those the code is known to be open to carry a note instead.

## Modules

| Module | What it is |
| --- | --- |
| `PollRules` | the pure decisions of polls: when a poll is live, who is in its audience, which choices and extensions are accepted, percentages |
| `Polls` | the handlers of `routes/polls.rs`, one action per statement |
| `PollBoard` | what the poll endpoints promise: a request that found its poll live takes one atomic step, or none |
| `PollsProof` | theorems about `Polls`, the refinement of `PollBoard` among them |
| `PollPages` | the lists and answers about polls, statement by statement, while polls change |
| `Power` | power actions through the API, the spool and the sidecar |
| `PowerProof` | theorems about `Power` |
| `LogHub` | the hub of `console/mod.rs` and the streams that hang on it |
| `ConsoleLog` | the tailer of `console/tail.rs` and the log file, composed with `LogHub` (EXTENDS) |
| `ConsoleLogProof` | theorems about `LogHub`, about `ConsoleLog` and about lines of bytes |
| `ConsoleFeed` | the commands of operators, their records, and the one stream that shows them with the log |
| `ConsoleFeedProof` | theorems about `ConsoleFeed` |
| `Rcon` | the client of `rcon.rs` and the server at the other end of its connection |
| `RconProof` | theorems about `Rcon` |
| `Accounts` | accounts, bans, reset tokens, Google links, the roster file, the auto-unban task |
| `AccountsProof` | theorems about `Accounts` |
| `Projects` | the rows and directories of a user's projects |
| `ApiKeys` | API keys, their hourly count, and the window of an address |
| `Site` | the start of the service on any old database; the status page's writers |
| `WebProof` | theorems about `Projects`, `ApiKeys`, `Site` and `PollPages` |
| `Presence` | who is online, kept from the log and reconciled with `list` |
| `PlayerFile` | the saved file of a player and its edit, composed with `Presence` (EXTENDS) |
| `PlayerFileProof` | theorems about `PlayerFile` |
| `Textures` | the cache of item pictures and how a picture is found |
| `ItemData` | how a player's data becomes cells and vitals |
| `StoredItems` | how the plugin's JSON becomes the same (EXTENDS `ItemData`) |
| `ItemFormats` | how server and plugin write a player (EXTENDS `StoredItems`) |
| `Viewer` | a view of what a player carries, live, saved or of a world (EXTENDS `ItemFormats`) |
| `Roster` | the list of everybody who ever played |
| `Readings` | what is read out of replies about tick rate and heap, and of the sidecar's line |
| `Health` | the cached health probe, the sidecar's files, an operator's action (EXTENDS `Readings`) |

`MCPolls`, `MCPower`, `MCConsoleLog`, `MCAccounts`, `MCPlayerFile`, `MCTextures`, `MCViewer`
and `MCHealth` give values for TLC. `MCBoard` is `Polls` with the actors of one of two scenes,
which `part` names, while the others stand still. Four modules compose parts that share nothing:
`MCConsole` (`ConsoleLog` and `Rcon`), `MCLive` (`Polls` and `Textures`), `MCWeb` (`Projects`, `ApiKeys`, `Site`, `PollPages`)
and `MCViews` (`Viewer`, `Roster`, `Health`, `ConsoleFeed`). In each of them a behaviour belongs to one
part, chosen at the start and named by `part`, and the others stand still, so that the
states add up and do not multiply; nothing would be gained by interleaving parts without
common state. `MCWeb` and `MCConsole` EXTEND their parts, and `MCViews` `ConsoleFeed`, so
that the runs check the very properties the theorems state (for which the names of `ApiKeys`,
`Site`, `PollPages` and `Rcon` begin with `Key`, `Site`, `Pages` and `Rcon` where they would share
one); the other parts of `MCViews` keep their variables in `v1`, `v2`, ...

An operator named `Name_Variant`, or marked "Mutant" in its comment, is a deliberately
wrong version of the definition it stands before: a mistake someone could make in that code (a lock not taken, a guard
dropped, a file not removed). The specifications never use them. Putting one in its
place must break a property, which shows that the property depends on
that piece of the code; `PROJECT.json` names the pairs under `mutants`.

### Polls

Variables are the tables (`accounts` and `flags` for `users`, `polls` with the
audience and exclusion rows of each poll, `ballots` for `poll_votes`), the clock
`now`, and the requests in flight (`vote` for `cast_vote`, `admin` for the other
three). A request is a program counter and the locals the handler will still read.

`cast_vote` is seven steps: the viewer's flags, the poll row, eligibility, the check
against the clock, DELETE, INSERT, COMMIT. Its transaction becomes visible at COMMIT.
The locks are those InnoDB takes: DELETE locks the rows it finds and leaves a gap
lock on the ballot's key range, INSERT waits for other transactions' gap locks,
foreign keys share-lock the parent rows. Two transactions that both hold the gap lock
wait for each other and InnoDB rolls one back (`VoteDeadlock`). Any request may also
be dropped at any await (`VoteDropped`, `AdminDropped`).

`end_poll` and `extend_poll` read the row, check it, and write with a condition in
the UPDATE; `create_poll` resolves its exclusions before its transaction. Account
deletion waits for the locks on the account's ballots and cascades.

What abstracts what: titles, labels and descriptions are left out; an option is a
model value that belongs to one poll; time is a small number of ticks. `MaxOptions` is the
code's ten.

`PollBoard` is the promise. A request claims its answer, its ending or its extension at a
moment at which its poll is live, an extension from the closing time of that moment; later it
takes one atomic step on the tables, or gives the claim up. The mapping in `Polls` says of each
program counter whether there is a claim (`AnswerClaimed`, `EndClaimed`, `ExtensionClaimed`):
from the read of a live row, as long as that row would still pass its check. So no handler
writes to a poll that it did not find live, and an ending is final. What `PollBoard` does not
say, because the code does not keep it, is that the poll is live at the write too: that is
`ClosedTakesNoVotes` and `OnlyLiveExtended`, with a run each that violates it.

`PollPages` has the reading side. The time that `list_polls_admin` binds to both its statements is
`answer.asof`; every other statement that asks for the time reads the clock. A request (`pages` for the admins' list, `mine` for an
account's, `get`, `access`) is again a program counter and what it has read: count, page,
tally, voters, exclusions, own answers. What other requests do to polls, ballots and
accounts is one step each here, the moment it commits. `answer.scenes` records every state
the request lived through, so that a property can ask whether what it shows was ever so.

### Power

A job is a request to start, stop or restart the server. The console's handler writes
the audit row, opens the job and spawns a task that saves, writes the command file
and settles the audit row. `/api/v1/restart`, `/api/v1/startserver` and `/startserver`
only write a command file (`Direct`). The sidecar takes a file, removes it, calls
docker and writes a verdict, which `power_result` reads. Either process can restart
at any step; the API then forgets its jobs, and the sidecar the job in its hands.
Verdicts expire, and a tracked job can be dropped once it is past its retention.

`saves`, `runs` and `verdict` record what happened at the game server and at docker,
so that what the API shows can be compared with it. The text of errors and outputs is
left out, and the `.tmp` files are too, because only the rename makes a file visible.

### Console log

`LogHub` has the backlog, the channel and the viewers. The channel is the sequence of
everything sent, and a receiver is an index into it; tokio keeps the last `Channel`
lines, so a receiver further behind is told how many it lost and skips them. `push` is
two steps under the write lock (backlog, then channel) and `subscribe` two under the
read lock (receiver, then backlog), so that the model would show what happens without
the lock. `screen` is what a stream has delivered, the backlog first, `Gap` for a line
announced as lost.

`ConsoleLog` has the file and the tailer. A file is an identity (device and inode), a
generation and a length; another file at the path may get the old identity, which is
also how a truncation looks. A tick of `tail_log` is a look at the metadata (`Stat`,
with one disjunct per arm of its match: first attach, rotated, truncated, growing) and
a read (`Read`) of whatever is at the path by then; in between the file may grow, be
replaced or disappear. Lines are pushed one by one. A byte is its generation and
position, and every `LineSize`-th one ends a line, so that a line put together from two
places differs from every line that was written. `base` is history: where the tailer
last started afresh.

`ConsoleFeed` has both hubs, the log's and that of the announcements, with the sequence
number they share, and takes a push and a subscription as one step each, which `LogHub`
shows they are. A command is recorded (or refused), run (or lost on the way there or
back), settled in its row (or not) and announced; a viewer subscribes to one hub, then to
the other, gets both backlogs merged by number, and from then on one channel or the
other, as `select!` happens to choose. `told` names the hubs of which it was sent a notice
of lost lines: of any other it has, or has waiting, all but what was too old for the backlog.

### RCON

`Rcon` has callers (`execute_within`, one command each), the mutex, and the connection
as what is on it: requests the server has not run (`requests`), pieces of replies on their
way (`wire`) and arrived (`inbox`). A packet is two pieces, its length and its payload,
because every await can be the last: a read may time out or the caller be dropped
between the two. When a connection is given up, the requests on it become `adrift`: the
server may run them all the same. Request ids count from 1, by `asked`, which also says
who made them.

A read that starts in the middle of a packet (`Misread`) finds a length that is out of
range or takes whatever follows for a packet; how much it swallows is left open. It is
taken to find no id in use there: right after a forgotten length it would read the type
of a packet, and later the middle of a text. Sizes are left out except for what the
code asks of them, whether a first packet is long enough to be followed by another.

### Accounts

`Accounts` has the `users` table (`id`, name, address, Google subject), `bans` for
`user_moderation` (one row or more per account, temporary, poisoned or expired), the
banned devices, the reset tokens, and `authedPlayers.json` with its lock. A handler is one
definition, each of its disjuncts one statement. A load says which handlers a behaviour
uses: sign-ups by password and by Google; resets; bans, unbans and status checks beside
the auto-unban task of `main.rs`.

### Projects, API keys, site

`Projects` has rows in `projects` and `project_files`, directories with their
`metadata.json`, and what is on the disk; `stored` and `lost` are history. A handler may
be dropped between any two steps, which is how rows and files come apart. `ApiKeys` has
the keys with their hourly count, the key an account is linked to, and the window of one
address, whose clock is the process's. A row keeps the limit it was made with: `FreeLimit` in `get_key`,
any integer an admin sends in `create_api_key`, zero and negative ones included. `Site` has the columns and indexes that
`init_database` looks at and alters one by one, started over after a crash, then the
status page's components, incidents and history.

### Presence and player files

`Presence` has the true set of players, the log lines on their way through the hub's
channel, the set the panel keeps, the time of the last reconcile and attempt, and the
cached answer to `list` with its lock. `PlayerFile` adds the owner's files (`dat`,
`dat_old`, the backup, the temporary file), what the game server holds in memory, and the
steps of `apply_offline_vital`: presence, audit, read, back up, write beside, check the
time stamp, rename, settle. The game's own save is two renames with a gap between them.

### Item textures

`Textures` has the cache (hits and misses with their age), the map of names in flight
with a lock each, and for every request where it is: cache, lock, cache again, model
files one after the other up to `MAX_MODEL_DEPTH`, the candidates in the jars and at the
mirror, then the write. A name is a sequence of words, so that plurals, shapes and
prefixes are what they are in the code. `world` says what there is to be found, and `art`
which picture is the item's own.

### What a player carries

`ItemData` translates `inventory.rs`: the fields of a stack in each layout, the
cells by slot number or by equipment, containers, vitals, and the merge of vitals from a
save into a live view. `StoredItems` translates `multiverse.rs`: profiles and their order,
materials resolved against the mods' namespaces, old enchantment names, JSON that holds
JSON. `ItemFormats` is the other direction, external: how a server of each age and the
plugin in each style write a player. `Viewer` has the player at every moment so far
(`past`), the files, each a moment and a layout, and a request that asks the running
server one path at a time or looks for the newest whole file. A view is right when a
moment explains it, so the parsers are checked against what was written, not against
themselves.

### Roster, health

`Roster` builds the rows of `load_roster` from the names that are on, the directory and
four files, read one after the other while the server joins, renames, flags and expires
players; a file caught in the middle of a write reads as empty. `server.properties` comes first:
caught half written, it may name no world, and then nobody's saved file is found. `Readings` parses what
eight kinds of servers answer to `tps` and its relatives and what the sidecar publishes
in docker's units, binary or decimal. `Health` has the cached probe with its lock, the sidecar's files with
their age, and an operator's action that drops the cache; `asked` and `settled` are
history.

## What is checked

| Run | Bounds | Shows |
| --- | --- | --- |
| `board` | votes: 2 voters, 1 poll, 2 concurrent votes, 1 admin, no tick; requests for an unknown poll and option too; admins: 1 voter, 1 poll, 2 admins, 2 ticks | stored ballots are single where they must be, belong to entitled existing accounts and to the poll's own options, and change only as a whole; extensions count once; and `Polls` implements `PollBoard` |
| `live` | 2 requests of one voter, 1 poll, 1 admin, no tick; or 2 requests for pictures in 7 worlds, up to 2 failures of a mirror and 1 cut write | every vote request ends, deadlocks included; the picture shown is the item's own, and one that exists is shown in the end whatever was recorded as missing |
| `power` | 2 jobs, start and restart | commands of the console are attributed, saved first or the failure admitted, run at most once, reported as they went; an awaited job settles unless its verdict is lost |
| `console` | log: 1 viewer; 2 files of up to 4 bytes, 2 identities, lines of 2 bytes, reads of 3; backlog 2, channel 1; 1 failing read; commands: 2 calls, 1 packet skipped | what reaches the hub is the file, line by line; what reaches the viewer is the hub, gaps announced; finished lines arrive and viewers catch up; replies of RCON reach their own caller; what a call leaves behind may cost the next one an attempt, not the command; every call ends |
| `accounts` | 2 requests at a time, 2 accounts, 1 token, 2 Google subjects, 1 device, 2 rows of bans, and 1 failing statement in a load of its own | a token whose use was answered is dead; a poison ban goes only by an unban or with its account; the roster file is rewritten one entry at a time; expired bans go |
| `player_file` | 2 requests, 2 players, lines lost, poor answers, 2 saves, up to 2 edits | an edit never leaves half a file, replaces only what it read, is recorded before it is made; the online set catches up when the server goes quiet |
| `web` | projects: 2 requests, limits 1 and 2 bytes; keys: 3 requests, hourly limits -1, 0, 1 and 2, 4 ticks; start: 6 old tables, 2 crashes; status page: 2 requests; pages: 3 polls of 6 sorts, 2 readers, 1 change | limits are missed by no more than the requests that raced; a listed file is stored; the service comes up with the schema it needs; nothing ends unannounced; answers about polls are exact when nothing changes and true in each figure when something does |
| `views` | what a player carries: 4 cells, 2 to 3 moments, 1 crash, 3 layouts, 3 styles; roster: 2 players, 3 names, 3 events; health: 8 kinds of servers, sizes from kilobytes to gigabytes, 3 ticks, 1 change, 2 requests or an operator; console: 2 operators, 1 viewer, backlogs of 2 and 1, channels of 1, 2 lines of log, 1 failure or restart | a live view shows what the player had while asked; a saved one is one whole save, no older than it says; the roster tells everyone's presence and flags as they were; health figures were true within their age, few commands go out, and an action shows; a console shows no line twice and all that was there when it connected in its order, and misses none without a notice, and what the server ran for an operator is on record and announced once, as it went |
| `polls_closed` | 1 voter, 1 poll, 1 admin, 2 ticks | **violated**: a vote is stored after its poll closed |
| `polls_extended` | as `polls_closed` | **violated**: a poll that ran out is extended, and is open again |
| `console_retry` | no viewer, otherwise as `console` | **violated**: a failed read after a truncation makes the tailer skip the beginning of the file |
| `ban_applied` | bans only, otherwise as `accounts` | **violated**: a ban that updates a row which is deleted meanwhile is answered as applied and recorded nowhere |

The bounds are small but let the interesting cases happen. The hazards of a ballot
need two transactions on the same ballot and one actor that deletes the account or
changes the poll; a third request adds no new pair of lock holders. Those of an
ending or an extension need two admins, each between its read and its write, and a
clock that passes one closing time. Those of a power action need one job going through
both processes while another opens (which purges the table) or waits in the queue.
Stop and restart are treated alike by the code up to the argument given to docker, so
`power` uses one of them. The console log needs reads that end within a line (reads of 3,
lines of 2), a backlog that evicts, a channel that a viewer can lag behind, and two
files, one after the other, at one path; viewers do not touch each other except through
the lock, so one is enough. A leftover on the RCON
connection needs one call to leave it and one to meet it, and two packets of a dropped
call already exceed one skip. When every call has ended, `MCConsole` lets all stand still
(`Answered`), so deadlock is checked there. `MaxFile`, `MaxGen` and `MaxFaults` are bounds of the model.
Two requests at a time are enough
for the races of `accounts` and `web`, which are all between one read and one write of
another; three are used where a limit of two must be passed by one. A saved view needs
a save, a crash in the next one and a return of the player to tell the two files apart.
The interchangeable values are symmetric where only safety is checked. Bounds that the
code does not have, `Horizon`, the sets of choices, durations, extensions and audiences,
`MaxTime`, `MaxCrashes`, `MaxEvents`, `MaxChanges` and the loads' numbers, are constants
of their modules. Deadlock is not checked in runs whose loads come to an end.

### Divergences from what the repository says

Four have a run. A vote is checked against a row and a clock read before its transaction, and
neither statement repeats the condition (`polls_closed`): `src/src/tests/api.rs:890` says "a closed
poll must not accept a vote". `extend_poll` compares the closing time with the time of its check,
not of its write (`polls_extended`); the comment above the UPDATE says the poll cannot have run out
in between. After "log truncated", `tail_log` keeps its new start only in a local; if
the read fails the cursor still holds the old offset, and if the file outgrows it before
the next tick, the beginning is skipped (`console_retry`; the comment at
`src/src/src/console/tail.rs:100` says the next tick retries the same offset). And
`admin_moderate` does not look at how many rows its UPDATE changed (`ban_applied`).

The others were met while modelling and follow from the modules, but no run shows them:

- The options of a poll and its voters are counted in two statements, so the bars of a
  single-answer poll may not sum to 100, as `polls.rs` says they do.
- `run_power_action` sets a job to queued after the verdict may have arrived.
  `Phase::is_final` is documented as "whether there is anything left to wait for".
- The audit row of a power action is settled when the command is queued; a docker
  failure never reaches it. `console/audit.rs` says the entry is a settled fact that
  "shows the failure when there is one".
- `src/docker-compose.yml:171` says the API forces a save before queueing a stop or a
  restart; the route in `routes/api.rs` does not.
- A mirror that fails for the model file and answers the guesses leaves a record that a
  picture is missing, for as long as such records last. `console/textures.rs` says an
  unreachable mirror "must never be recorded as" a miss.
- The comments at `console/stats.rs:494` and `516` speak of one command for callers that come
  together. A probe sends up to two, as a test there says too, and that is what `CommandsAreFew`
  counts.
- A live view whose ender chest was not answered shows it empty;
  `routes/console.rs` calls the live view exact.
- `routes/console.rs:56` says a reconnecting client sees the interleaving a viewer who
  never left would have seen. The two subscriptions are not one step and `select!` picks
  a ready channel at random, so a line pushed after the first subscription may be shown
  on the wrong side of one from the other hub; `OldLinesFirst` allows exactly that.
- When `usercache.json` is read in the middle of a write, an online player is a row
  without a uuid and the edit of their file is not refused, as a comment in
  `offline_vitals` says it is. `PlayerFile` shows what still protects the file.
- The status file has no age limit, so a sidecar that died leaves "stopped" behind;
  `ServerState::Unknown` is documented as keeping the two apart.

## Fairness

`live` assumes strong fairness of the steps of each vote request. A handler that can
run is run by the executor, and InnoDB grants a lock to waiters in turn, so a request
that can repeatedly get its lock gets it in the end. Nothing is assumed of new
requests, of drops, or of the clock.

`power` assumes weak fairness of the tasks of the API and of the console page, which
asks again until a job is final; that the sidecar is restarted when it stops
(`restart: unless-stopped`); and strong fairness of the sidecar's loop, which says
that it is not stopped again every time before it looks at the queue. Restarts
themselves are not limited, and a verdict lost to one is an allowed outcome.

`console` assumes strong fairness of the tailer, whose loop never ends and whose
timer never stops, because a push waits for the write lock while viewers come and go:
the lock is released between them and lets waiting writers in. A stream that is open is
polled as long as its client reads, which is weak fairness of its receiver. The writer
of the file owes nothing.

For RCON, `console` assumes that a call that can take a step takes one (each of its awaits has a
timeout) and that the mutex, which tokio hands over in the order of asking, is not
withheld for ever. Nothing is assumed of the server.

## What is proved

The modules `...Proof` prove the following for all values of the constants that satisfy the
assumptions `RulesAssumption`, `PollsAssumption`, `PowerAssumption`, `HubAssumption`,
`TailAssumption`, `RconAssumption`, `AccountsAssumption`, `TimesAssumption`,
`LoadsAssumption`, `FilesAssumption`, `ProjectsAssumption`, `ApiKeysAssumption`,
`SiteAssumption` and `FeedAssumption`, and so for any number of
users, polls, requests, jobs, lines, viewers, bytes, calls, accounts, players, projects and
files, any budget of failures, and any length of time. The assumptions say that sizes are
positive, budgets are numbers and markers of absence are not values, `TailAssumption` that
a line fits in what a first attach reads, and `ProjectsAssumption` and `ApiKeysAssumption` that
the requests at one time are finitely many. `SiteAssumption` is about the lists in `db.rs`:
each index and component stands in them once, no two fixes make the same column, no old name is
a current one, every column that CREATE TABLE leaves out is added later, and a table that is
found has each column under its old name or its new one, and those that are never added, like
`is_projallowed`, at all. `ApiKeysAssumption` says nothing of the limits but that they are integers. TLC evaluates each in the runs.

| Theorem | Property |
| --- | --- |
| `TypeCorrect`, `PowerTypeCorrect`, `HubTypeCorrect`, `RconTypeCorrect`, `AccountsTypeCorrect`, `PlayerFileTypeCorrect`, `FeedTyped` | the type invariants |
| `SingleAnswerHolds` | `SingleAnswer` |
| `OnlyEntitledHolds` | `OnlyEntitledBallots` |
| `OneWriterHolds` | `OneWriterPerBallot`: transactions on one ballot take turns |
| `BallotsReplacedWholeHolds` | `BallotsReplacedWhole` |
| `ExtensionsCountOnceHolds` | `ExtensionsCountOnce` |
| `HandlersAreAtomic` | `BoardSpec`: `Polls` implements `PollBoard` |
| `AttributedHolds` | `Attributed` |
| `SavedOrAdmittedHolds` | `SavedOrAdmitted` |
| `RunsAtMostOnceHolds` | `RunsAtMostOnce` |
| `HonestPhaseHolds` | `HonestPhase` |
| `StreamIsLogHolds` | `StreamIsLog` |
| `TailIsFileHolds` | `TailIsFile` |
| `TailPushes` | `HubSpec`: `ConsoleLog` implements `LogHub` |
| `TailStreamIsLog` | `StreamIsLog` of a hub fed by the tailer |
| `ExclusiveHolds` | one call at a time works on the RCON connection |
| `LeftoversHarmlessHolds` | `LeftoversHarmless` |
| `NothingLeftHolds` | `NothingLeftByFailure` |
| `OwnReplyHolds` | `OwnReply` |
| `SpentTokenDeadHolds` | `SpentTokenDead` |
| `PoisonStaysHolds` | `PoisonStays` |
| `RosterWritesOneEntryHolds` | `RosterWritesOneEntry` |
| `EditsRecordedHolds` | `EditsRecorded` |
| `ReplacesWhatItReadHolds` | `ReplacesWhatItRead` |
| `NoHalfFileHolds` | `NoHalfFile` |
| `ListedIsStoredHolds` | `ListedIsStored` |
| `FeedIsTrueHolds` | `FeedIsTrue` |
| `LimitsNearHolds` | `LimitsNear` |
| `StartsServeHolds` | `StartsServe` |
| `EndedWasAnnouncedHolds` | `EndedWasAnnounced` |
| `KeysNearLimitHolds` | `KeysNearLimit` |
| `AnswersAreTrueHolds` | `AnswersAreTrue` |

None of these is inductive alone. The proofs have one lemma per action, or per group of
actions that disturb the same conjuncts, and TLC checked each invariant before it was proved.

In `Polls`, a committed ballot is only as good as
what its transaction knew, so the invariant says of each program counter what the
request has established: past eligibility the voter is not excluded from that poll, or
the account is gone (an exclusion is never added to an open poll); past the check the
choice is a legal one and the poll's kind is what was checked; while the rows are
locked, the answer stored is the one that was deleted. The locks enter as
`OneWriterPerBallot`: without it the rows a transaction deleted need not be those
present when it commits, and a second answer would survive. From the same invariant a
COMMIT writes the transaction's whole choice (`VoteReady`), which is
`BallotsReplacedWhole` and the `Answer` of `PollBoard`. For the admins the invariant is
widened by what a draft and a row read earlier still mean (`Draft`, `HandlerInv`): a draft
is a poll `PollBoard` would open, a closing time that was seen and is still there was
extended by no one else. That gives `ExtensionsCountOnce` and the rest of the refinement:
each write is one action of `PollBoard` for a claim that is there, and every other step makes or
gives up claims or is a stutter.

In `Power` the invariant follows a job along its path. Before its request a job is in
no queue and has not run (`UnsentFirst`); a command is in one place at a time and gone
once it has run (`Places`); a verdict is what docker said (`Places`, `PhaseKnown`);
and past the save the task knows how it ended (`SaveKnown`).

In `LogHub`, what a new viewer copies must end where its receiver begins. So the
invariant says that the backlog is the end of everything pushed, the line on its way
included (`BacklogIsTail`), and that nothing is on its way while a viewer holds the read
lock (`Handover`). The theorem is about `HubSpec`, the hub under any pushes.

In `ConsoleLog` what was read since the start is a stretch of consecutive bytes that begins
after a line end (or, past a cold start, after the first one). The line ends of such a
stretch are the multiples of the line length in it, so its lines and its rest are known in
closed form, and cutting it at any byte, carrying the rest over and cutting again gives the
same lines (`SplitLines`, `ContentGrows`): the point of `LineSplitter`. The invariant
`TailInv` is `TailIsFile` with what keeps the stretch consecutive: before the first
successful read the cursor cannot stand where the tailer has to start (`Unbegun`), and
after it the cursor is where the next read begins, behind at least one line end
(`Begun`), so a read that fails or comes back empty leaves no hole. Lines that mix two
files, which a replacement between the look and the read may produce, are typed as any
bytes at all (`LinesType`), so the tailer pushes texts whatever happens, and each of its
steps is a step of the hub or a stutter (`StepIsHubStep`). `TailPushes` and
`TailStreamIsLog` assume that `Text` holds every such line, as it does in the run.

In `ConsoleFeed` the parts of the invariant are operators of the set of all lines pushed. A
backlog holds the newest lines of its hub, and all of them until it is full (`Kept`). What
a console has shown of a hub comes before what waits for it, and what waits is no older than
its first subscription (`Connected`); that bounds how far a line of one hub may be overtaken by
the other's, which is all `OldLinesFirst` grants. Unless it was told of a loss, a console has of each hub what the backlog
had and everything since (`Complete`): half-way between its subscriptions of the log only
(`HalfWay`), then of both (`Whole`). Every step is then a lemma about one console, or about
one line more (`HearKeeps`). The first frame is put in order by counting the lines before each
(`RankExists`, `MergedSorts`), by a least counterexample. For the commands, a row belongs to one running command and nothing was
announced of it (`RowsOwned`), and a command that is past the server knows an outcome its
row does not contradict (`OutcomesTrue`); without the first an announcement might be a second one.

In `Rcon` everything rests on the mutex (`Exclusive`). A second attempt is made on a
connection the call opened itself, because the first one dropped the old one
(`OwnRetry`), and what is on the connection was asked by the latest attempt of a call
that has sent it and has not failed (`OnlyCurrent`), because a failure empties it.
`OwnReply` needs the contents of the queue as well, the wire behind the inbox
(`QueueInv`): its pieces are in the order in which the server wrote them (`Ordered`), the
length of a packet is followed by its payload (`Paired`), and requests not yet run have
higher ids than any reply. A call that reads has its reply's first packet on the queue if it
has the second (`Reading`), what a call has kept is a stretch of its reply (`Reply`), and
what is still to come follows it (`Draining`). A read that starts in the middle of a packet
may swallow the first part of a reply, so these say it of calls that were not torn, and
`OwnReply` allows a torn one to miss the beginning and nothing else.

In `Accounts` a token whose use was answered is in the table no more and is never drawn
again (`SpentGone`), so no look-up finds it; who rewrites the roster has its lock and a copy
of what is there (`LockHeld`), so what is written differs in one entry; and a request that
deletes an account cleans up its bans a second time when the account is gone
(`DeletedGone`), so a poison ban it removes then is no one's.

In `PlayerFile` an edit under way has its audit row and every file, the game's memory
included, holds only recorded edits (`RowsFirst`). `ReplacesWhatItRead` rests on `Window`:
as long as nothing touched the file after it was read, the request holds what is there, and
past the backup so does the backup. `NoHalfFile` has a premise, edits one at a time, and
under it the only file that may be half is the temporary one, which has one writer
(`OneAtATime`).

In `Projects` no two rows, and no row and no request, ever mean the same stored file. The
invariant says that every name in use was drawn (`NamesDrawn`), that a name is one row's or
one request's that has not made it a row's yet (`OneRow`, `OneHolder`), and that a path read
off a row earlier is that row's or nobody's any more (`RowRead`), so a request that removes
the file it read about harms no other row. A replacement stays in the directory of what it
replaces (`Beside`): a deletion that takes the directory between the two steps takes both
files, and the row was lost already. What was stored has the size of its upload
(`StoredWhole`), whoever stored it. The limit on projects needs its own count (`Room`): the
projects there are and the creations let in are together at most what the limit and the
racing requests allow, because each creation saw fewer projects than the limit.

The quota of `Projects` is about a sum, which the model counts byte by byte (`Bytes`), since a
prover can count a set and cannot unfold a fold over one. The invariant says that the bytes rows
may come to have, whatever lands first of what has passed the check (`RowBytes`), and those of
uploads without a row (`NewBytes`) are at most the quota and one largest file for each request but
one (`WillFit`). What lands only moves bytes from one set to the other, so it is a check that
matters. One against the rows as they are adds at most the quota, and the others at most their
share (`UploadFits`, `ReplacementFits`). A replacement may have read a row that has shrunk since and
passes with up to a file too much; that is the share of a request that has nothing on the way
(`StaleFits`). If every request has, one of them was checked against rows that have not changed
since, the last one to begin (`LastIsFresh`), and the sum is counted from that one instead
(`ReplacementPasses`). Without `LastIsFresh` the argument would give one file more than the bound.

In `Site` a start decides by one look, and what makes that safe is that nothing it still has to
decide has moved since: of the fixes still to come it has a true picture, those behind it are
done (`Fixing`), and the same of the indexes (`Indexing`) and of components not yet seeded
(`Seeding`). What is on the disk always fits (`Fit`): a column stands under one of its names, so a
start that dies anywhere leaves a table the next one understands. On the status page the
invariant says of each step of `add_update` and `create_incident` what has been written when it
is reached (`Announced`, `UpdateTrue`): the end is set only by a request that has written the
history entry, and entries are never taken back.

In `ApiKeys` the hourly limit is a potential. Let R be the number of requests; of a key, n of them
are about to count and r about to begin the hour. The admitted, the n, what may still find the
count below the limit (`Left`), and what r more beginnings may let in, one after the other
(`Begun`), never exceed what R beginnings may let in (`Bounded`, in twice the numbers, so that
nothing is divided): a step that admits a request uses up as much as it adds, a beginning pays
with its share of `Begun`, and a request that starts was already counted in `Left`. That
gives the bound R times the limit and R(R - 1)/2 more. A limit below one counts as one (`Cap`):
the first request of an hour is let in before anything is compared, whatever the limit. For the window of an address the invariant
is an alternative (`InWindow`): what passed in a window is still in the entry, which never holds
more than the limit; or the window is over, and what passed and the checks under way with a time
in it make at most the limit and R - 1. The first becomes the second when a check drops an entry
of that window: its own time is past the window then, so at most R - 1 others are in it
(`StaysOrPast`, `WindowEntry`).

In `PollPages` the invariant (`PagesInv`) says two things of a request at each statement. Whatever it
holds so far was so at one of the moments it has lived through, and the present is one of them
(`Saw`, `Moments`); a change only adds moments, so that survives any change. And while all those moments are one
(`Still`), what it holds is exactly what the tables give now (`Exact`): the count, the rows of the
page, the list and the number hidden. That a row has the place its rank says needs
the two orders to be total on the polls they are used for (`HalvesAreOrdered`: the open half by
closing time with the polls that have none last, the past half by the moment each stopped, which all
of them have); then the ranks are exactly 1 to n, so an ordered list exists (`InOrder` is a CHOOSE),
and in it the number of a row is its rank (`ListInOrder`). A page of the admins' list is exact for the
time bound to its count (`ExactTime`). Pages and percentages are
then two facts about quotients (`Division`, `OneQuotient`). The theorem assumes that a run begins
with typed tables (`PagesAssumption`), whatever polls, ballots, flags and page size they are.

Only model-checked:

- the liveness properties `VotesAnswered`, `PictureArrives`, `JobsSettle`, `LinesArrive`,
  `CallsEnd`, `ExpiredBansGo` and `OnlineCatchesUp`, which are out of the prover's reach;
- `RightPicture`, which compares with the picture that each example world names by hand: what a
  model resolves to in any world would be a recursive definition;
- the properties of the run `views` but `FeedIsTrue`. `Viewer`, `Roster` and `Health` rest on
  recursive parsers, so no theorem can be stated about them.

The type invariants `TypeOK` of `Projects`, `KeyTypeOK` of `ApiKeys` and `SiteTypeOK` of `Site`
state the shape of their variables for readers; no run lists them.

## Not modelled

Text and bytes: SNBT and NBT, the layout of archives, HTML, the sentences of the game
server's answers beyond the fields `Readings` looks at. The transport (HTTP, TLS, cookies,
signed states), Docker and the game server beyond their answers, the internals of InnoDB
beyond the locks and cascades named above, and the browser pages. They are sequential
conversions with unit tests beside them or code outside the repository.

- *Console log*: the cut of a line longer than `MAX_CARRY` (a line is assumed to fit in
  a first read, `TailAssumption`), the heartbeats in a stream, the stdout
  source (the same hub behind another reader), and metadata that fail for a file that is
  there. A replacement that looks like growth happens in the model but is outside
  `TailIsFile`, which speaks of one file at a time.
- *Accounts*: a game server's plugin that writes `authedPlayers.json` without taking its lock. The
  lock is advisory; `PlayerJoins` takes it to be honoured, and `RosterWritesOneEntry` rests on that.
  Signing in, refreshing and signing out, which only read the tables and
  issue cookies; the flags an admin sets (in `Polls`); the lists admins read.
- *Projects*: names and descriptions, listings, public addresses.
- *API keys*: the sweep of idle addresses, and what a key is then used for.
- *Presence*: the parser of the answer to `list`. Two edits of one file at once share
  the name of the temporary file and can leave half a file; `NoHalfFile` says so by its
  premise.
- *Roster*: a name that passes from one player to another, the limit on directory
  entries, letter case and the final sort.
- *Viewer*: size limits, the list of a player's worlds, pretty names.
- *Health*: a clock that goes backwards, the list of containers, a server that reports
  three windows under other names. Sizes are whole numbers of the unit docker prints, so a figure is
  true to that unit; terabytes are beyond the numbers TLC has.
- *Textures*: skins' heads, the listing of mod namespaces, the icon tool. A write cut
  short leaves part of a picture that is served from then on; nothing repairs it, and
  `RightPicture` and `PictureArrives` are about whole files.

## Plan

The modules of the first plan exist, and so do the proofs of polls, power, the console log and
its feed, RCON, accounts, player files, projects, API keys, the start of the service and the
answers about polls. What is left: a form of `RightPicture` of `Textures` that needs no example
worlds, so that it could be proved for any number of requests.
