# Verification of PSOSERVER

PSOSERVER is a server for the game *Phantasy Star Online*: it accepts Dreamcast,
PC, GameCube, Xbox and Blue Burst clients, keeps their characters, and lets them
meet in lobbies and play together in games of up to four. This directory holds
TLA+ models of its core, the TLC configurations that check them on small
instances, and proofs, checked by TLAPS, of what holds for every instance.

Paths below are relative to `src/`; `ship` stands for `舰船服务器`, `gate` for
`船闸服务器`, `auth` for `认证服务器`, `patch` for `补丁服务器`.

Reading order: `BlockLobby`, `Roster`, `GameItems`, `BlockLocks`, `GateLink`,
`CharacterData`, each of them by itself; then the proofs.

## 1. The system

| component | state it keeps | operations | talks to |
|---|---|---|---|
| block lobbies and games (`ship/lobby.c`) | `lobby_t`: slots, count, leader, flags, packet queue, items on the floor; the block's list of lobbies | create, destroy, add, remove, change, elect a leader, start and end a burst, set up a quest | block handlers call it; it calls the subcommand handlers for queued packets |
| block connections (`ship/block.c`, `ship/block_bb.c`) | the list of `ship_client_t` of the block, `num_clients` | one thread per block: receive, handle one packet, send, sweep the disconnected; menus, quests, trade, mail, guild | lobbies, subcommands, other blocks (mail, guild search), the shipgate link |
| ship clients (`ship/clients.c`) | `ship_client_t`: version, flags, `cur_lobby`, `client_id`, `create_lobby`, character, inventory, bank, buffers | create, destroy (saves a BB character), give experience | block |
| game subcommands (`ship/sub_60.c`, `sub_62.c`, `sub_6D.c`, ...) | the inventory and bank of the sender, the floor and enemies of the game | a few hundred packet types; most are relayed, some change items, meseta or enemies | lobbies, items |
| items, shops and drops (`ship/handle_player_items.c`, `shop.c`, `item_*.c`, `mag_bb.c`, `libpsocn/pso_items.c`) | inventory, bank, the counters of item numbers of a game | add, remove, stack, number items; generate shops and drops | subcommands, trade |
| ship server and listener (`ship/ship.c`, `ship_server.c`) | blocks, listening sockets, client and game counters, shutdown time | accept, redirect to a block, count, shut down, restart | blocks, shipgate link |
| shipgate link of the ship (`ship/shipgate.c`) | one TLS connection, key state, send buffer | log in, reconnect every 15 s, forward mail and guild packets, request and save characters | gate |
| shipgate (`gate/ship.c`, `shipgate_server.c`) | the connected ships, database rows of who is online | login of ships, block login and logout, character data and backups, friends, bans, guilds, kicks | ships, database |
| login server (`auth/*.c`) | one `login_client_t` per connection, its phase | DC/PC/GC/Xbox logins, BB login and character phases, ship list | database |
| patch server (`patch/*.c`) | one client per connection, list of files to send | file list, checksums, sending | |
| DNS server | none | answers each datagram from a table | |
| quests (`ship/quests.c`, `quest_functions.c`) | the quest list read from XML, quest registers of a game | load, list, synchronise registers | lobbies |
| bans, lists, administration (`ship/bans.c`, `gm.c`, `commands*`) | ban list, GM list | ban, sweep, chat commands | lobbies, shipgate link |
| packets and text, database layer, configuration, encryption | | conversion and storage, no protocol of their own | |
| vendored libraries and tools | | not part of the server's logic | |

**What is hard.** A block is served by one thread, `block_thd`
(`ship/block.c:194`), which runs the handler of one packet to its end before it
looks at the next client, so handlers of one block do not interleave. The
difficulties lie elsewhere:

* *Orders of packets.* A client moves between lobbies, menus, games, bursts and
  quests by packets of its own, and may vanish between any two of them. Each
  structure refers to others by raw pointers (`cur_lobby`, `create_lobby`, the
  `src` of a queued packet) that a disconnection leaves behind.
* *Two records of one fact.* Membership is in the lobby's slots and in the
  client's `cur_lobby` and `client_id`; counts are kept beside what they count.
* *Waiting.* A burst (a client loading a game) closes the game, and the other
  members' packets wait for it; a quest starts when every member has loaded it.
* *Partial failures.* An item is taken from one place before it is known that
  the other has room.
* *Several threads.* Mail, guild search and the shipgate link go from one
  block's thread into another block's structures, with locks in between.
* *Other processes.* Ship and shipgate are restarted separately and must agree
  again about who is online.

**What makes the components correct.** Lobbies: slots and pointers agree; counts
are true; a game exists exactly while someone is in it or creating it; the leader
is a member; a burst has one client and ends; queued packets wait for a burst and
belong to members; nobody waits for somebody who has left. Items: an item is in
one place, is moved and not copied, and its number is its own. Threads: no client is
freed under a thread that may still touch it, and threads do not wait for each
other in a circle. Ship and gate: what the database says of a ship goes with the
ship, nobody is recorded as online who has left, the ships know of each other, and a
ship finds back after a fault. Characters: what a player left is what is stored, and
what it finds when it comes back; nothing that was not loaded is ever saved.

`PROJECT.json` lists the hazards at their lines, with the properties that cover
them, or why none does.

## 2. Modules

| module | what it is | code it stands for |
|---|---|---|
| `BlockLobby` | one block: lobbies, games, clients and every handler that moves a client, creates a game, starts or ends a burst or a quest | `lobby.c`, `block.c`, `block_bb.c`, `clients.c`, `/allowgc` of `commands_gm.h` |
| `Roster` | abstract: what the lobbies promise their players | |
| `BlockLobbyProofs` | proofs of `TypeOK`, `QueueOnlyWhileBursting` | |
| `BlockLobbySlots`, `BlockLobbyCounts` | proofs of `SlotsAgree`, `CountsAgree` | |
| `BlockLobbyRoster` | proof that `BlockLobby` implements `Roster` (`KeepsRoster`), and of `NoEmptyGame`, `BurstHasOneBurster`, `SuccessorIsLongest` | |
| `GameItems` | the items of one Blue Burst game: inventories, banks, the floor, meseta, item numbers | `handle_player_items.c`, `sub_60.c`, `sub_62.c`, trade in `block_bb.c` |
| `GameItemsProofs` | proofs of `TypeOK`, `Conserved`, `NothingFromNothing` | |
| `BlockLocks` | the mutexes and locks of the threads of a ship | `block.c`, `ship.c`, `shipgate.c`, `admin.c`, `bans.c`, `lobby.c` |
| `BlockLocksProofs` | proofs of `TypeOK`, `UsedIsThere`, `OnlyCrossings` | |
| `GateLink` | the links of the ships to the shipgate, and what the gate records of ships and players | `ship.c`, `shipgate.c`, `clients.c` of the ship; `ship.c`, `shipgate_server.c` of the gate |
| `GateLinkProofs` | proofs of `TypeOK`, `RowsBacked`, `NoGhosts`, `MenuReaches`, `FleetsAgree`, `CountHeardInOrder` | |
| `CharacterData` | loading and saving Blue Burst characters and the bank and options of their account | `clients.c`, `block_bb.c`, `shipgate.c` of the ship; `ship.c` of the gate; the database layer |
| `CharacterDataProofs` | proofs of `TypeOK`, `CharacterKept`, `LeftIsStored`, `FoundAsLeft` | |
| `MCBlockLobby`, `MCGameItems`, `MCBlockLocks`, `MCGateLink`, `MCCharacterData` | the instances for TLC | |

The models share no variables. Each takes from the others what its question needs:
`GameItems` lets players enter and leave when they like, because who may is
`BlockLobby`'s question; `CharacterData` lets items move between a character and its bank, because
how they do is `GameItems`'; `GateLink` and `CharacterData` both have the link
between ship and gate, one for who is there, the other for what they own.

### BlockLobby

`lobby` maps addresses to `lobby_t` records and `client` maps connections to
`ship_client_t` records; `numGames` and `numClients` are the block's counters and
`now` is `time(NULL)`. Games are named by their *address*: a freed game is a
record in state `"free"`, `lobby_create_game` takes any free address, and an
address is reused, as malloc does. A pointer to a freed game is thus something
the model can express. Code that would follow one is outside the model; the guards
`lobby[g].state # "free"` say where, and the runs `membership` and
`destroyed_in_use` show when one can arise. An address that has been used again is
followed: the handlers of the BB creation menus test `create_lobby` and nothing else
(`block_bb.c:286-417`), and a cancelled menu, like a failed join, leaves it set. A client that answers a
menu it has closed thus chooses for, joins or destroys whatever game has the
address (`Answers`, under `~OpenMenus`).

Each handler is one action, with everything it calls:

| action | code |
|---|---|
| `Connect`, `Drop` | `client_create_connection`; the sweep at the end of `block_thd` with `lobby_remove_player(_bb)` and `client_destroy_connection`. A client flagged for disconnection is read by nothing but the sweep, so flag and sweep are one step |
| `EnterLobby`, `LeaveGame`, `ChangeLobby`, `SelectGame`, `RejoinGame` | packets 0x61, 0x98, 0x84, the game menu and the BB error menu: `lobby_add_to_any`, `lobby_remove_player`, `lobby_change_lobby` |
| `CreateGame`, `CreatePending`, `ChooseType`, `ChooseVersion`, `ChooseDrop`, `CancelCreate` | the `*_process_game_create` handlers, with the PC and BB menus in between. A BB game is listed before its creator has answered, a PC game after |
| `Subcmd`, `DoneBurst`, `Ping` | a packet queued during a burst; the end of a burst, at once or, with a joinable quest, by the answer to a ping |
| `QuestList`, `QuestListEnd`, `SetupQuest`, `QloadDone` | opening and closing the quest list, `lobby_setup_quest`, and the wait for every member to load the quest |
| `AllowGC` | `/allowgc`, which decides how leaders are elected |

The helpers carry the names and structure of the code: `TakesSlot`/`AddClient`
(`lobby_add_client_locked`, with slot 1 first in DC/PC games), `Elect` (both
election functions, with the strict comparison of join times against the current
second and the change of a cross-platform game into a GameCube game), `RemoveClient`,
`Vacated` (removal, and destruction of the game it empties), `Move`
(`lobby_change_lobby`), `JoinNew` (joining the game one has just created, and what
each caller does when that fails).

Not in this model: the refusals by class, level, version, password and legit mode
(for a client that stays where it is they are stuttering steps), the game list's filter by version, drop modes,
challenge levels, map and enemy data, event and music, the Lua hooks, what the
packets contain. One thread runs all of this; its locks are `BlockLocks`.

### Roster

`Roster` is what the lobbies promise: a player is in one place at a time, no
place holds more than its capacity, a room stays open while someone is in it and
goes with the last one. `KeepsRoster` is the refinement: `at` is `cur_lobby`,
`open` the listed games. Adding and removing slots, counts, elections, bursts and
menus are all below it.

### GameItems

`inv` and `bank` map players to stores (a sequence of items, and meseta), `floor`
is `item_queue` (newest first, as `TAILQ_INSERT_HEAD` makes it), `seat` is the
`client_id` in the game, `playerNum` and `gameNum` are `item_player_id` and
`item_lobby_id`. An item's id is a pair of owner and number. `owes` is a split the
client has begun and not ended; `due` is a history variable: how much of each kind
there ought to be. `careful`, fixed in `Init`, says whether the clients look for room
before they take something: both kinds are checked in one run.

The helpers `Taken`, `Without` (`remove_invitem`, `remove_bitem`), `With`,
`Accepts` (`add_invitem`, `add_bitem`) hold the behaviour of the store functions:
only stackable items are split, an amount of 0 or too large takes the whole, a
stack is cut at its largest size without a word, only a full list refuses. The
actions are the handlers of pick-up, drop, split, destroy, deposit, take, sell, buy,
pay, exchange and trade; where a handler fails after it has taken the item, the action
takes it and the player is out of the game (`Out`). `Exchange` stands for the quest
exchanges of `sub_60.c` that take one thing and give another (0xD5, 0xD7, 0xD9, 0xDE,
0xE1): each removes first and adds afterwards, and differs only in how it finds what
to remove, so the client's choice covers them. What a shop offers and asks is any
kind at any price the player can pay.

Not in this model: the lists of the shops, equipment, mags, the tekker, the exchanges
that only take or only give, battle and challenge inventories, sorting (positions
matter to nothing but `Take`, which takes from any), the common bank (one bank per
player), and the negotiation that precedes a trade.

### BlockLocks

The ship has a thread per block and `ship_thd`, which also handles what the shipgate
sends (`Outside`). A block's thread (`pc`, `cur`, `rest`) takes the block's lock for writing to
accept, for reading to serve its clients one by one, each under its own mutex
for the whole handler, and for writing again to sweep. A handler, or the ship's
thread, may look for other clients (`how`, `blk`, `left`, `vic`), in one of four ways:

* `"list"`: block by block under the lock for reading, each client under its mutex
  (mail, guild search, most of what comes from the gate);
* `"ban"`: the same by `global_ban`, which unlocks the mutex of every client it passes
  though it has locked none of them (`admin.c:602`);
* `"lobby"`: lobby by lobby under the lobby's mutex (`update_lobby_event`);
* `"bare"`: with neither lock nor mutex. So do `kill_guildcard` (`admin.c:71`),
  `broadcast_message`, `global_message`, `announce_message`, `schedule_shutdown` and
  `schedule_update` (`admin.c:325, 352, 383, 421, 471`) and the question whether a
  guildcard is online (`ship_packets.c:13097`); so do some commands in the thread's own block
  (`commands_gm.h:1358`, `commands_pl_game.h:428`), where it is safe.

`rd`, `holder`, `depth` and `lobby` are the locks themselves. Client mutexes are recursive, and
only the thread that has one can unlock it (`pthread_mutex_unlock.c:95` of the pthreads library in use):
the ban's surplus unlocking does nothing to the mutexes of others, and takes one from
the count of its own client's, which the handler has locked (`Unlocked`). A writer that waits keeps
new readers out, as that library does. A walk without a lock may find that the client it stands on has been freed;
what it then reads is not defined, and `Walk` lets it end, go on with a client of before, or mark the
client that has got the memory since.

Actions: `Round`, `Accept`, `Lock`, `Served`, `Leak`, `Sweep`, `Bury`, `EndRound` of a
block's thread; `LookInLists`, `WalkLists`, `Ban`, `LookInLobbies`, then `Enter`, `EnterBare`, `EnterBan` or
`EnterLobby`, and `Reach`, `Told` or `Walk` of a look. `Leak` is the return of `dc_process_char` (`block.c:1613`) and
`lobby_check_client_legit` (`lobby.c:1951`) with the mutex still locked.

Left out: the order of a list; that a block has several lobbies (they are one); more than one accept per
round (they are several rounds); `lobby_lock`, which matters only to
`process_change_lobby` (`block.c:1791-1809`: it holds the lock for reading while
`lobby_change_lobby`, `lobby.c:1515`, takes it for writing to destroy an emptied
game; a client that asks for a lobby from inside a game, as no game client does, stops
the block for good); `pkt_mutex`, which is commented out; the lock taken at shutdown
(`block.c:798`); the list of connections that have not been sent to a block.

### GateLink

A ship has `sock` (`sg.sock`: the connection, if any), `hasKey`, `burst` (how far
`shipgate_send_clients` has come), `fleet` (`ships`) and `codes` (`menu_codes`). A client is `at` a
ship and block, `named` when the gate was told of it, `flagged` for disconnection. The
gate has its connections `ships`, numbered by age, the ships `listed`
(`server_ships_online`) and who is `online` (`server_clients_online`, one row per guild card). `conn`
gives each connection its two ends and what is in flight either way; its `wire` says what
the gate can still learn: `"up"`, `"closed"` (it reads what arrived, then the end of the
stream) or `"dead"` (it reads what arrived and then nothing, until it sweeps the connection
after two minutes). `lost` remembers that a link died that way. `entries` is the packet of the burst
that is being put together; `overtaken`, which nothing in the code keeps, has the guild cards that were sent in such a
packet after their logout.

| action | code |
|---|---|
| `Connect` | `shipgate_conn` until `create_connection_tls` accepts it |
| `ShipReads` | one packet in `handle_pkt`: `handle_login`, `handle_login_reply`, `handle_sstatus`, `handle_count`, `handle_blogin_err` |
| `ShipLists`, `ShipBursts` | `shipgate_send_clients`, one block at a time: the entries are filled in under the block's lock, the packet is sent when that has been unlocked (`shipgate.c:4320`, `4331`), and clients may come and go in between |
| `ShipReadsEnd`, `LinkBreaks` | the end of the stream, seen by the ship; a link that breaks, with any part of what was sent arriving |
| `ShipCrashes` | the ship's process ends with all its clients, and another is started |
| `Arrive`, `Announce`, `Leave` | `ship_inc_clients`; `process_char`; `client_destroy_connection` |
| `GateReads` | one packet in `process_ship_pkt`: `HandleLogin` or `LoginFails`, `HandleBlockLogin`, `HandleBlockLogout`, `HandleClients`, `HandleCount` |
| `GateSweeps` | `run_server` and `remove_ship` |
| `GateRestarts` | the gate's process ends; the next one empties both tables |

Not in this model: the login server, which reads the two tables; changes of lobby, which rows
name but nothing decides by; the errors of statements of the database (among them the returns of
`handle_blocklogout` before it deletes the row, `gate/ship.c:4448-4458`); friend
messages, mail and kicks that follow a row; the versions of client that play without a
block login; the values of the counts. `Connect` waits until the gate has read what earlier connections held
and has swept the closed ones, which is a little more than a round of `run_server` does; a ship
tries again only every 15 seconds.

### CharacterData

`client` has of a connection its copies of the character, the bank of the account and the
options, whether it was moved on after loading (`state`), and what keeps it from being saved (`hold`). `store` is
what the database has; `toGate` and `toShip` are the links, first in first out; `up`
says which work. `left`, `clean` and `dirty` belong to the properties: what the account's
last client had when it left in order, whether a client logged in when nothing else touched the
account, and whether it has something it has not yet sent.

Actions: `Login` (both requests), `SaveRound` (the saves in the block's round), `Leave` (the
last save, in `client_destroy_connection`), `UseBank`, `ChangeHold`, `ShipRead` (`handle_char_data_req`,
`handle_bbopts`), `GateRead` (`HandleCharSave`, `HandleOptsSave`, `Answer`), `LinkLost`, `Relink`, `Crash`.

Not in this model: the character's own bank and the many tables a character is spread
over, `/bkup`, characters forwarded whole, slots, the failures of statements: a save that ends
half-way through its tables, and a character that cannot be read, for which `handle_char_data_req` puts the full
copy back over the tables or answers with an error (`gate/ship.c:3720-3747`).

### Assumptions on clients

Handlers check little of what they are sent, so some properties depend on the game
client. The constants and variables say so:

* `Disciplined` (`BlockLobby`): a packet is sent only in the situation in which a
  game client shows the menu for it. All runs assume it; of the proofs only those of
  `KeepsRoster`, `NoEmptyGame` and `BurstHasOneBurster` do.
* `OpenMenus` (`BlockLobby`): the part of it that concerns creation menus: a client answers one only
  while it is open. The proofs of `SlotsAgree`, `CountsAgree` and `SuccessorIsLongest` assume it and
  not the rest: any other packet may come at any time. They cannot do without it, because a second cancel
  destroys whatever game has the address by then, with its players in it. The proofs of `TypeOK` and
  `QueueOnlyWhileBursting` assume neither; the model ends where a handler would follow a pointer to a freed game.
* `careful` (`GameItems`): clients look whether there is room, and drop whole items by
  0x2A and parts by 0xC3 (as `subcmd.h:2897` says). `Conserved` says that nothing is lost
  then; `NothingFromNothing` speaks of both.
* `JoinPending`: players may pick a BB game whose creator is still in the menus. The
  server lists such games. With TRUE the model shows what goes wrong (run
  `destroyed_in_use`); the other runs and all proofs about lobbies but those of `TypeOK` and
  `QueueOnlyWhileBursting` assume FALSE, and those of `SlotsAgree` and `CountsAgree` cannot do without it.
* A client that has begun a split (0xC3) sends the 0x29 that ends it before other
  packets about its inventory.

## 3. What is checked

Bounds are in the `.cfg` files and the `MC` modules.

| run | instance | shows |
|---|---|---|
| `membership` | 2 DC/PC and 1 GameCube player, 2 lobbies, 1 game, 3 seconds, queue of 1 | `TypeOK`, `SlotsAgree`, `CountsAgree`, `QueueOnlyWhileBursting`, `BurstHasOneBurster`, `NoEmptyGame`; `SuccessorIsLongest`: if an election finds a new leader it is one who has been there longest, DC and PC players first in a game open to GameCube |
| `promises` | 2 DC/PC players and 1 BB player, 1 lobby and 1 game for 2 each, fairness | `KeepsRoster`, the refinement of `Roster`; `BurstEnds`; slots and bursts with BB menus |
| `items` | 2 players, a weapon, a stackable tool (stacks of 2), meseta, inventories and banks of 1, careful clients and others | `TypeOK` (also: one stack per kind, no list or stack above its size), `Conserved`, `NothingFromNothing` |
| `locks` | 2 blocks and the ship's thread, 2 clients, mutexes up to 3 deep, all four ways of looking | `TypeOK`, `UsedIsThere`, `OnlyCrossings` |
| `gate_link` | 2 ships of 2 blocks in one menu, 2 clients of one account (one plays BB), 3 connections, fairness | `TypeOK`, `RowsBacked`, `NoGhosts`, `FleetsAgree`, `MenuReaches`, `CountHeardInOrder`, `Rejoins` |
| `characters` | 1 account, 2 connections on 2 blocks of a ship, 1 item, 1 fault, fairness | `TypeOK`, `CharacterKept`, `LeftIsStored`, `FoundAsLeft`, `MovesOn` |
| `stale_leader`, `left_behind`, `destroyed_in_use`, `same_id`, `dead_stay`, `emptied_bank` | the smallest instance that shows it | the disagreements of section 5 |

*Why the bounds are enough.*

* Lobbies. With three players there is a leader who leaves, a successor and a third
  to compare with; a burster, a sender of queued packets and a bystander; a full
  lobby with someone outside. One game address, reused whenever the game is freed, is
  enough, because a client is in one game at most and games share only their count.
  `MaxTime` of 2 gives three different join times; `QuietLater` follows quests, bursts and
  queues only in the earlier seconds, because time matters to elections alone, and they
  do not look at those. `OneLobbyLater` follows two populated default lobbies in the first second and without
  a listed game: that is where changing between them is. `MaxQueue` of 1
  suffices for "something is queued", as a queue is emptied as a whole. `promises` has more players than
  places, so that full lobbies and games occur.
* Items. Stacks of 2 and lists of 1 make full stacks, partial takes and refusals occur
  within a few steps; `MaxNumber` bounds the numbers given out, `MaxItems` how much there
  is of all kinds together, and `MaxDoubled` how much when a split that is never paid for
  doubles a part: 3 is the least with which part of a stack of 2 is. The constraint `Bounded` ends a behaviour in
  which a counter of item numbers has run below 0 into the bits above. The view hides the item ids of
  players outside the game, which joining overwrites before anything reads them.
* Locks. Two blocks are enough for threads that look into each other's lists, and the
  ship's thread is the third party; what holds for more is proved. A depth of 3 is a mutex taken by the round,
  by a look and once by a leak. `Used` bounds the ways in which threads look at others: `locks` has all
  of them, `dead_stay` the one its counterexample needs.
* Links. `MaxConns` of 3 gives a ship a second connection while its first one may still be
  at the gate; `MayBreak` keeps a connection back for every ship that has none, so that the
  bound never cuts a ship off, on which `Rejoins` relies. `MaxWaiting` of 1: clients act while no link holds more than
  one packet, so that what they report meets a login, a burst or the news of another ship on the
  way. `Few` lets the second client come to one block only, and has it gone when
  both ships have had connections and the last one is made; while the second ship has not been started,
  it is there through all of the first one's connections. Symmetric values are few here, and the state
  space grows by a factor of ten with each of these bounds. `Few` also lets a logout overtake the
  packet of a burst on the first ship only.
* Characters. `MaxQueue` of 4 holds the saves of one connection and the requests of the
  next; `FewPackets` leaves out a second copy of a save that is on the way already, and all but two packets once it is no longer
  known what the account left, where only `CharacterKept` says anything.
  One ship: requests from another ship overtake the saves, and `FoundAsLeft` does not speak of those (`clean`).

*Deadlock* is checked in all runs but two: in `locks` and `dead_stay` the threads really do
block each other, and `OnlyCrossings` says how.

*Symmetry* permutes clients of one game version and the default lobbies
(`membership`), players (`items`, `same_id`), and clients (`locks`): no action compares them. Runs with a
liveness property use none.

*Fairness.*

* `promises`: `WF(Finishes(c))`, where `Finishes` is ending the burst, answering
  the quest's ping, or being dropped while bursting. The server does not make a client
  answer, but `block_thd` (`ship/block.c:208-245`) pings clients that have been
  silent for a while and drops those that stay silent. So a bursting client does one of the
  three. Nothing is assumed of players who are not loading.
* `gate_link`: weak fairness of `Connect`, `ShipReads`, `ShipLists`, `ShipBursts` and `ShipReadsEnd` of
  each ship (`ship_thd` tries every round until it is connected, and reads what `select`
  reports) and of `GateReads` and `GateSweeps` (`run_server` serves every connection in a
  round, and sweeps the closed and the silent). Clients, faults and restarts are under no
  obligation; that there are only so many faults is the bound `MaxConns`.
* `dead_stay`: strong fairness of what a thread does next: it gets a lock that is free again and
  again, and a handler ends. With all that, the dead stay.
* `characters`: weak fairness of `ShipRead` and `GateRead`, as above. `MovesOn` asks nothing
  when the link is lost or the account is in use elsewhere.

*Conserved* needs a word. The part of a stack that is dropped (0xC3) is put on the
floor and back into the inventory, until the client's own 0x29 removes it. A client
that is lost in between leaves the part in both places, and the server cannot tell.
The property counts exactly these parts (`Owed`, and `Leave` adds them to `due`): it says
that nothing else is ever doubled or lost by well-behaved clients.

*FleetsAgree*, *CountHeardInOrder* and *Rejoins* speak of behaviours in which the gate hears
of every link that ends (`~lost`). When it does not, a ship may log in over a second
connection before the first one is swept, and the sweep then deletes what the second one
has put there; see section 5. *NoGhosts* holds with such links too, once the earlier
connections of the ship are swept. It excepts the rows of cards in `overtaken`: a client that is swept between the
unlocking of its block and the sending of the block's packet is logged out before the packet that
names it, and its row stays until that card is logged out from the ship again or the ship's connection ends. What the
property says is that there is no other way to such a row.

*UsedIsThere* excepts the one kind of look of which it does not hold: a walk without a lock through the
list of another block. Of those it says nothing; of every other look, of the ban with its surplus unlocking, and of walks in the
thread's own block it says that no client is freed under them. That a thread has the mutex of the client it serves
over the whole handler is no property here, because a ban can take it away.

## 4. What is proved

All of it is for any values of the constants that satisfy the assumption of the
module (`ConstantsAssumption` and the like), any number of clients, ships, blocks and
connections, and without the constraints of the runs.

**Lobbies.**

* `TypeCorrect` (`BlockLobbyProofs`): `Spec => []TypeOK`. `TypeOK` is inductive. The
  part worth a proof is that an election always stores a slot number: the loop's -1
  never reaches `leader_id`.
* `SlotsCorrect` (`BlockLobbySlots`): `~JoinPending /\ OpenMenus => (Spec => []SlotsAgree)`: any
  packet but the answer to a creation menu may come at any time.
* `CountsCorrect` (`BlockLobbyCounts`): under the same condition, `[]CountsAgree`.
* `QueueCorrect` (`BlockLobbyProofs`): `Spec => []QueueOnlyWhileBursting`, without a condition on clients, up to
  where the model ends (a handler that would follow a pointer to a freed game).
* `RosterKept` (`BlockLobbyRoster`): `Disciplined /\ ~JoinPending => (Spec => KeepsRoster)`: the
  block implements `Roster`.
* `NoGameEmpty`, `BurstsCorrect`, `SuccessorRight` (`BlockLobbyRoster`): `NoEmptyGame`,
  `BurstHasOneBurster` and `SuccessorIsLongest`, under the conditions below.

`SlotsAgree` is not inductive. A game is freed when `num_clients` says that its last
member leaves, when a creation menu is cancelled, and when the creator cannot join;
and its address is then used again. So the invariant `IInv` of the proof adds:

* `NumsAgree`: `num` is the number of members, so that a game freed at 1 holds
  nobody but the one who leaves;
* `GamesHeld`: nobody's `cur_lobby` is a freed game, so that a reused address starts
  empty;
* `MenusOwnGames`: the game of an open menu exists, is empty and is no other open
  menu's, so that cancelling the menu frees a game with nobody in it. This is where
  `~JoinPending` is needed: without it others may be in that game, as the run
  `destroyed_in_use` shows. And it is where `OpenMenus` is: of the game that a closed menu
  has left in `create_lobby` nothing of the kind can be said.

The proof has one lemma per way of moving a client (`MovePlaces`,
`AddToAnyPlaces`, `RemovePlayerPlaces`, `JoinNewPlaces`) over common lemmas on a
client that takes or leaves a slot (`EmptyPlace`, `OnlyMember`, `Relocated`,
`VacatedPlace`), one per group of handlers (`MovesKeep`, `CreatesKeep`, `PlaysKeep`,
and `ConnectKeeps`, `DropKeeps`), and `StepKeeps` puts them together.

`CountsAgree` follows from that `IInv` and `CountsInv`: that every lobby fits its
capacity and `numGames` counts the listed games (`Right`), that whoever is in a game is in a
listed one (`PlayedListed`), that the game of an open menu is in the state its menu
gives it (`MenuStates`), and that `numClients` counts the connections. The step that
matters is the destruction of a game: it must count down exactly when the game was
listed. For `QueueOnlyWhileBursting` it is enough to know the types and that a freed game's queue is empty
(`AllPlayed`): every path that ends a burst empties the queue in the same step.

The refinement goes step by step: each way of moving a client is `Enter`, `Found`, `Leave`
or `Close` of `Roster` (`EnterRoster` and the like), and everything else a stutter. It needs the
invariants above and `MenusAtHome`: the client in a creation menu is in a default lobby, so
that founding the game takes it out of nowhere else. That is where `Disciplined` comes in: a game client
does not ask for a game while its screen shows a menu. Without `Disciplined`, a client that leaves
in the middle of its burst for another lobby leaves a game that is closed for ever, which is also why
`BurstsCorrect` asks for it; its invariant (`BurstsInv`) says that one client bursts at most, and
that whoever waits for the answer to its quest's ping still bursts. `NoGameEmpty` follows from the refinement
(in `Roster`, only `Found` opens a place, with its player in it), and asks besides that no client be a
Blue Burst one: those games are listed while their creator is in the menus, and stay
listed and empty when it vanishes there (`clients.c:616`). `SuccessorRight` is about a step:
that the loop of the election finds an earliest member is a minimum over join times
(`WinnerEarliest`, from the well-foundedness of the naturals), and that the leader it replaces cannot win
the comparison with the current second is `JoinedBefore`.

**Items** (`GameItemsProofs`): `TypeCorrect`: `Spec => []TypeOK`, with the form of the stores;
`ConservedCorrect`: `Spec => []Conserved`; `NothingCorrect`: `Spec => []NothingFromNothing`. The assumptions are that
there are finitely many clients, that meseta is one of the kinds, that every stack holds at least one, and that
the characters come with inventories in the form in which this code keeps them (`LoadedAssumption`).

What there is of a kind is a sum over the floor, the players and their lists. `SumOf` is
the number of elements of a set of pairs, so that a sum changes by what one place
changes (`SumSplit`, `SumChange`) by the theorems on cardinalities, where a recursive sum would need an
induction. From that follow what taking, splitting and adding an item does to a list (`AmountChange`,
`AmountAppend`, `AmountRemoved`), what the store functions return and what room they need (`LessIs`,
`WithoutIs`, `WithIs`), and then a lemma for each handler. `Conserved` is not inductive. The invariant
(`Inv`) adds the form of the stores; that what lies on the floor is no more than a stack holds; and that what a careful player owes for a
split is a real part of a stack it still has, under that id, in front of any other with that id
(`Payable`), so that its 0x29 takes what was split and nothing else. That what others
give it meanwhile does not disturb this is `WithAbove`: what is added goes on top or to the end. A handler
about one player is then a matter of what it does to that player's part of
the sum (`Balanced`, `StepKeeps`, and `OutKeeps` where it ends with the player out of the game), a trade
of what it does to two (`TwoKeep`).

**Locks** (`BlockLocksProofs`): `TypeCorrect`; `UsedThere`: `Spec => []UsedIsThere`;
`DeadlocksCross`: `Spec => []OnlyCrossings`. The invariant says for every thread where it is in its list or lobby
(`Placed`), that it holds exactly the read locks that its place calls for
(`ReadersRight`), that a lobby's mutex is held by the thread that looks at that lobby
(`LobbiesRight`), that a thread that sweeps has no readers on its block (`BuryAlone`), and whose a client's mutex
can be: the thread's of its block, or one's that has reached it, once (`MutexesRight`); that the thread which serves a client
has its mutex is not part of it, because of the ban. `OnlyCrossings` follows from
the invariant without another induction: in a set of threads that wait for each other, one that waits for a
writer or for a reader leads to one that waits for a client's mutex, and that one's holder
either serves the client or has leaked it.

**Links** (`GateLinkProofs`): `TypeCorrect`; `RowsCorrect`: `Spec => []RowsBacked`. The
invariant adds that connections are numbered without gaps and that a ship's own one is among them
(`Numbered`), so that a new one is new.

* `GhostsCorrect`: `Spec => []NoGhosts`. A row is true or of an overtaken card (`Stands`), or a logout is on its way that will
  delete it (`Rows`); and so is every report a ship has sent and the gate has not read
  (`Reports`), with the logout behind it in the same queue. Behind a connection that
  nobody reads nothing is sent (`Silent`), and a ship's socket is its newest connection (`Sockets`).
* `MenusCorrect`: `Spec => []MenuReaches`, inductive with the types.
* `FleetsCorrect`, `CountsCorrect`: `Spec => []FleetsAgree` and `Spec => []CountHeardInOrder`. The
  invariant (`HeardInv`) looks ahead in what is on the way: when a ship has read all
  that was sent to it, it will have its key exactly if it has logged in, and will know exactly the ships that
  are listed (`View`); and at every count on the way it will know the ship that is counted (`Counts`). That
  holds as long as no link dies unheard, because then a ship has one connection
  at the gate (`Single`), and the connections of the listed ships are those that logged in (`Logins`).

**Characters** (`CharacterDataProofs`): `TypeCorrect`; `CharacterCorrect`: `Spec =>
[]CharacterKept`, whatever is lost, overtaken or crashes.

* `LeftStored`: `Spec => []LeftIsStored`; `FoundLeft`: `Spec => FoundAsLeft`. The invariant
  (`StoredInv`) says of every account how far a client that logged in in order has come, in six
  stages from `Asked` (both requests on the way, behind what is left of earlier saves) to `Ready`: what is on the
  link in either direction, in which order, what the client has and what is stored. Where saves are on the
  way, `Will` says what is stored when they have been read. Such a client is alone with its account,
  and when nobody is there the saves of what was left are on one link (`WillBeStored`). A client that
  has its character and not yet its options saves zeroes for them, which is why the first
  part of the data and the rest are followed apart.

TLC checks these invariants on the instances of the runs as well (`IInv`, `CountsInv`, `MenusAtHome`, `BurstsInv`,
`JoinedBefore`, `Inv`, `GhostInv`, `HeardInv`, `LeftInv`).

Only model-checked: `BurstEnds`, `Rejoins` and `MovesOn`, which are liveness under fairness and
out of the prover's reach. Every other property of a passing run is a theorem; those about
lobbies without the constraints of the runs but, where it says so, under the same conditions.

## 5. Where the code departs from what it says

Each has a run whose counterexample shows the steps; `PROJECT.json` quotes the
comments.

* **Stale leader** (`ship/lobby.c:1219`, run `stale_leader`). When the leader leaves and
  the others joined within the current second, none is a candidate and `leader_id`
  becomes 0, which may be an empty slot. In a cross-platform DC/PC game the same
  election turns the game into a GameCube game with DC/PC members.
* **Left behind** (`ship/block.c:3165`, run `left_behind`). A player that leaves is not
  taken out of everything. `LeavesNoTrace` has three parts, and each is violated by
  itself: when the last member that still loads a quest leaves, nobody tells the
  others to start (`HeldForALoader`); a queued packet keeps its sender's address
  (`QueuedByMembers`, `lobby.c:2212`); and `LOBBY_FLAG_QUESTSEL` stays set when the
  member with the quest list open disconnects, so that the game refuses newcomers until
  someone else opens and closes the list (`QuestselHasSelector`, `block.c:3197`).
* **Destroyed in use** (`ship/block_bb.c:343`, run `destroyed_in_use`). Cancelling the
  creation of a BB game frees it whoever has joined it. (Answering a menu that is closed, which no game
  client does, has the same effect on whatever game has the address by then.)
* **Same id** (`ship/handle_player_items.c:199`, run `same_id`, which looks at careful clients only). Parts of stacks are
  numbered with the counter after it is incremented, drops with the counter before:
  the drop that follows a split lies on the floor with the same id, and a pick-up takes
  the newest of the two.
* **The dead stay** (`ship/block.c:425`, run `dead_stay`). Two players on two blocks search for each
  other at the same moment: each block's thread holds the mutex of the client it serves and
  waits for the other's. Neither comes round to its sweep again.
* **Emptied bank** (run `emptied_bank`). A bank without items is not stored
  (`character_bank_common_query.c:688`, `character_bank_char_query.c:676`): the last item taken out of a bank is in
  the bank and in the inventory at the next login, and meseta put into a bank without items is gone.

Found on the way and not the subject of a run:

* Lobbies: `bb_join_game` reports success after a refusal by class, so the creator's
  empty game stays listed (`block_bb.c:357`; in `JoinNew` as its third disjunct);
  `process_change_lobby` waits for itself when a client changes lobbies out of a game
  (`block.c:1807`).
* Items: a client lost in the middle of a split (see `Conserved`); the item counter of
  a seat goes down by one when a player without items takes it
  (`handle_player_items.c:145`); trading meseta moves none, and the amount of a
  traded stack comes from the meseta of the trade (`block_bb.c:1972`); D0 moves the
  items of a trade at once, without waiting for the other side (`block_bb.c:1924`).
* Locks: `lobby_check_client_legit` and `dc_process_char` return with the client's
  mutex locked on some paths (`lobby.c:1951`, `block.c:1613`); a kick sets the client's
  flag without its mutex, and may be lost (`shipgate.c:2216`; in `Kick`); keep-alive pings are sent without it;
  the kick by guildcard, messages to all and announcements of `admin.c` go through other blocks' lists with no lock
  (in `Walk`), so that a client may be freed under them, where the comment at `admin.c:319` says "Go through each
  block and send the message to anyone that is alive."; `global_ban` unlocks what it has not locked (`admin.c:602`; in `EnterBan`).
* Links: `shipgate_send_clients` unlocks a block before it sends the block's packet, so that a logout can be sent first and
  the packet leaves a row that nothing deletes while the ship stays connected (`shipgate.c:4320`; in `ShipLists` and
  `ShipBursts`); the sweep of a connection that died unheard deletes by the ship's key, and with it
  what the ship's new connection has put there (`gate/ship.c:609`); a row that such a
  connection still had on its way is a ghost until then; a second login
  of a listed ship fails and deletes the first one's rows (`gate/ship.c:875`); the client
  refused because its account plays already deletes the other one's row when it leaves
  (`gate/ship.c:4461`); a row the burst cannot insert is passed over in silence;
  `menu_codes` are not cleared when the ship reconnects; a count may name a ship that the
  receiver does not know when a link has died unheard, and that ends its own link
  (`CountKnowsShip` without the condition of `CountHeardInOrder`).
* Characters: a client that leaves between the two answers stores zeroes as its
  options; the answer goes to the first client with that guild card, which may be an
  older connection; a client that logs in while the link is down waits for
  ever; saves from one ship are overtaken by requests from another; character and
  common bank are two packets, and a link lost between them doubles or loses an item;
  `clients.c:529` tests the lobby's flags with a client's flag, so that nothing is
  saved in a one-player game, and a lobby's burst does not hold saves back as the comment
  above it says; the play time is counted again at each save; when a character cannot be read from
  its tables it is reset to the full copy beside them (`gate/ship.c:3720`); `/bkup` can restore to another slot.
* Login server: see the next section.

## 6. Not modelled

* **Login server** (`auth/*.c`). Each connection is served by itself, by one thread,
  from what it sends and what the database has. What it shares with the modelled parts is
  the rows of ships and players, which it reads. A model of it would show one thing above
  all: whether an account plays is looked up before its character slots may be changed
  (`character_bb.c:429`), but the row comes only when a block has loaded the character, so
  that two connections pass; one may then recreate the slot that the other plays, whose saves overwrite
  the new character. Creation is a backup, a delete and inserts without a
  transaction, and the backup reports success when it cannot read the character
  (`character_query.c:718`). It is listed as a hazard without a property.
* **Patch server**. Shares nothing with the other servers: a list of files, checksums,
  and the files that differ.
* **What is sent while a client loads** (`burst_queue`, `lobby.c:2047`), quest registers, and the two
  kinds of ping: `BlockLobby` has when a burst starts and ends and what newcomers
  queue, not what they are sent.
* **The window of a trade** (0xA6, D2, D4), shop lists, mags, the tekker, and quest functions
  that only give or only take.
* **Shutdown, bans and administration** but for the locks they take and `/allowgc`.
* **Mail, guilds, friends**: forwarded, with the locks they take in `BlockLocks`.
* **DNS server** (no state), **database layer** (SQL text and failures of single statements),
  configuration, encryption, packet layout, drop tables: data and conversions without a
  protocol of their own.
* **Vendored libraries and tools**, which are most of the repository's lines.

What would add most next: the packets of a burst in `BlockLobby`, with the replay of
the queue; and the window of a trade in front of `GameItems`, with the exchange for both or for
none as its abstract specification.
