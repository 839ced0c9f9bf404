# A verification project for Ma Sói

Ma Sói is an online game of Werewolf: a Node server (Fastify, Socket.IO) that
holds rooms and runs one game engine per room, a Next.js client, and LiveKit
for the voices of the table. This directory holds TLA+ models of the game
engine, of the rooms and sockets around it, of what the browser makes of the
messages and of the voice grants; the TLC runs that check them on small tables;
and TLAPS proofs of their main safety properties for every table.

Contents: [inventory](#inventory), [modules](#modules-and-the-code-they-model),
[runs](#runs-and-what-they-show), [bounds](#bounds-view-symmetry-and-fairness),
[proofs](#proofs), [findings](#findings), [not modelled](#what-is-not-modelled),
[plan](#plan).

## Inventory

The whole server is one Node process and one thread. Nothing is persisted: a
restart loses all rooms and games. Everything hard comes from four sources:

* timers: one per running game, one per player in the grace period;
* long sequences of legal events of several connections, of which one player
  may have several at a time;
* messages to clients and to LiveKit that nobody waits for, and which leave by
  two paths of different speed;
* handlers cut at an `await`. With `MemoryRoomStore` and the in-memory Socket.IO
  adapter every awaited call is settled in the microtask queue, which is empty
  again before the next packet, timer or disconnect is handled: today a handler
  is finished before the next one starts. With a store over a network (the
  repository holds the skeleton of one) it would not be.

| Component | State | Operations | Correct when |
|---|---|---|---|
| Role distribution and deal (`packages/shared/src/index.ts`, `assignRoles` in `engine/GameEngine.ts`) | none | counts per role; Fisher-Yates shuffle | counts add up at every table, no deal starts decided, the shuffle loses no role |
| `GameEngine` (`engine/GameEngine.ts`, `engine/types.ts`) | players' roles and lives, phase, one timer handle, day ballots, night record, two bottles, winner | `start`, seven night actions, `submitVote`, `handlePlayerLeft`, timeout, `destroy` | timers match phases, verdicts are prompt, nobody is waited for in vain, ballots are those of the living, potions work once, the game refines the rules |
| Game sessions (`socket/gameSessions.ts`) | `engines`: room to engine | start, destroy, deliver the engine's callbacks, snapshot for a returning tab | one running game per room; every player sees what the engine sent them, in order |
| Socket handlers (`socket/handlers.ts`) | `socket.data.roomId`, `pendingLeaves` (grace timers) | create, join, get, leave, chat, start, night action, vote, disconnect | a connected player is never removed; a removed one is dead in the engine; no timer or engine outlives its room |
| Room store (`store/MemoryRoomStore.ts`; `RedisRoomStore.ts` is not wired in) | rooms, join-code index | create, add, remove, online flag, chat, delete | exactly one host, who is in the room; the index and the rooms agree; empty rooms vanish |
| Voice routing (`voice/VoiceRouter.ts`, `voice/livekitClient.ts`) | none here; grants at LiveKit | a request per player per phase change | in the end a player's microphone is what the current phase allows |
| Room page and panels (`apps/web/app/room/[id]/page.tsx`, `components/`, `lib/socket.ts`) | room, game state, own role, last night result | render, send actions, fetch the room on first connect | what a panel shows is what the engine would act on |
| Home page, sounds, effects (`apps/web/app/page.tsx`, `lib/`, `components/effects`) | session in local storage | log in, play effects | (presentation) |
| Authentication (`auth.ts`) | none (signed tokens) | check a nickname, issue and verify a token | (library) |
| Bootstrap and deployment (`index.ts`, `infra/`, `render.yaml`) | none | wire the parts | (configuration) |

How they interact. A socket event reaches a handler, which awaits the store and
then calls the engine synchronously through the session map. The engine calls
back: a broadcast of its public state to the Socket.IO room at once, personal
messages after an awaited `fetchSockets`, and voice grants as requests that are
not awaited. A player leaves by `room:leave`, by entering another room, or by staying
disconnected for 30 seconds; all end in `store.removePlayer` followed by
`engine.handlePlayerLeft`, or by `destroyGameForRoom` when the room is empty.
Inside the engine one `setTimeout` drives the phases, and every handler may
close the phase it is called in and cascade: a departure can skip several night
phases, resolve the night, kill two players, and end the game in one call.

What is hard to test here, and at which line, is the list `hazards` of
`PROJECT.json`; the properties below are aimed at it.

## Modules and the code they model

| Module | Models | Uses |
|---|---|---|
| `RoleDistribution` | `computeRoleDistribution`, and `assignRoles` as the set of deals it can produce | - |
| `RoleDeal` | the loop of `assignRoles`, one swap per step | `RoleDistribution` |
| `GameEngine` | one engine: all its methods and its timer | `RoleDistribution` |
| `WerewolfGame` | nothing in the code: the abstract game the engine promises | `RoleDistribution` |
| `RoomStore` | `MemoryRoomStore`: one operator per method | - |
| `RoomSessions` | the socket handlers, the grace timers, the registry of engines | `RoomStore` |
| `RoomTabs` | the tabs of home page and room page, and their reconnection | `RoomSessions` |
| `RoomViews` | the broadcasts of the handlers and the room page's copy of the room | `RoomSessions` |
| `ClientView` | the engine's callbacks, the messages on their way, the page's state, its panels | `GameEngine` |
| `VoiceGrants` | the grants `VoiceRouter` asks for, the requests on their way, tokens | `GameEngine` |
| `MCGameEngine`, `MCRoomSessions`, `MCRoomTabs`, `MCRoomViews`, `MCClientView`, `MCVoiceGrants` | tables, deals, owners of sockets, symmetry and view for TLC | the module they are named for |
| `OperatorLemmas` | what the distribution and the list operators return: theorems and lemmas the other proofs cite | `RoleDistribution` |
| `RoleDealProofs`, `GameEngineProofs`, `GameEngineSteps`, `RoomSessionsProofs`, `RoomSeatsProofs`, `ClientViewProofs`, `VoiceGrantsProofs` | theorems | the modules they are about |

The engine is used whole, with all its actions, under `ClientView` and
`VoiceGrants`. `RoomSessions` reduces it to what the sessions see: none, lobby,
running or ended, and who is alive.

### The engine

`GameEngine` keeps the class's fields under their names: `phase`, `votes`,
`night_state`, `witchPotions`, `winner`, `phaseTimer`. Differences:

* `players` is split into `role` (never changes after the constructor) and
  `alive` (the set of players whose flag is set).
* `ended` is not a variable: `endGame` is the only place that sets it or sets
  `phase` to `"ended"`, so it is `phase = "ended"`.
* `timers` is the set of callbacks outstanding in the event loop, each named by
  the phase that armed it; `phaseTimer` is the handle the engine keeps. Keeping
  both is what makes a leaked timer visible.
* `live` says the session map still holds the engine. `destroyGameForRoom`
  calls `destroy` and deletes the entry in one synchronous step, after which no
  handler can reach it; a callback still could, which is the point of modelling
  it.
* In a ballot record a missing key is `Undecided` and `null` (a skip) is
  `None`. `seerCheckedId` is only tested for presence and is the flag
  `seerChecked`.
* `witchView` is the victim named in the last `witch_view` message, the one
  message whose content a property needs.

Nicknames, log texts, `phaseEndsAt`, the night counter and the remaining
messages are left out: no code reads them back. A night cannot be told from an
earlier one otherwise than through its record, so no bound on the number of
nights is needed.

Each public method is an action and each action is the whole call. What a method
accepts has a name of its own where the pages are held against it (`CanKill` is
the guard of `WolfKill`, `MayAct` the checks all night actions share). The private
methods are operators from engine state to engine state with the names of the
source (`enterPhase`, `tryAdvancePhase`, `resolveNightAndAdvanceToDay`, ...),
applied in the order the code calls them; `Become` assigns the result. Early
returns are the action's guards. Every input the handlers accept is tried:
each player may call each method at any time, and the guards decide.

`PhaseTimeout(t)` fires an outstanding callback. It passes nothing but the
current state to `onPhaseTimeout`, as the closure in the source does.

Two loops of the source, the tallies of the pack and of the day, keep a running
maximum and a tie flag. They are written as what they compute: `Top` is the
player named by strictly more ballots than any other, and `recomputeWolfTarget`
asks in addition that skips be fewer.

`destroy` may happen at any moment. In the program it comes with the departure
of the last player, which is a matter of the sessions (`NoOrphanGames`); the
engine knows nothing of the room, and its invariants do not depend on when.

### Rooms and sockets

`RoomStore` is the store as a record of two maps; each method is an operator
from the store to the store after the call. A room that does not exist is
`NoRoom`, and `used` remembers the ids ever given out, since `randomUUID` never
repeats one. A room carries its code, host, list of players, the two flags of
the players as sets, and the length of its chat.

`RoomSessions` has one socket object per connection, which is new, open and
closed in that order and never again; a player's several tabs and reconnections
are several sockets of one `Owner`. `seat` is `socket.data.roomId`, `joined` the
Socket.IO rooms. The two differ between an `await socket.join` and its
neighbours, which is why both are kept. `pendingLeaves` is the set of keys of
the map, `graceTimers` counts the timeouts really outstanding: as with the
engine's timer, keeping both makes a lost handle visible.

A handler is a chain of actions, one per stretch between two awaits. `calls`
holds the suspended ones: a label for the place where the handler resumes
(`"counted"`, `"join:added"`, ...) and what it has read and will use after the
await. `leaveCurrentRoom` is called by three handlers and returns to the label
in `then`. An awaited call takes effect where it is called; its answer is
used one action later. `Interleaved` says whether anything else may begin
while a handler is suspended; see [bounds](#bounds-view-symmetry-and-fairness).
The grace timer's callback is the action `GraceTimeout` followed by
`GoneCounted`, `GoneFound` and the end it shares with `leaveCurrentRoom`.

`GameGoesOn` stands for the engine's own steps: it may kill anybody and end the
game, and is deliberately more than the engine does.

When every code is taken, or the bound on ids is used up, `room:create` fails
where `generateJoinCode` gives up (`CreateFails`), after having left the room
the socket was in.

`RoomTabs` puts browser tabs over the sockets. A tab is on the home page, on a
room page or closed; it holds one client socket, which Socket.IO reconnects by
itself and which the server sees as a new one each time. `fetch` is the page's
`socket.once('connect', fetchRoom)`, pending once per mount. `busy` is the
request whose ack the page waits for.

`RoomViews` gives each socket the state `room` of its page: null until the ack of
`room:get`, then changed by the page's listeners (`onState`, `onPlayerJoined`,
`onPlayerLeft`, `onOnlineChanged`) with what the handlers emit. Its next-state
relation is that of `RoomSessions`, every action with what it sends. A page that
loses its transport keeps its copy (`PageLost`: it listens to no `disconnect`), takes
it along to the connection Socket.IO makes for it (`PageConnects`), and fetches
nothing: that connection is in no room, so nothing is sent to it, until the page is
mounted anew (`PageLeft`). A page that is closed without a word counts as open until
its connection is gone or asks for something else. Since the
messages of one socket keep their order, the copy changes when a message is
sent. What a handler emits on return from an await is shown with the step that
awaits, which is right as long as handlers are not interleaved; the module is
checked in that mode.

### The page

`ClientView` has a wire per tab: the messages on their way, in the order in which
they are emitted. In one engine call the broadcasts go first and the personal
messages behind them (`Tell`), because `emitToPlayer` and `onNightResult` await
`fetchSockets` and the broadcast does not. `screen` is the page's state:
`gameState`, `myInfo` (a flag: there is one deal), `lastNightResult`, `seen`,
which records for one property whether the seer's result has been on display, and
`chosen`, the target chosen in the form that is shown. `Panel` and `Offers` are the
render functions of `NightActionPanel` and the vote panel reduced to which form is
shown and which moves its buttons make. A night target is chosen first (`Choose`:
`selected` of `ActionForm`, `target` of `PoisonPicker`) and confirmed afterwards
(`Confirm`): the choice is kept by id while its component stays mounted (`Holder`),
so it outlives the player's place on the list. Each message is taken to be rendered
before the next one arrives. A click
puts a move on its way (`request`); the engine performs or refuses it when it
arrives, which may be after the phase has changed. `Accepts` collects the guards
of the engine's methods and decides which.

`Reload` blanks the page and asks for the snapshot, which
`sendCurrentGameSnapshotToSocket` sends to the first socket of the player the
room lists; `order` is that list. Players without a tab act on the engine
directly. `NewGame` is the next game in the same room on the same open pages.

### Voices

`VoiceGrants` adds to the engine the participants of the voice room, the grants
they have, and the queue of requests per participant. `GameStep` is any step of
the engine with the requests that `onPhaseChanged` makes through `applyGrants` if
the phase has changed. A token lets its holder publish in any phase; `touched` holds the
players whose grant was last set by something else than a change of phase: a
token, the host's test mute, or their own departure in the middle of a phase.

### Slips

Definitions such as `clearPhaseTimer_Leaks` are not used by the specification.
Each is the operator after it with a plausible mistake, and shows that the
property guarding it can fail.

## Runs and what they show

| Run | Instance | Checks |
|---|---|---|
| `engine_pack_night` | 8 players: two wolves, three villagers, seer, witch, guard | type invariant, four invariants, three action properties |
| `engine_implements_game` | 6 players: wolf, three villagers, seer, witch | `ImplementsGame` |
| `engine_day_comes` | the same six, with fairness | `DayKeepsComing` |
| `engine_witch_view` | 8 players | `WitchKnowsTheVictim`, which fails |
| `role_deal` | tables of 1 to 8 | `ShuffleKeepsTheRoles` |
| `rooms_memory` | 2 players with 2 connections each, 2 rooms, 2 codes | type invariant, `OneHost`, `CodesLead`, `SeatsAgree`, `GraceIffAway`, `NoOrphanGames`, `GamesFollowRooms`, `PagesShowTheRoom`, `GamesRunOut` |
| `rooms_late_join` | 2 players, 3 connections, 2 rooms | `LatecomersStayOut`, which fails |
| `tabs_reconnect` | 2 players with a tab each, 3 connections, 1 room | `GraceSparesTheReconnected`, which fails |
| `client_view` | 6 players, two tabs of the seer and one of the witch | type invariant, `ScreensFollowTheEngine`, `EveryMoveIsOffered`, `EveryOfferIsAccepted` |
| `client_seer_result` | 5 players, a tab of the seer | `SeerReadsTheResult`, which fails |
| `client_stale_result` | 5 players, a tab of the seer | `NightsStartClean`, which fails |
| `voice_grants` | 5 players, a wolf and a villager talk | `VoiceFollowsThePhase` |

The runs that fail are explained under [Findings](#findings).

The engine:

* `TimerGuardsPhase`: a running game has exactly one outstanding timeout, its
  own phase's, and the engine holds its handle. Since the callback acts on the
  phase it finds, this is what keeps an old timer from cutting a phase short.
* `NoUnnoticedWin`: a running game is undecided, and the winner of an ended one
  is the one its survivors make. Dawn, hanging and departure all kill, several
  at a time, and each must ask for the verdict.
* `EveryPhaseAwaitsSomeone`: between two calls a night phase has a living actor
  who has not moved, and the day vote a living player who has not skipped. A
  departure is what could break it.
* `OnlyTheLivingVote`: ballots belong to living players, and the victim on
  record is the recount of the ballots of the living wolves.
* `PotionsWorkOnce`: a bottle never comes back; the night of the antidote kills
  nobody; the night of the poison kills its target and at most the pack's
  victim.
* `GuardNeverRepeats`: no player is shielded on two consecutive nights, through
  the renewal of the night record at dusk.
* `OnlyADepartureReopensTheKill`: after the wolves' phase the victim changes
  only in a step in which a wolf leaves.
* `ImplementsGame`: every step of the engine, under the refinement mapping
  `stage <- Stage, poison <- witchPotions.poison`, is a step or a stutter of
  `WerewolfGame`: nights and days alternate, nobody comes back to life, a night
  buries at most one victim of the pack, who is not a wolf, and one of the
  poison, which works once; a day at most one; and the first deciding death
  ends the game with the right winner. A cascade inside one call must be a
  single abstract step, so that, for instance, a departure that closes the
  vote hangs nobody besides. (Liveness is not part of the mapping.)
* `DayKeepsComing`: if the players do nothing, or anything, the timers alone
  bring the table to one day vote after another until the game is over or
  destroyed.
* `ShuffleKeepsTheRoles`: after every swap of the shuffle the pool is a deal
  the distribution prescribes. This is what entitles `GameEngine` to take the
  deal from the set `assignRoles(Players)`.

The rooms. The invariants that begin with `calls = {}` speak of the moments
between two events, when no handler is suspended; within a handler the records
disagree for a while, and have to.

* `OneHost`: a room has exactly one host, flag and `hostId` agree, and it is the
  member who has been there longest, through every departure.
* `CodesLead`: rooms and join codes are inverse to one another, so that a code
  never leads to a room that is gone or to somebody else's.
* `SeatsAgree`: `socket.data.roomId`, the Socket.IO rooms and the members' online
  flags tell the same story, whatever tabs came, went and changed rooms.
* `GraceIffAway`: exactly the members without a socket have a grace timer, one
  each, whose handle is in the map. Nobody is forgotten in a room, and nobody who
  is back is removed by a timer armed earlier.
* `NoOrphanGames`: with the last player, by whatever way, goes the engine. A
  forgotten one would keep a timer and resolve nights nobody plays.
* `GamesFollowRooms`: the living of a running game are members of its room:
  a departure, by whatever way, reaches the engine of the room that is left.
* `PagesShowTheRoom`: every page whose connection is in a room (`Attached`) shows the
  players of that room as the store has them: who, in which order, who is online, and
  the host. Each handler that changes a room has to say so to everybody else in it,
  and a promotion is only in the `room:state` that follows `room:player_left`. It says
  nothing of a page whose connection was lost and made again: that one goes on showing
  what it last knew, and is what finding 3 is about.
* `GamesRunOut`: a running game is neither replaced nor restarted, and nobody
  enters it.

The page:

* `ScreensFollowTheEngine`: a page that has received everything shows the phase,
  the living and the votes as they are. Each handler of the engine has to publish
  what it changes, on each of its paths.
* `EveryMoveIsOffered`: whoever the night waits for can play. On some tab of his he
  can make every move the engine would accept (`Legal`), with the target chosen there
  or another one on its list (`Makes`), however often he reloaded and whichever of his
  tabs the snapshot went to. Three cases are excepted, all
  because the code falls short: a seer's page that still shows the result of an
  earlier game (finding 5); the page of a witch who reloads and gets no second
  `witch_view` (listed as a hazard of `gameSessions.ts:81`), which is why the run lets
  no page of hers be loaded anew; and the antidote after a departure has
  changed the victim the witch was told of (`Reopened`, finding 1).
* `EveryOfferIsAccepted`: an up-to-date page offers nothing the engine refuses,
  but for two rules no list of targets knows, the guard's last protection and the
  other wolves; for the antidote of finding 1; and for a target that was chosen while
  he was on the list and has left it (`Forgotten`), whose confirm button stays enabled.
  The run reaches the last one: a villager is chosen by the seer or the witch and leaves.
  At its table of one wolf `Reopened` is out of reach; the theorems cover tables with
  more.

The voices:

* `VoiceFollowsThePhase`: once LiveKit has carried out the requests sent to it,
  everybody who came in before the phase began speaks and hears as role, life
  and phase allow. Nothing is ever asked twice, so each way into a phase, the end
  of the game included, must have asked for everyone, the dead too. The dead stay
  mute after the game has ended: `computeGrant` looks at the life first, and the
  property says the same.

## Bounds, view, symmetry and fairness

* Tables. Eight is the smallest table with two wolves and every special role,
  which ties, skips within the pack and the departure of one wolf need. Six is
  the smallest with a witch, and allows all night targets and all departures at
  once for the refinement.
* Inputs. `NightTargets`, `DayTargets` and `Quitters` restrict which players a
  night action may name, a day vote may hang, and who may leave; everybody may
  always skip, pass and idle. In `engine_pack_night` wolves and villagers may
  be named at night (so a wolf may be poisoned or shielded), one wolf may be
  hanged, and that wolf, the villagers, the seer and the witch may leave: both
  verdicts occur at dawn, by departure and by hanging, and phases lose their
  actors. In `engine_implements_game` all night targets and departures are
  allowed. `engine_day_comes` leaves out most inputs because liveness admits
  neither view nor symmetry; what it asks depends on phases, roles and lives
  rather than on which villager was named. The specification assumes of the
  bounds only that they name players (`InputsAssumption`), so the proofs cover
  all of them.
* `VIEW Readable` forgets data no code reads any more: ballots outside the day
  vote (cleared on entering it), the night record outside the night except the
  protection that the next dusk carries over, and the victim told to the witch
  once her phase is over.
  `MCRoomViews` forgets the length of the chats, and what pages go on showing over a
  connection that is in no room: nothing else depends on either, since a page that
  asks for a room drops its copy first.
* `Symmetry` is the set of renamings that leave the deal and the three input
  bounds as they are; the engine compares ids for equality only.
* One deal stands for all: the deal is a permutation of player ids. The proofs
  quantify over all deals.
* Rooms. Two players with two connections each are what a second tab, a host's
  departure, an heir in his own grace period and a room emptied by a timer need;
  two rooms, for moving from one into the other while somebody is in both. A
  connection is used once, so a player has either a second tab or a loss and a
  return; all three at once would take three connections each, which the proofs
  cover for the properties they state. `ChatLimit` is 1 instead of 200 and
  `MinPlayers` 2 instead of 4: only whether the limit is reached is read. Rooms,
  codes and the connections of one player are interchangeable. Ids are used up
  after two rooms; from then on `room:create` fails.
* `Interleaved = FALSE` and `MaxCalls = 1` in the runs: the program as it is, with
  every handler finished before the next event. (A client that sends the next room
  request on a socket before the last one is answered could have both begin in one
  turn of the event loop; the pages of this repository never do.) The theorems of
  `RoomSessionsProofs` hold for both values and any `MaxCalls`; those of
  `RoomSeatsProofs` assume `~Interleaved`.
* `tabs_reconnect` and `rooms_late_join` need no more than a lost connection and
  a new one, or a newcomer beside a game of two.
* The page. Six players are the smallest table with a seer and a witch. The seer
  has two tabs, both may reload; the witch has one, which may not, so that nothing is
  excepted of what it must offer; the wolf acts without a tab. One villager may be
  named at night, nobody is hanged, and the same villager and the wolf may leave: so
  targets and actors are lost by night and by day, the victim may leave while the
  witch looks at him, the wolf's departure ends the game, and the next one starts in
  the same room. At most two messages are on their way to a tab (`MaxLag`): enough
  for a personal message to be overtaken.
  `client_seer_result` and `client_stale_result` have one tab and five players.
  The order of the tabs matters only among those of one player.
* The voices. A wolf and a villager, since `computeGrant` asks for nothing but
  life, phase and whether one is a wolf; two requests on the way for each, so a
  grant may be a phase late. The proof removes both bounds, as the proofs about
  the pages remove theirs (`MaxLag`, the tabs, the `Reloaders`).
* Fairness (`FairSpec`, used by the liveness run only): weak fairness of
  `Start`, because `startGameForRoom` calls `start()` right after the
  constructor, and of each `PhaseTimeout`, because `setTimeout` fires unless it
  is cleared. Nothing is assumed of players. The other runs check safety only
  and assume no fairness.
* `CHECK_DEADLOCK FALSE`: an ended or destroyed game has nothing left to do,
  neither has a finished shuffle, and neither have rooms whose connections are
  all closed. That a running game never gets stuck is `DayKeepsComing`.

## Proofs

`GameEngineProofs` proves, for every finite set of players, every set of deals
and every choice of the input bounds, that the specification keeps `TypeOK`,
`TimerGuardsPhase`, `NoUnnoticedWin`, `EveryPhaseAwaitsSomeone` and
`OnlyTheLivingVote` (theorems `TypeCorrect`, `NoTimerLeaks`, `VerdictIsPrompt`,
`NobodyWaitsInVain`, `BallotsAreOfTheLiving`). The assumptions are those named
in `GameEngine`: the players are finitely many and differ from the two null
values, the deals are ones `assignRoles` can produce, and the input bounds name
players.

None of the invariants is inductive alone, and the reason is the cascades:
`WakeAfter` may run through the rest of the night in one call, so the night
phases still to come must be known to be untouched, or a phase could be entered
already done. `IInv` therefore adds to the invariants that

* the records of the phases after the current one are empty (`Unplayed`);
* the pack's ballots come from living wolves, name outsiders and have been
  counted (`PackInOrder`);
* `phaseTimer` names the outstanding timer whenever there is one (`Timed`),
  which is what makes clearing it effective;
* before the start everybody is alive and the deal is one of `Deals`.

The argument follows the methods. `Ready` states what holds while a call is in
flight: the only timer left is one the engine can clear, no winner is set, the
verdict has been asked for after the last death. `Good` states what holds
between calls. Each method of the phase machine turns the first into the second
(`EnterPhaseGood`, `EndOrGood`, `DawnGood`, `WakeAfterGood`, `DuskGood`, ...),
and one lemma per action then checks that the handler's own assignments make
the state ready. Only `Start` needs the deal: by `DealIsOpen` no deal to four
or more players starts decided, from `DistributionFits`, the arithmetic of
`computeRoleDistribution`.

`GameEngineSteps` goes through the same methods once more, now for what a step
does. `TheDeadStayDead` needs no invariant. For the action properties, `EveryStep`
sorts every step of the engine into eight kinds: the start, a step that touches
nothing but ballots, timers or the day's phase, dusk, the guard's protection,
another move of the night, the antidote, the poison, and a departure. Each kind
says what becomes of the living, the night's record and the bottles, with the
cascade already run: `NightFrom`, `DuskFrom` and their lemmas give the outcome of
the cascades, which either go on within the night or bury somebody (`Buried`).
From the kinds follow

* `ShieldMovesOn` and `PotionsKeepTheirPromise`. They need `NightInv` besides
  `IInv`: tonight's protection differs from the one carried over (`Guarded`), and
  no antidote or poison of this night is on record as long as a night phase runs
  (`Sealed`), because the move that uses a bottle ends the night in the same call.
  Without it the dawn after a departure could not be told from the dawn after a
  bottle.
* `TheKillStands`, since only a departure changes the ballots of the pack once its
  phase is over, and only a wolf has one.
* `EngineImplementsGame`: the initial states are the abstract game's, and each
  kind is one of its steps or a stutter. That the victim is not a wolf comes from
  `IInv`; that the game ends exactly with the deciding death comes from what each
  cascade buries and the verdict it asks for.

`RoleDealProofs` proves `ShuffleKeepsTheRoles` for tables of any size: a swap moves
the positions that hold a role by a bijection, so their number stays
(`TheShuffleKeepsTheRoles`). Of the tables it assumes that somebody sits at them
(`DealAssumption`): a game is created for a room, and a room has a player.

`VoiceGrantsProofs` proves `VoiceFollowsThePhase` for every table, deal, set of
talkers and bound on the requests (`VoiceFollowsAlways`). `VoiceInv` says that
what the phase asks for a player is granted, if nothing is on its way, and is the
last request on its way otherwise. Within a phase what it asks for changes only
with the player's death, since by `NobodyComesBack` nobody revives and roles do
not change.

`RoomSessionsProofs` proves `CodesLead`, `GamesRunOut`, `NoOrphanGames` and
`OneTimerEach` (a player has at most one grace timer per room, and the map holds
a handle exactly while it is armed) for any players, rooms, codes and sockets,
whether or not other events run while a handler awaits. Its invariant adds

* that every room named by a seat, a grace timer or a suspended handler has
  existed, and that a room that is gone stays gone (`Grows`), because ids are not
  used again: what makes it harmless that a handler resumes after its room was
  deleted;
* that an engine without a room has a suspended handler that is about to destroy
  it, the one whose `removePlayer` emptied the room: `NoOrphanGames` is this with
  no handler suspended.

The second part of the module turns to the players of a room. `RoomInv` says that
nobody is twice in the list, that its head is the host, and that those online are
in it; `OperatorLemmas` has what appending to such a list (`Put`) and taking
somebody out of it (`TakenOff`) do to its head and its elements. Hence `OneHost`
(`TheEldestIsHost`) and, for all records, the type invariant (`SessionsTyped`). It
also justifies a choice of the model: the code filters lists, the model removes the
first occurrence, and nobody occurs twice.

`RoomSeatsProofs` proves `SeatsAgree`, `GraceIffAway`, `GamesFollowRooms` and
`PagesShowTheRoom` for any number of players, sockets, rooms and codes. The
hypothesis is `~Interleaved`, that a handler is finished before the next event:
with `MemoryRoomStore` the awaits return in the microtasks that follow, and the
properties are false of a program in which other events come in between, as TLC
shows when the constant is `TRUE`. The properties hold between two events, the proof
has to say what holds in the middle of a handler:

* `Settled` is the agreement of the records about one player in one room: he is
  shown online exactly if he has a socket there, and has a pending leave exactly if
  he is a member without one. `SettledInv` claims it of every entry but the one the
  handler in flight is about (`About`).
* `CallKnows` says, label by label, what the handler in flight knows of that entry:
  what it found before its last await and relies on after it. A handler that has
  counted the sockets of a leaving player, for instance, still has the right count,
  and a grace timer that fires finds its player without a socket.
* `TableInv` lets a removed player live on in the game until the handler that
  removed him has told the engine.
* `ConnInv` keeps the open sockets finite, so that counting them to zero means that
  there is none.

For the pages, `RightInv` says of each page whose connection is in a room (`Attached`)
that its copy is the store's, unless the handler in flight has removed somebody from
that room or marked him offline and still has to say so; while such a page shows a
room, its own handler can only be at its end or starting a game (`Quiet`). Pages that
have lost their connection may show anything; what they show reaches no page in a room
because `BlankInv` has every handler that may give a connection its seat called by a
page that shows nothing. `ViewsAreSessions` shows that adding
the pages changes nothing about the sessions, which lends the proof all of the above.

`ClientViewProofs` proves `ViewTypeOK` and `ScreensFollowTheEngine` (`PagesTyped`,
`ScreensKeepUp`), for any players, deal, tabs, reloaders and delay. Its invariant
looks at the wires: the last `game:state` on the way to a page is the game as it
is, or there is none and the page shows the game already, or is blank, as a tab stays
that reloads while its player's snapshot goes to another of his tabs (`Leads`). What
has to be shown of the engine is that each call publishes what it changes (`Covers`): a call that enters a phase publishes that
phase last, and one that stays in its phase changes nothing a page is told of, but
for a vote and a departure, which publish themselves. `EveryStep` says which call
does which. The order of personal messages and the tab that gets the snapshot do not
matter for this.

They matter for the moves on offer. `OffersAreAccepted` and `MovesAreOffered` prove
`EveryOfferIsAccepted` and `EveryMoveIsOffered` for all tables, tabs, reloaders and
delays, with two more parts of the invariant:

* `Attended`: in a game, one of each player's pages has the role and the state or will
  receive both. A reload blanks one page; the snapshot goes to a page of the same player
  that is in the room, itself or another, and makes that one know (`ReloadStep`). That
  there is a first socket to send it to is `LeastOne`, from the induction theorems of
  the library.
* `Briefed`: in the witch's phase, the last message that sets or clears a result
  (`Tellings`) on the way to a page of hers is the `witch_view` she was sent, with the
  victim and the bottles as they were told; or there is none on the way and the page
  shows it, or was loaded anew and shows none. Here the order of the two paths counts:
  the `witch_view` must follow every answer of the call that wakes her, and
  nothing in her phase may clear it: a departure publishes a state that clears no
  result, and whatever she does ends the phase (`WitchActsOnce`, `WitchIsLast`,
  `TimeoutEndsTheNight`). The bottles cannot change before she acts
  (`SameBriefing`); the victim can, which is the exception `Reopened`.

With these, `PanelOfTheGame` and `OffersOfTheGame` say which form an up-to-date page
shows, whom it lists and which buttons it has, and the theorems compare them with the
engine's guards move by move. A choice needs no part of the invariant: one that is on
the list is as good as any, one that is not is `Forgotten`, and `OtherChoice` says that
choosing changes nothing else of a page.

Model-checked only, and staying so:

* `DayKeepsComing`: liveness under fairness is out of the proof system's reach;
* the findings, whose properties are false.

## Findings

1. `engine_witch_view` checks what the witch's panel tells her
   (`NightActionPanel.tsx:201-202`: "Đêm nay sói cắn ..." or "Đêm nay không ai bị
   sói cắn") against the engine, and fails. `handlePlayerLeft` deletes the ballot
   of a departing wolf and recounts the victim in any phase
   (`GameEngine.ts:191-192`), while the witch is told the victim once, when her
   phase begins. Two wolves vote for different players; the tie bites nobody and
   the witch is told so; one wolf leaves the room; the other's ballot is now the
   majority, and that player dies at dawn without the witch having been offered
   the antidote. The reverse also happens: the victim she was told of is replaced
   or dropped. `OnlyADepartureReopensTheKill` shows that this is the only way.
2. `rooms_late_join`: `room:join` means to refuse with "Phòng đã bắt đầu chơi"
   when `room.status` is not `'lobby'` (`handlers.ts:71`). The status is set to
   `'lobby'` at creation (`MemoryRoomStore.ts:33`) and never changes, so a
   newcomer, or somebody who left the game, enters the room of a running game.
   (`GamesRunOut` shows that he does not enter the game.)
3. `tabs_reconnect`: the grace period is meant for whoever does not reconnect
   (comment at `handlers.ts:269`). But only `room:get` and `room:join` cancel the
   timer, and the page sends `room:get` once per mount (`page.tsx:113`). A tab
   that loses its transport and is reconnected by Socket.IO within the 30 seconds
   sits in no room on the server; the timer removes its player, who dies in the
   running game with the page still open.
4. `client_seer_result`: the engine sends the seer's result before it advances
   (`GameEngine.ts:105-110`), but the result waits for `fetchSockets`
   (`gameSessions.ts:37`) and the state of the next phase does not. The page shows
   a result only in the phase `night_seer` (`NightActionPanel.tsx:164`), which it
   has left when the result arrives; the day clears it unseen.
5. `client_stale_result`: the page clears results on states that follow them
   (`page.tsx:82`). If a check lets the game end at once, the last state is
   delivered first and the result after it; the next game's nights find it. A
   player who is the seer again sees the old result in place of the form.

## What is not modelled

* `RedisRoomStore`: no code constructs it and its methods throw; the server uses
  `MemoryRoomStore`.
* Of the voices: `muteAllTracks`, the tracks and the microphone button, which
  repeat what `canPublish` already refuses, and requests that fail or overtake
  each other on their way to LiveKit, which no code here would notice.
* Of the room page: its copy of the chat, the log of the game, layout.
* Of the home page: the login form, and the session with its heartbeat in local
  storage, whose correctness depends on how long a browser delays an interval.
* The interplay of a whole engine with the sessions: each is checked with what
  the other may do to it.
* Authentication, login, bootstrap, deployment: library calls and
  configuration, with no state of their own that changes.
* Sounds, effects and layout of the client: presentation.
* Time itself: durations matter only as "the timer may fire".

## Plan

Modules in the order they are to be written:

1. `RoleDistribution`, `RoleDeal`, `GameEngine`, `WerewolfGame` and their
   proofs: done.
2. `RoomStore`, `RoomSessions`, `RoomTabs`, `RoomViews`: done and proved.
3. `ClientView` and `VoiceGrants`: done and proved.
4. The session heartbeat of the client, with a bound on the delay of an interval.

Theorems still to prove: which parts of `SeatsAgree` and `GraceIffAway` survive
without the hypothesis `~Interleaved`.
