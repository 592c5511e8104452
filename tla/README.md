# TLA+ models of the whiteboard collaboration service

The service keeps whiteboards that several people draw on at the same time. Clients
connect over socket.io; whether a user may join a whiteboard, and its content, come from
the alkemio-server over a RabbitMQ queue. While anybody is in a room the service holds its
whiteboard in memory, merges what the clients broadcast, and saves it now and then. This
directory holds TLA+ models of that behaviour, the configurations that check them with TLC,
and proofs that TLAPS checks. Paths below are relative to the repository; `server.ts`,
`handlers.ts` and so on are under `src/`.

## 1. Inventory

### Components

| Component | State it keeps | Operations | Talks to | Module |
|---|---|---|---|---|
| Room lifecycle, automatic save (`excalidraw-backend/server.ts`) | `snapshots`, `throttledSaveFnMap`, `contributionTrackers`, suspended handlers | CREATE_ROOM, JOIN_ROOM with load, SERVER_BROADCAST, throttled save, DELETE_ROOM | adapter of socket.io (events), integration requests (FETCH, SAVE) | `WhiteboardRoom`, `DurableBoard` |
| Integration requests (`whiteboard.integration.adapter.service.ts`) | per call: attempt, timeout; the queue | `sendWithResponse`: send, time out, retry, answer | RabbitMQ, alkemio-server | `IntegrationRequest`, `AtLeastOnceCall` |
| Collaborator sessions (`handlers.ts`, `server.ts`, `util.ts`) | `socket.data.collaborator`, listeners, `permissionCheckTrackers`, `collaboratorInactivityTrackers` | join, refuse, inactivity, permission check, disconnect | INFO requests, the room | `CollaboratorSession` |
| Inactivity tracker (`server.ts:479-568`) | a timer per socket, one debounce for all | start, stop, reset, fire | every broadcast handler | `InactivityTimer` |
| Snapshot content (`reconcile.ts`, `reconcile.files.ts`, `prepare.content.for.save.ts`) | elements and files | merge, prepare for save | the room | `SceneReconcile` |
| Change events (`util.service.ts:95`, `detect.changes.ts`, `elasticsearch.service.ts`) | `dataToSend`, bulk requests under way, throttle | detect, buffer, send, clear | Elasticsearch | `ChangeEvents` |
| Relay and presence (`handlers.ts`) | `socket.data` times and state | pass on broadcasts, cursors, idle states, user lists | other clients | the relay: in `WhiteboardRoom`; user lists: in `CollaboratorSession` |
| Contribution window (`server.ts:391-437`) | `socket.data.lastContributed`, the interval of the room | gather every window | CONTRIBUTION events | `ContributionWindow` |
| Middlewares, bootstrap, health, Redis factory, configuration, logging, encoding | none over time | | | not modelled |

### What is hard

* **Handlers suspend.** Each `await` on a queue request or a timer lets any other handler run;
  what a handler read before may be wrong after. DELETE_ROOM (`server.ts:201-234`) and
  `loadSnapshot` (`server.ts:753-767`) act after an await on state they looked at before it, and so does
  the join that counts the collaborators (`handlers.ts:65-83`).
* **Requests fail and linger.** A request that timed out is still in the queue and may be
  executed after a newer one; an error of FETCH is turned into an empty whiteboard.
* **Timers race events.** lodash's throttle and debounce, the inactivity timers and the
  permission checks meet joins, downgrades and disconnections in any order.
* **The process may die** with what was not saved; two ways are in the code itself: a
  payload without elements (`server.ts:339-343`) and a rejected bulk request
  (`elasticsearch.service.ts:93`: nobody catches the promise the throttled function returns).

### What makes each part correct

* Room: no accepted edit is lost; a dirty room always has a save coming; an empty room is
  left alone; every initialised member has seen what the snapshot has; handlers end.
* Requests: at most one return, success only for its own answer, always a return.
* Sessions: who takes a place under the limit found one free; who draws is timed, watched and was told so; user lists are right;
  revoked access ends.
* Inactivity: nobody overstays; nobody active is downgraded.
* Contributions: who drew is reported, once and in time.
* Content: the merge does not depend on order; images keep their files.
* Change events: they tell what happened to the scene; each is sent, once.

PROJECT.json lists each hazard at its line, with the properties about it.

## 2. Modules and the code

The models share one view of the program: **a step is what the event loop runs between two
real suspension points** (an answer of the queue, a timer, a message of a client, an answer
of Elasticsearch). Awaits on the in-memory socket.io adapter (`fetchSockets`, `join`,
`serverCount`) end within the turn, so that only handlers of the same turn, which are those whose
answers came in one chunk of the queue's connection, can interleave at them. For a join that
decides who gets a place (`handlers.ts:65-118`), so `CollaboratorSession` splits it there, and
lets any other handler run in between, which is more than the adapter allows. `WhiteboardRoom`
and `ContributionWindow` take these awaits as part of a step: that a join slips in between the
emptiness check of DELETE_ROOM and its next lines (`server.ts:206-227`), because the answers that put the
last socket out and let the next one in came in one chunk, is not modelled there.

### WhiteboardRoom

One room; every Map is keyed by the room, so rooms do not interact. `members` are the
sockets in the room, `pc`/`answer` the JOIN_ROOM handler of each socket, `snapshot`,
`throttle`, `tracker` the Maps' entries, `saves` the SAVE requests under way, `closers` the
suspended DELETE_ROOM handlers (several, because the room may be opened and closed again
while one awaits), `db` and `late` the database and SAVE requests whose callers gave up.

| Action | Code |
|---|---|
| `Join` | JOIN_ROOM after the authorisation, CREATE_ROOM for the first (`OpenRoom`) |
| `LoadForGone` | the same handler when its socket is gone already and the load starts anyway |
| `FetchAnswered`, `FetchSucceeds`, `FetchFails` | `loadSnapshot`, `fetchContentFromDbOrEmpty` |
| `Broadcast` | SERVER_BROADCAST: relay, merge, `queueSave` |
| `ThrottleFires`, `QueueOverdueSave` | the throttled save, by its timer or inside a call that finds the timer overdue |
| `Leave` | DISCONNECT, and DELETE_ROOM up to its first await for the last member (`CloseRoom`) |
| `SaveApplied`, `AutoSaveReturns`, `FlushReturns`, `FinalSaveReturns`, `LateSave` | `saveRoom` and who awaits it |
| `Crash` | the process dies and restarts |

Content is a set of edits and merging is union. `SceneReconcile` justifies that: its theorem
`OrderDoesNotMatter` says the merged scene is determined by the *set* of states received.
Deleted elements that the last save drops are not represented here.
History variables (`seen`, `accepted`, `unsaved`, `fault`) only serve properties. `fault`
names the first event after which an edit may be missing: `emptyLoad` (a FETCH failed on a
stored whiteboard), `staleLoad` (an old answer overwrote a newer snapshot), `tornDown` (a closing handler
dropped the snapshot of a reopened room), `unsavedClose` (the last save failed), `staleSave`
(an older SAVE was executed after a newer one), `crash`. `NothingLost` says that list is
complete: it does not say that these events do not happen, and `ImplementsBoard` is void once one has.

`DurableBoard` is the abstract promise: one board, whoever is shown it is shown all of it and
gets each later stroke, storage follows behind and is relied upon alone only when it has
everything. `WhiteboardRoom` implements it (`ImplementsBoard`) with the board mapped to
`accepted`, the storage to `db`, a client's view to what an initialised member was sent, and the
broken promise to `fault # "none"`. So a step that merges without relaying, relays to some,
stores something older or drops a snapshot that is not stored is a fault or does not exist,
also when it happens in a handler whose room has been closed and opened meanwhile. A room whose
snapshot was loaded for a socket that is gone keeps it without members; the board allows that.

Bounds: `SaveSlots` and `CloserSlots` limit requests and handlers under way at one time,
`MaxLate` the lingering copies. Misbehaviours of the environment are a constant set, so
that liveness is checked without them.

### IntegrationRequest and AtLeastOnceCall

One call of `sendWithResponse`. Each attempt publishes a message of its own; after a timeout
the message stays in the queue, the server may still execute it, and its reply finds no
listener. The retry operator ends the call on failure number `Retries` (1 if that is 0).
`AtLeastOnceCall` is the abstract promise: at most one return, success implies at least one
execution, executions may come late. `IntegrationRequest` implements it (`ImplementsCall`,
checked and proved). It is also what `WhiteboardRoom` assumes of SAVE and FETCH: an answer
only after the server acted, an error at any time, copies left behind.

### CollaboratorSession

`join` and `check` are the JOIN_ROOM handler and the permission check of each socket, with
the INFO request of each as a suspension point whose answer may be old when it is used. A join
goes on in steps, one for each await on the adapter:

| Action | Code |
|---|---|
| `JoinRoom`, `JoinAnswered`, `Refuse` | the INFO request and its answer (`server.ts:271-297`) |
| `CountOccupants` | `fetchSockets` lists the room (`handlers.ts:65-67`) |
| `Admit` | which of them are collaborators, the flag, COLLABORATOR_MODE, `socket.join` (`handlers.ts:67-109`) |
| `ListUsers` | the room is listed and ROOM_USER_CHANGE sent (`handlers.ts:109-118`) |
| `Loaded` | after the load: check, timer and listener (`server.ts:303-313`) |

`found` is the list that `CountOccupants` got, kept as history once it was used. The filter on
the flag (`Occupants`) reads `socket.data` when the list arrives, so it is part of `Admit`. `ListUsers`
takes and sends its list in one step, because lists arrive in the order they were asked for: the last
one sent is the last one taken.

`collaborator`, `listens`, `timed`, `watched` are the flag, the listener and the two tracker
Maps; `mode` is what the client was last told. Refusals close the connection with the
listeners removed first, so trackers stay behind, as in `closeConnectionWithError`. The
permission check is on (its interval is positive). `shown` is the last ROOM_USER_CHANGE list of each
member (`Announce`); nobody is told when a socket is put out with an error (`expelled`
remembers those), so `PresenceUnlessExpelled` says what the lists are worth. `Rejoins` decides whether a member may
send JOIN_ROOM again. A load may end at once (the snapshot is in memory) or at any later time.

Two joins that count before either has joined can both take the last place: `LimitHolds`
fails (`MCSessionLimit`). What holds is `WritersFoundAPlace`: of the collaborators that a collaborator
found when it counted, fewer than the limit are left. So each one beyond the limit is there
because others were between their count and their join.

### InactivityTimer

Discrete time. `age` is a timer's time, `idle` the real inactivity, `quiet` and `timer` the
state of lodash's debounce with a leading edge only: a call gets through only after `Wait`
quiet ticks with no debounce timer left. `Tick` waits for due timers, and other events may
come before a due timer in the same instant. The debounce wait of the code is the constant
`resetCollaboratorModeDebounceWait`; the configured `reset_collaborator_mode_debounce` is not read.

### ContributionWindow

A SERVER_BROADCAST restarts the inactivity timer and notes `lastContributed`; two timers read
the two notes. The module therefore extends `InactivityTimer` and runs both on one clock.
`ago` is the age of the note, `since` the age of the room's interval. `TimePasses` may serve
the interval up to `MaxLag` ticks late, and the next period starts when the late one really
fired, as Node's promise interval does (the `for await` body has no real suspension point).

| Action | Code |
|---|---|
| `Enter`, `Attach` | connection and JOIN_ROOM; the first member starts the interval (CREATE_ROOM), an `Attach` of a collaborator starts the timer |
| `Contribute`, `Point` | SERVER_BROADCAST, SERVER_VOLATILE_BROADCAST |
| `Revoke`, `Silence` | permission check and inactivity: no more broadcasts, still a member |
| `Disconnect`, `Expel` | DISCONNECT; `closeConnectionWithError`, which leaves the inactivity timer behind |
| `Gather` | `gatherContributions` |

`credit` is history: a member's last contribution is owed, counted, counted twice or missed.
What somebody drew who left before the report is never reported; the model has that
(`Forget`), and no property promises otherwise. That the interval exists exactly while there
are members is `TrackedIffOpen` of `WhiteboardRoom`.

### SceneReconcile

Elements are records of id, version, nonce, deletion and file; a scene is a set of them.
`ReconcileElements`, `ReconcileFiles`, `PrepareContentForSave` are the pure functions of the
code, the actions apply them. The order by fractional index is left out. A state of an element is
identified by version and nonce (`EditsAssumption`), which is how clients produce them.

### ChangeEvents

`Inserted`, `Updated`, `Removed` are `detectChanges`; `Told` replays an event on the looks
known from earlier events (`view`), so that the log can be compared with the snapshot.
`buffer`, `bulks`, `throttle` are the sender: a throttle with both edges, a copy of the
buffer in each bulk request, and the buffer cleared when an answer comes. A rejected request
ends the process. The mode is `lite` or `full` (the default is `none`) and a client is
configured; without one every event is thrown away at once. Rooms without a snapshot, whose
broadcasts are all reported as inserted, are not included.

## 3. Runs

| Run | Instance | Asks |
|---|---|---|
| `MCWhiteboardRoom` | 2 sockets, 2 edits, 2 save slots, 2 closers, 1 late copy, all misbehaviours; symmetry; 640 541 states | the room's invariants under every failure, and that it is a durable board until the first fault |
| `MCRoomLive` | 2 sockets, a stored edit and one new, no misbehaviour | joins and closes end, edits reach the database |
| `MCRoomTeardown` (violation) | as above | "still active ... do nothing here" (`server.ts:209-211`) |
| `MCIntegrationRequest` | 3 attempts, as configured | the request's invariants, the refinement, that it returns |
| `MCIntegrationRetries` (violation) | the same | "How many times the requests to retry" (`config.yml:58`) |
| `MCCollaboratorSession` | 2 sockets, limit 1, access changes freely; 156 627 states | the session's invariants, the user lists, that revoked access ends |
| `MCSessionLimit` (violation) | without rejoins | "the user can't update if the collaborator limit has been reached" (`handlers.ts:82`): no more collaborators than the limit |
| `MCSessionRejoin` (violation) | with rejoins | the same sentence: who is refused cannot draw |
| `MCContributionWindow` | 2 sockets, inactivity 6, wait 2, window 3, lag 2; symmetry; 1 002 908 states | the timers (nobody overstays, exact while sparse) and the windows (settled in time, what is missed, what is counted twice) |
| `MCInactivityReset` (violation) | the timers alone | inactivity as documented (`README.md:25-26`, `config.yml:75-80`) |
| `MCSceneReconcile` | a shape changed concurrently and deleted, an image deleted and brought back | the merge and what is saved |
| `MCChangeEvents` | 2 elements, 2 looks, 2 versions, 2 bulk requests, 2 events | the log and its buffer |

**Why the bounds are enough.** Two sockets give every race the code has between a leaver, a
joiner and a bystander; two closers let a room close, reopen and close while the first
handler is suspended; two save slots let an automatic save overlap a final one, and one late copy
of an older save is enough to overtake. For two sockets and a limit of one, both competing
for the last place, all orders of INFO answers, counts and joins occur. Inactivity 6 with wait 2 leaves room
for several debounce windows in one inactivity period, and is beyond a late window, as configured
(`config.yml:71, 76`); window 3 with lag 2 lets a window be on time, one and two ticks late. Three attempts are the configured number. Where theorems exist they
remove these bounds (section 5).

**Violations.** Each run contradicts a sentence of the repository's own documents or
comments:
1. *Teardown*: the emptiness of the room is checked before the awaits, the snapshot deleted after.
2. *Retries*: `retryCount === this.retries` gives up one retry early.
3. *Limit*: the collaborators are counted before an await, and the socket is among them only after it.
4. *Rejoin*: a member counts itself, loses the flag but not the listener; the permission
   check then never takes the listener away, since it looks at the flag.
5. *Inactivity*: one debounce for all sockets drops the resets of active users.

A sixth disagreement is stated as a theorem instead of a run: `fetchContentFromDbOrEmpty` is said to give
an empty content "if not found" (`util.service.ts:73`), and any error of FETCH makes it do so (`FetchFails`), after
which a save stores it. `EmptyLoadIsRecorded` says that each such load is a recorded fault.

**Deadlock** is checked in all runs but those of `IntegrationRequest`, where the call really ends.

## 4. Fairness

Weak fairness only, of steps whose guards are given in the proof modules (section 5). Assumed: timers fire (`ThrottleFires`, `PermissionTick`, `Timeout`,
`Resubscribe`), since Node serves due timers; a call on the queue returns
(`IntegrationRequest` shows that it does whatever the broker loses, from the fairness of its own timers); in
`MCRoomLive` the server also answers, because that run asks what happens with a working
integration; a bulk request to Elasticsearch ends, by an answer or an error, within the client's timeout.
Nothing is assumed of users: they need not come, draw, be idle or leave. `AccessChanges` has
no fairness; the properties `RevokedIsOut` and `RevokedStopsWriting` are about access that
stays revoked. `RevokedIsOut` includes the checks that a join starts for a socket that is gone:
they too end once access is gone. The windows need no fairness: `MaxLag` bounds how late Node
serves the interval, and the properties are about what has happened by then.

## 5. Proofs

Each theorem holds for all values of the constants within the named assumptions of its module; one that
needs more of them (`~Rejoins`, `SaveSlots # {}`, ...) says so in its statement.

* `WhiteboardRoomProofs`: `Control` is the inductive invariant: `TypeOK`, `TrackedIffOpen`,
  `EmptyRoomIsQuiet` and who awaits what: two closing handlers never await the same request
  (`AwaitsItsOwn`), and only the handler that closes a room nobody has entered since awaits
  what the present throttled function remembers (`AwaitsLast`). `TypeOK` alone is not
  inductive: a return frees a slot, and only the two awaiting parts say that no other handler
  awaits it.
* `WhiteboardRoomDurability`: `Storage` is inductive on top of `Control`: a handler nobody has
  overtaken closes an empty room; nothing stored, loaded or sent was invented; and, while
  `fault = "none"`, the accepted edits are in the snapshot or, without one, in the database, the
  last save of such a handler holds them all, what the server applied of a request under way
  is still stored, and initialised members have seen the snapshot. It gives
  `NothingLost` and `ActiveHasSeenAll`; `DirtyIsScheduled` has an induction of its own. On the same
  invariant rests `RoomImplementsBoard`, the refinement of `DurableBoard`: until the first fault
  the snapshot is the board (`OneBoard`), a load gives the stored board only when it is the whole one
  (`StorageGivesOneBoard`), and a fault stays (`FaultStays`); each step is then a step of the board
  or leaves it alone (`StepImplementsBoard`).
* `IntegrationRequestProofs`: `Sound` (messages, replies and executions belong to attempts made),
  then the step simulation of `AtLeastOnceCall`.
* `CollaboratorSessionProofs`: `Session` joins type, timing, watching (an unwatched member is
  still in its first join) and honesty (what a client was told in each phase of its join).
  `WritersFoundPlaces` is a counting argument over finite sets on top of it: whom a socket found and who has
  left the room is gone for good (`FoundStay`), so nobody whom it found becomes a collaborator later, and what
  `Admit` adds to the room nobody has found. `LimitKeptAlone` has the limit itself, under the condition
  that no two joins of users who may update are between their count and their join at the same time
  (`CountsAlone`): then nobody became a collaborator since the count (`CountIsCurrent`). `PresenceIsExact` is inductive on `Session`.
* `InactivityTimerProofs`: `Timed`: only an action restarts a timer, so a user is never idle for
  longer than the timer's age, which `TypeOK` bounds by `Inactivity`.
* `ContributionWindowProofs`: `WindowImplementsTimer` says that the composition is a behaviour of the
  timers, so the theorems of `InactivityTimerProofs` hold of it. `Account` is the inductive
  invariant: the type and `Standing`, which says for each `credit` how the contribution lies to the last report
  (owed ones are not older, counted ones not younger). `SettledInTime` follows, and the
  action properties are read off `Gather` with it. The constants are any positive
  window, any lag and any inactivity time.
* `SceneReconcileProofs`: `SupersedesOrder` (the relation is a strict order per element) and
  `ReconcileCovers` (a merge keeps a superseding state of everything) give `Merged`, that the
  snapshot is the newest of what was received.
* `ChangeEventsProofs`: `Sending` is inductive for the buffer: besides the checked properties, what
  waits while a request is under way is in that request or came too late for it
  (`CrowdedIsExcused`), which is what makes clearing the whole buffer on an answer accountable.
  `Telling` is inductive for what the events say: a version is one state of an element
  (`OneStatePerVersion`), so a fresh broadcast is told exactly as the merge takes it
  (`FreshBroadcastIsTold`).

### Liveness

The prover cannot evaluate ENABLED, so the theorems do not mention `WF_vars`. They state weak
fairness as `Serves(guard, step) == []<>~guard \/ []<><<step>>_vars`: a step whose guard stays
true is taken. With a guard under which the step is enabled this follows from `WF_vars(step)`,
and the guards are read off the actions: for example `CanFire` says that the throttle fires unless
it has to save and every slot is taken, `Replied` that a reply to a save is served when no handler
awaits it. No guard is wider than the step's own enabling condition, so the hypotheses
(`HandlersServed`, `SaversServed`, ...) ask no more of the code than `FairSpec` does. That step,
from `WF_vars` to `Serves`, is by inspection and not proved. The arguments:

* `JoinsEnd`, `ClosesEnd`: a load and a closing handler go on only when their own request does
  (`LoadMoves`, `CloserMoves`, `SaveMoves`). A handler keeps one slot from its flush to its final save
  (`ClosingMoves`), which is where `AwaitsItsOwn` is needed: another handler or an automatic
  save would take its reply. They hold under every set of misbehaviours, where the run `MCRoomLive` has none.
* `UnsavedIsRead`: while something stays unsaved no request starts, so a slot that is free stays
  free (`UnsavedMoves`); a closing handler ends by saving; without one, replies free a slot and then
  the throttle fires. It needs `SaveSlots # {}`.
* `EditsReachStorage`: an accepted edit is stored, carried by a request not yet served, or unsaved
  (`ReadIsCarried`, inductive on top of `Storage` while no SAVE call returns an error). It covers timeouts,
  failing loads and crashes besides the run. A SAVE error is excluded because
  nothing saves again until the next broadcast or the close. From the same invariant:
  `SettledRoomIsStored`, a database that equals what was drawn whenever no save is owed.
* `RevokedGetOut`: after the revocation the answers under way are used up (`JoinMoves`, `CheckMoves`), a
  member is watched, and a watched socket's next check closes it (`GoneMoves`). `RevokedFallSilent`
  is the same for drawing, for clients that join once: its region is closed only because then who draws
  in a room is its collaborator (`DrawersCollaborate`), which is exactly what a rejoin breaks.
* `BufferIsDrained`: an answer to any bulk request clears the buffer (`AnswersClear`), and with
  none under way the throttle sends (`ThrottleSends`). It needs `Bulks # {}`.
* `CallsReturn`: attempt by attempt, for up to the three retries of `config.yml:59`. For an
  arbitrary number this would be an induction whose steps are temporal, which the provers do not do.

### Around the violations

Five theorems say how far the documented promises hold that section 3 refutes: `LimitKeptAlone` (the
limit holds while counts do not overlap), `RefusedStaySilent` (it does silence clients that join
once), `EmptyLoadIsRecorded` (a stored whiteboard is loaded as an empty one only with a recorded
fault), `TearDownIsRecorded` (a snapshot in use goes only with a crash or an overtaken handler, and
both are recorded faults) and `SparseDowngradesAreDue` (only dropped debounce calls downgrade an
active user).
Two more are read off the invariants: `MembersSeeTheSame`
(before any fault all initialised members were sent the same edits) and `MergesConverge` (the merge is
commutative, associative and idempotent, so that the same broadcasts give the same scene in any
order and grouping).

Only model-checked: `CallReturns` for more than three retries, and the violations. No module uses recursion.

## 6. Not modelled

* Order of elements by fractional index, whose comparator is not an order when an index is
  missing. It is stored and sent, but no decision of the service depends on it.
* Volatile broadcasts' payloads and idle states: passed on; `socket.data.state` and
  `lastPresence` are written and never read. CONTENT_MODIFIED: an event without state, once per connection.
* Duplicate listeners of a collaborator that joins again (`server.ts:313`): the merge is
  idempotent (`NewestWins`); a broadcast relayed and reported twice is not covered.
* A file's URL replaced by late inline data (`reconcile.files.ts:17`), tombstones dropped by the last
  save (`server.ts:736`), and members disconnected by a queue outage
  (`whiteboard.integration.adapter.service.ts:101`): the models have this behaviour, and no property forbids it.
* Several instances: the Redis adapter factory exists but is not used, so the code's branches
  for rooms on other instances are never taken, and every await on the adapter ends within the turn (section 2).
* A client that broadcasts to a room it is not in: SERVER_BROADCAST takes the room from the message
  (`server.ts:313`), and `WhiteboardRoom` lets only members of the room broadcast to it.
* Connection middlewares: they fill `socket.data` once, before any event of the socket; their
  result is the initial state of `CollaboratorSession` and `ContributionWindow`.
* Start-up, health endpoint (a request with its own timeout, no state), configuration, logging,
  encoding: no behaviour over time.

## 7. What would come next

1. A composition of `CollaboratorSession` with `WhiteboardRoom`: who broadcasts is who listens,
   the load suspends the join, a rejoining member loads again. Each alone lets the other do more than
   the code does (`WhiteboardRoom` lets any initialised member broadcast; `CollaboratorSession` lets a
   load take any time), so that neither relies on the other's guards; the product of the
   two state spaces needs a smaller instance of each.
2. The order of elements: `orderByFractionalIndex` as a relation on finite sets, and that the
   order is the same for all merges when every element has an index.
