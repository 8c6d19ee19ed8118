# matrix-minecraft: specifications, model checks and proofs

TLA+ models of the matrix-minecraft bridge (`src/pkg/connector`, Go) and of its
companion plugin (`src/plugin`, Java), with the TLC configurations that check
them and the TLAPS proofs of their central invariants. `PROJECT.json` is the
index: which definition stands for which lines, what each run checks, which
hazard each property is for.

## The system

The bridge is one process. One `MCClient` per admin login finds the labelled
Docker containers and keeps one `mcServer` per container. Each `mcServer` has an
event source goroutine (the plugin's event stream, or the container's log), a
bounded channel `lineCh`, a `receiveLoop` goroutine that takes lines from it and
queues them to Matrix, and an RCON client for the other direction. The plugin
runs inside the Minecraft server.

| Component | State | Operations | Hard parts |
|---|---|---|---|
| Event server (`EventServer.java`) | `seq`, history (256), clients (8), a queue per client (1024) | `publish`, `handleEvents`, `register`, `stop` | publishing thread against handler threads; full queues; handlers of dead connections; restart |
| Plugin stream (`pluginstream.go`) | last event id, half-read event, connection, backoff | `Start`, `stream`, `dispatch` | cut connections, idle timer, replay on reconnect, cancellation while blocked |
| Log tailer (`logtailer.go`) | log stream, copier goroutine, pipe | `Start`, `tail` | unbuffered pipe, full channel, streams that end, cancellation |
| Server registry (`client.go`) | `servers`, `ctx`/`cancel`, watcher, the rooms' names | `Connect`, `Disconnect`, `discoverAll`, `startServer`, `updatePortalInfo`, `stopServer`, `watchDockerEvents` | calls racing over the map, Docker events lost, failing requests, long RCON dials inside the watcher, names read before they are written |
| RCON client (`rcon.go`) | `conn` under a mutex | `Connect`, `Disconnect`, `IsConnected`, `execute` | dialling outside the mutex, server restarts, lost replies |
| Event source choice (`client.go`) | none | `chooseEventSource` | probes, fallback |
| Chat events (`GameEventListener.java`, `logtailer.go`, `pluginstream.go`, `client.go`) | none | listener handlers, `parseLine`, `toChatLine`, `handleChatLine` | two sources that must come to the same; players who type what the game prints |
| Ghost avatars (`client.go`, `avatar.go`) | stored tag and fetch time, uploaded avatar | `GetUserInfo`, `Fetch` | two results of one call, one of which can fail; calls for one ghost side by side; restarts under another avatar service |
| Connector (`connector.go`) | login rows, network icon, avatars of spaces | `Start`, `LoadUserLogin`, `updateSpaceAvatar` | clean-up that can fail in part, spaces made lazily, or by an older version, or under another configuration |
| Login (`login.go`) | a login row | `SubmitUserInput` | login while clients connect, `NewLogin` that fails |
| Configuration, main program | none | | |

How they interact: `Connect` and the watcher call `startServer`, which dials RCON,
starts the event source and `receiveLoop`, and makes the room. `stopServer`,
`Disconnect` and a new `Connect` cancel contexts; the goroutines of a server see
it at their next `select`. `HandleMatrixMessage` finds the server in the map and
uses its RCON client. The plugin and the bridge talk over one HTTP response.
bridgev2 asks `GetUserInfo` for a ghost on every message of the player, from the
goroutine of whichever server the message came from.

What makes each of them correct:

* event server and plugin stream: events reach Matrix in order, once, with no
  gap the history could close; slots are given back; the stream goes on after
  every kind of fault and ends on cancellation;
* log tailer: lines in order, once, none skipped that its stream carried; it
  retries and it ends;
* registry: whatever receives can be stopped; what Docker reported is acted
  upon; the room has the name its container's label gives; calls end;
* RCON client: one command at a time on a connection nobody closes under it; a
  message reported as delivered was shown, once; calls return;
* ghost avatars: the stored tag names the avatar that is shown, so that
  "unchanged" may be believed; the avatar follows the skin; lookups are hourly;
* connector: a failing request costs the clean-up that row and no other; a space
  has the configured icon whoever makes it, and when;
* chat events: both sources show the same, and what a player types stays chat.

## Modules

| Module | Stands for |
|---|---|
| `EventIds` | event ids `boot-seq` and their order |
| `EventFeed` | abstract: what an event source promises to the rest of the bridge |
| `EventServer` | the plugin's event server, its handler threads, and the connection |
| `PluginStream` | extends `EventServer` with `Start`/`stream`/`dispatch`, `lineCh` and `receiveLoop`; all stream properties and the inductive invariant |
| `LogTailer` | `Start`/`tail`, the copier, the pipe, `lineCh`, `receiveLoop`, the container |
| `MCClient` | the registry: calls of `Connect`, their watchers, `Disconnect`, Docker, the names of the rooms |
| `RCONClient` | one RCON client and the calls that share it |
| `GhostAvatar` | one ghost: `GetUserInfo`, `AvatarFetcher`, bridgev2's update, the player's skin |
| `Connector` | extends `GhostAvatar` with the life of the process: `Start`, clean-up, logins, `Connect`, spaces, ends and restarts |
| `ChatEvents` | operators without state: from a happening in the game to the Matrix message, through both sources |
| `MCPluginStream`, `MCLogTailer`, `MCMCClient`, `MCRCONClient` | instances for TLC |
| `MCBridge` | the instance of `Connector`, and the laws of `ChatEvents` as invariants |
| `MCStreamReplay` | `PluginStream` with one history variable, for the replay question |
| `PluginStream_proofs`, `LogTailer_proofs`, `MCClient_proofs`, `RCONClient_proofs`, `Connector_proofs`, `ChatEvents_proofs` | the theorems about each |
| `StreamGap_proofs` | extends `PluginStream_proofs`: no gap in the stream, and that it implements `EventFeed` |
| `RoomName_proofs` | extends `MCClient_proofs`: the names of the rooms |

### Stream (`EventServer`, `PluginStream`)

`publish` and `register` are synchronized in the code and one step each here.
`handleEvents` is cut at every point where something else can run: size check,
registration, headers, overflow check, poll, write. `handler[c]` says where the
handler of request `c` stands. The connection is `wire` (complete events in
flight), `torn` (an event whose blank line was cut off) and `up`. A request the
bridge has left keeps its handler until a write fails (`WriteFails`), which is
how it occupies a client slot. On the bridge's side `bpc` is the program counter
of `Start` and `stream`; `partial` is the event between its first line and its
blank line; `lastID` moves in the same step as the channel send, because no other
goroutine reads it. The idle timer may fire when the stream is silent and also
while `dispatch` waits for room, since only a scanned line resets it. Ids are
records; a boot is a number, as boot ids are start times.

`EventFeed` is the abstract promise. `PluginStream!Feed` instantiates it with
`published <- seq`, `delivered <- posted`, `stopped <- ctxDone`; connections,
queues, history and channel disappear in the mapping.

### Log tailer (`LogTailer`)

A line is its number in the console's output; `log` keeps what it is (event,
noise, over 1 MB) and which stream carried it. `copier` is the `StdCopy`
goroutine; `"write"` means it is inside `pw.Write`. `pc = "drain"` is the deferred
`wg.Wait()`. A failed inspect makes `mux` true, as in the code.

The tailer implements `EventFeed` too (`LogTailer!Feed`), with a log stream in the
place of a life of the plugin: an event that a stream carried is numbered by the
stream and by its place among the stream's events (`EventId`). The tailer keeps no
history, so `Retention` is larger than any stream and nothing may be passed over
between two events of one stream. What the console prints while no stream is open
is in no stream; that is the difference between the two sources.

### Registry (`MCClient`)

Each call of `Connect` is a process `t` that goes through discovery and then is
the watcher of its context. Steps end at each lock, each blocking request and each
unsynchronised write (`c.ctx`, `c.cancel`). Requests of the watcher carry its
context and fail when it is cancelled; those of `Connect` carry the caller's.
`srv` keeps every `mcServer` ever made, so one that has left the map can still be
dialled by a call that holds it. `found` is the list made at the beginning of a
discovery and used at its end. An event stream that breaks still delivers what
was sent, then the watcher waits and subscribes again, without a discovery.
RCON is open or closed here; its inside is `RCONClient`.

A container carries a `title`, what its name label says; a container that comes
back may have been made anew with another label. The listing of a discovery takes
the titles with it (`todo`), `startServer` writes them into the `mcServer`, and
`GetChatInfo` reads them from the map again (`ChatInfo`) before `CreateMatrixRoom`
(`Create`) and `UpdateInfo` (`Push`) write the room. Between the two another call
or `Disconnect` can run. `call[t].info` is what was read. A tracked server whose
title changed goes through `updatePortalInfo` (`Refresh`, then `Push`).

### RCON (`RCONClient`)

Each call has a role: a Matrix message (ask, reconnect, send), a reconnect by
discovery, a first connect, a stop. `IsConnected`, the assignment of `r.conn` and
`Disconnect` are single steps that need a free mutex; a command holds the mutex
from `Lock` to its reply. A connection belongs to one boot of the game server.
A lost reply or a failed write closes the connection.

### Ghost and process (`GhostAvatar`, `Connector`)

An image is the skin it was rendered from, and a tag says who gave it (texture
server or render service) and for which skin. `ghost` is what bridgev2 holds in
memory, `db` its row, `shown` what the Matrix profile shows. A call `t` of
`GetUserInfo` asks with the tag it found, downloads, and returns; bridgev2's
`UpdateInfo` then uploads the avatar (`Upload`), runs `ExtraUpdates` and saves
(`Store`). These are separate steps, because calls of several servers' goroutines
interleave there and the process can end there. An upload for an avatar ID
(made from the tag) that is set already is skipped, as bridgev2 does; that
bridgev2 runs `ExtraUpdates` also after a failed upload is modelled from how
`GetUserInfo` relies on it and marked external.

Four mishaps can separate the stored tag from the shown avatar: an upload that
fails, two calls with different tags that overlap between upload and store, an
end of the process in that place, and a service without ETags. `mishap` records
that one has happened. README.md:271 ("re-uploaded only when the skin changes")
and connector.go:199-201 hold without them, and with them not always.

`answers` counts the lookups the servers have answered in this hour. A player
without a texture (default skin, or a Bedrock skin GeyserMC has not seen) is an
error to `Fetch` although the servers answered, and `GetUserInfo` stores nothing
of an error (`NoTexture`): such a player is looked up again on every message,
which README.md:271 ("re-checked hourly") does not say. `skinless` records that
this happened in the current hour, and `AskedHourly` names it among its
exceptions; without it TLC refutes the property: the next message asks again.

`Connector` puts that ghost into a process that starts (`Start` chooses the
fetcher from `avatar_api_url`), sweeps legacy rows user by user (`CleanUser`),
loads the logins, connects each client and may end at any time (`Stop`) and start
again under another configuration. A request of the clean-up may fail for the list
of users, for the list of a user's rows, or for any set of rows; `unswept` holds
the rows a request failed for. An admin may log in at any time, also while earlier
Connects are under way (`Login`), and `NewLogin` may fail (`LoginFails`), so
`connect[u][i]` says where the `i`-th Connect for `u` stands: `discover`, then
`icon`, where `updateSpaceAvatar` runs, then `done`. `space[u]` is the avatar of a
user's space; bridgev2 makes the space with the first portal (`PortalMade`), in a
discovery or much later, when the watcher starts a server.

### Chat events (`ChatEvents`)

A text is a sequence of tokens: the parts the regular expressions and prefix cuts
tell apart (name, `<name>`, bracketed text, a verb of `deathRegex`, word, mark).
`ByPlugin` and `ByLog` take a happening through listener, JSON event, `toChatLine`
and `handleChatLine`, or through console line, `normaliseLine`, `parseLine` and
`handleChatLine`. The laws compare them with each other and with what happened,
for every happening, console style and setting of `bridge_all_events`.

## Runs

Bounds are the constants named "bound" in each module; TLC explores each
instance completely.

| Run | Instance | Shows |
|---|---|---|
| `stream_safety` | 2 requests, client limit 1, history 2, queue 2, wire 1, channel 1, 4 events, 2 boots, 1 fault; symmetric requests | `TypeOK`, `InOrder`, `NoSilentGap`, `ClientsAreServed`, and that `PluginStream` implements `EventFeed` |
| `stream_live` | as above with 3 events and 1 boot, fair | `KeepsUp`, `DeadClientsLeave`, `CancelStops` |
| `stream_replay` | limit 2, history 3 | finding: `MissedEventsReplayed` fails |
| `tail` | 3 lines, 2 log streams, channel 1, 2 faults, fair | `TypeOK`, `TailedInOrder`, `CancelEndsOrSticks`, `Retries`, and that `LogTailer` implements `EventFeed` |
| `tail_cancel` | 3 lines, 1 stream, no fault, fair | finding: `CancelEnds` fails |
| `registry` | 2 containers, one without a password; either 1 call of `Connect`, 2 display names and 3 starts, stops, failing requests or `Disconnect`s (at most one failure and one `Disconnect`), or 2 calls of `Connect` over one container with 1 change and 1 `Disconnect`; fair | `TypeOK`, `NoStrayReceiver`, `RoomHasName`, `CallsEnd`, `StartIsServed`, `StopIsSeen` |
| `registry_missed` | 1 container, 1 `Connect`, 1 change | finding: `TracksRunning` fails |
| `registry_again` | 1 container, 2 calls of `Connect` | finding: `ConnectStartsFresh` fails |
| `registry_disconnect` | 1 container, 1 `Connect`, 1 `Disconnect` | finding: `DisconnectStops` fails |
| `rcon` | 3 calls of any role, 2 dial attempts, 2 faults, fair | `TypeOK`, `CommandOwnsConnection`, `ConnIsOpen`, `DeliveredIsShown`, `CallsReturn` |
| `bridge` | 2 users, one an admin, 2 servers of an older version, 2 icons and none, 2 Connects of a user at a time, 2 skins and the default skin, 2 calls of `GetUserInfo` at a time, 1 change of skin, 1 fault, 2 starts, fair | ghost: `TypeOK`, `TagNamesAvatar`, `AskedHourly`, `AvatarFollows`; process: `LegacySwept`, `SpaceHasIcon`; texts: `SameFromBothSources`, `ChatStaysChat`, `PluginIsComplete` |
| `log_deaths` | texts only | finding: `LogShowsDeaths` fails |

Two instances are cut where their parts do not touch. `registry` explores one call
of `Connect` with everything that can happen to its containers and requests, and
two calls that race over one container (`MCMCClient!Bounded`); two calls with all of
the rest multiply the states and add no meeting of two actors that one of the two
halves has not. `bridge` explores the ghost in a process without icons, spaces and
legacy rows, and the process around a ghost nobody has talked to (`MCBridge!Apart`):
the two share no variable but `faults`, the fetcher and whether anybody receives.
The theorems are about `Spec`, without these cuts.

Why the bounds are enough: a history and a queue of two with four events reach
overflow, eviction and replay of a part; two requests with a limit of one reach
the 503 answer and a second client admitted through the unlocked check; two boots
reach the resume from an old boot. Three lines fill the pipe, the hand of the
tailer and the channel. Two calls of `Connect` and one container reach every pair
of racing calls over one map entry; the container's name is the only thing the
map goes by. Three RCON callers reach a dialler, a command and a stop at once. Three starts or
stops and two display names let a container come back under another name while a
discovery is on its way. Two calls of `GetUserInfo`, one change of skin and two
starts reach every mishap and every pair of avatar services
across a restart. Two starts with two icons and none let a space made under one
configuration, or by an older version without avatar, meet another; two users with
two legacy rows each let a request fail for one row of one user, with the others
still to come. Two Connects of a user reach a login during a Connect.

`RoomHasName` is about one call of `Connect`. When two calls push names for one
room at the same time, the one that read first can write last, and the room keeps
the older name until its label changes again. The laws of `ChatEvents` have no
variables and are evaluated in the states before the first start; for texts of any
length they are theorems.

Deadlock is not checked: every system here stops legitimately when its bounds are
used up or its context is cancelled.

### Findings

1. `stream_replay`: a first connection lost before its first event is followed by
   a request without `Last-Event-ID`; the comment at `pluginstream.go:91-92`
   promises a replay.
2. `tail_cancel`: `tail` can wait in `wg.Wait()` for a copier that waits for a
   reader; `logtailer.go:132` says it runs until the context is cancelled.
3. `registry_missed`: a start between the listing and the subscription is seen by
   nobody (`README.md:14`).
4. `registry_again`: after a second `Connect` the servers of the first are in the
   map with cancelled contexts and receive nothing (`client.go:87`).
5. `registry_disconnect`: a discovery under way during `Disconnect` leaves a
   server in the map and an open RCON connection (`client.go:119`).
6. `log_deaths`: a death that ends with a verb `deathRegex` lists ("X drowned")
   matches nothing, because the expression wants text behind the verb; the comment
   at `logtailer.go:65-66` names that very verb, and `README.md:10` says that death
   messages are bridged.

## Fairness

Weak fairness of goroutine and handler steps: the Go and Java schedulers run what
can run, and every request in the models is answered or fails. In `PluginStream`
`WriteFails` has strong fairness: a handler that keeps writing to a dead
connection is told in the end, because TCP gives up retransmitting, but the step
is disabled between writes. In `RCONClient` only one weak fairness condition over
all calls is assumed. In `Connector` the process goes on once started, requests of
`GetUserInfo` are answered or fail, and hours pass; players keep talking, which is
what makes bridgev2 ask again, and `AvatarFollows` is about players who do. Faults,
cancellation, `Connect`, `Disconnect`, containers, players and the publishing thread
have no fairness. A liveness property says in its right-hand side what excuses it.

## Proofs

`PluginStream_proofs` proves, for every number of requests, every history, queue,
wire and channel size (with `HistorySize <= QueueSize`, true in the code) and
every bound:

* `TypeCorrect`: `Spec => []TypeOK`;
* `OrderInvariant`: `Spec => [](TypeOK /\ OrderInv)`;
* `DeliveryInOrder`: `Spec => []InOrder`;
* `NoClientLeak`: `Spec => []ClientsAreServed`.

`InOrder` alone is not inductive: that `posted` grows in order depends on the
channel, that on the event being dispatched, that on the wire, and so on back to
the history. `OrderInv` therefore says of each stage that it is increasing and
lies behind the stage before it, and (`LiveInv`) that what the handler of the
bridge's connection still has to send is new to the bridge, which for a handler
not yet registered means that the connection is untouched and `resume[c]` is
`lastID`. The latter is what makes the replay of `register` start at the right
event. The proof has one lemma per action; the order of ids and facts about
`Append`, `Tail` and `SubSeq` are lemmas at its head. The assumptions are the named
`ASSUME`s of `EventServer` and `PluginStream`, which TLC evaluates in every run of
the stream. `OrderInv` has also been checked by TLC on the instance of
`stream_safety`.

`StreamGap_proofs`, on top of it and under the same assumptions:

* `GapInvariant`: `Spec => [](TypeOK /\ OrderInv /\ GapInv)`;
* `NoGapInDelivery`: `Spec => []NoSilentGap`;
* `StreamImplementsFeed`: `Spec => Feed!FeedSpec`.

`NoSilentGap` speaks of two neighbours in `posted`, which met on the way there.
`GapInv` therefore says that from Matrix back to the plugin all ids form one
chain: `BridgeChain` through `posted`, `lineCh`, the event being dispatched and
the wire, `HandlerChain` from there through the event held and the queue of the
bridge's own connection up to the newest event. Two ids of the chain may have a
gap between them only if what lies in it is out of the history, and what is out
stays out. A client that has overflowed has lost the end of its chain; what is
left to show is that the one event its handler may still send (the one it was
polling for) was queued before the loss. That a replay joins the chain at all
rests on `HistoryIsSuffix` (the history is the end of the boot's events, and goes
back to the first until it is full) and on `resume[c] = lastID` from `OrderInv`.
`PublishedInv`, that nothing travels that was not published, is what the
refinement needs besides: a `Receive` is a `FeedDeliver`, `Publish`, `Restart`
and `Cancel` are the feed's other steps, and everything else stutters. `GapInv`
has also been checked by TLC on the instance of `stream_safety`.

`LogTailer_proofs`, for every channel size and any number of lines, streams and
faults: `TypeCorrect`, `LinesInOrder` (`Spec => []TailedInOrder`),
`StreamsFromTheStart` and `TailImplementsFeed` (`Spec => Feed!FeedSpec`). That a line
was passed over rightly can only be said at the place where it was: the inductive
invariant follows a line through the stages console, stream, copier, pipe, scanner,
channel and room. `OutInv` says of what came out, `HeldInv` of the line in hand,
that it continues the stage behind it in order; `FrontInv` where the stream's
front stands; `MissInv` that whatever lies between is out of reach; `SpentInv` and
`GarbledInv` that a stream once spent or read in the wrong mode gives no more.

The other half of `TailedInOrder`, that only what was in reach comes out, is
`ScopeInv`: nothing that was sent was out of reach (`ReachInv`), because an
over-long line of the stream is still ahead of the scan (`LongInv`), no stream is
read in the wrong mode (`ModeInv`) and none has given anything before its mode is
known (`StreamsInv`). So of each stream Matrix has all events up to the newest it
has (`StreamsFromTheStart`): one that was passed over was out of reach, which would
have put every later one of the stream out of reach as well.

For the same reason the feed, which lets no event be passed over between two of one
stream, is implemented. The rest is counting: the next event of a
stream has the next number (`RankOrder`), and a line the console prints changes no
earlier number (`CarriedSame`). An event the console prints into an open stream is
a `FeedPublish`, `Open` a `FeedRestart`, `Receive` a `FeedDeliver`; everything else
but `Cancel` stutters. `ScopeInv` has also been checked by TLC on the instance of
`tail`.

`MCClient_proofs`, for any containers, titles and number of calls: `TypeCorrect` and
`StraysAccountedFor` (`Spec => []NoStrayReceiver`). The types need that a call past
its first steps finds a context in `c.ctx` (`CtxInv`). `NoStrayReceiver` speaks of
servers that receive, which is not inductive; `AccountedFor` says of every server
ever made that it is cancelled, in the map under its name, or in the hands of a
`stopServer`.

`RoomName_proofs`, on top of it: `RoomsAreNamed` (`Spec => []RoomHasName`), for any
containers, titles and changes. `RoomHasName` speaks of a settled call that was
never joined by another, with no fault and no `Disconnect`; other calls may exist,
and as long as none has begun (`Alone`), `CallNamed` follows the one call: the
server in its hands is the map's, what it read for a room is still the server's
title when it writes, and any other room of the map has its name. A server whose
room is behind is the one the call is about to name (`Naming`). `NameInv` has also
been checked by TLC, on one call of `Connect` with two containers.

`RCONClient_proofs`, for any calls, attempts and faults: `TypeCorrect`,
`MutexOwnsConnection`, `KeptConnIsOpen`, `DeliveredWasShown`. `BoundInv` bounds the
connections in use, `ConnInv` ties mutex, `r.conn` and the command under way
together, `DialledInv` says that a connection in a dialler's hands is nobody
else's, `ShownInv` counts what the game server has carried out for a message.

`Connector_proofs`, for any skins, users, calls, Connects and starts: `TypeCorrect`,
`StoredTagNamesAvatar`, `LookedUpHourly`, `LegacyRowsSwept` and `SpaceAvatarIsIcon`.
`DownloadInv` and `RowInv` say what a call and the database row carry, `AvatarInv`
relates ghost, profile and the calls between upload and store. `HourInv` counts
answers against the calls that may still answer; that a fresh avatar is set and has
a tag (`TaggedInv`) holds in any case, the count only in an hour in which no answer
was without texture. `SweepInv` says that a legacy row belongs to a user still on
the list of the clean-up or is one that a request failed for, `ConnectInv` that
nobody connects before the logins are loaded, so that no Connect outlives a change
of the icon.

`ChatEvents_proofs` makes the laws of `ChatEvents` theorems about texts of any
length over any names and words:

* `ChatIsChat`: whatever a player types, under any tags and in any console, comes
  from both sources as that player's message with all its text;
* `PluginShowsEveryText`: what `toChatLine` takes from a text `handleChatLine` puts
  back, and a text without the name in front stays as it is;
* `SourcesShowAlike`: where the log tailer recognises what happened, it has Matrix
  show what the plugin would have; where it recognises nothing it stays silent;
* `DeathsRecognised`: the log tailer recognises a death with a known verb and
  something behind it, and none that ends with the verb (the finding `log_deaths`).

The laws the run `bridge` checks follow (`ChatStaysChatAlways`,
`PluginIsCompleteAlways`, `SameFromBothSourcesAlways`).
`SourcesShowAlike` leaves out texts that begin with a source marker: `parseLine`
would cut it off as the console's.
`Without` (the colours taken out) is a recursive function on the positions of a
text. The library's induction theorems take a predicate as a parameter, which no
prover here can instantiate, so what holds of every text is shown by least
counterexample: `NatMin` picks the shortest by the well-founded order of the natural
numbers, and `TextInduction` states induction with a set of texts in the place of a
predicate.

Every safety invariant of a passing run is thus a theorem. Model-checked only: the liveness properties `KeepsUp`, `DeadClientsLeave`,
`CancelStops`, `CancelEndsOrSticks`, `Retries`, `CallsEnd`, `StartIsServed`,
`StopIsSeen`, `CallsReturn` and `AvatarFollows` (fairness and `ENABLED` are out of the
prover's reach), and the counterexamples of the six findings.

## Not modelled

* Rendering of avatars (`renderFace`) and the format of RCON commands: pixels and
  text.
* `Probe`, `/health`, tokens, and which of the two sources `chooseEventSource`
  takes: requests and decisions without effect on state.
* Avatars of rooms, which take the same steps as their names, ports and tokens.
  The avatar's ID is the same for every label (`client.go:189`); whether bridgev2
  then shows a changed one is bridgev2's matter.
* What bridgev2 does with the first client when an admin logs in again; two calls
  of `Connect` of one client are in `MCClient`.
* Configuration, packaging, the start-up of the framework: data, or code outside
  the bridge's logic.
* Time: a timer may fire whenever it is armed; backoff lengths, and that the log
  tailer's backoff never resets, are not visible.

## Plan

Done: the stream with the proofs of its order, its gaps and its refinement, the
log tailer with its order and its refinement of the same feed, the registry with
the names of its rooms, the RCON client, ghosts, process, chat events, and the
proofs of every safety property the runs check.

Next, in this order:

1. A composition of `MCClient` with `RCONClient` through the roles of the calls,
   and of the choice of event source with the two sources, which now promise the
   same feed, over one `lineCh`.
2. What holds of the registry in the place of the three properties the findings
   refute: which servers a second `Connect` and a `Disconnect` can leave behind.
