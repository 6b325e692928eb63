# CommonwealthMP: TLA+ models, checks and proofs

CommonwealthMP is a multiplayer mod for Fallout 4: a dedicated server
(`src/server`), a game plugin (`src/plugin`), the protocol headers they share
(`src/protocol`) and a crash reporter (`src/tools/cmp-reporter`). This folder
models the parts that carry the session: who is connected, over which TCP
connection and UDP address, who hosts, what is saved, and how a plugin and the
server keep the same idea of all that while messages are late, lost or repeated
and threads overtake one another.

The modules follow the source, line ranges are in `PROJECT.json` under `map`.
TLC checks small instances (`runs`), TLAPS proves theorems for every instance
(`theorems`).

    tlc -workers 2 -config MCSim.cfg MCSim        # one run
    tlapm SimProofs.tla                           # one proof module

## 1. Inventory

### Server

The server has three threads joined by bounded queues (`AsyncQueue`,
`queues.hpp`) whose `push` gives `false` when the queue is full. Most callers
ignore the answer.

| Component | State | Operations | What makes it correct |
|---|---|---|---|
| **Net thread** `NetIo` (`net_io.cpp`) | `conns_` (connection -> peer id), `peerToConn_`, connection ids | accept, read frames and datagrams, report closes; `TcpSend`, `UdpSend`, `BindPeer`, `CloseConn`, `KeepPending`; stop | the two maps are inverse; the reports on a connection are in order |
| **Session** `ServerRuntime` (`handlers.cpp`, `net_util.cpp`) | clients, pending connections, UDP address map, host, host location, world clock, mod lock, player records, bans, dirty marks | one handler per event kind and message type; expiry of clients and pending connections, heartbeat, persist tick | one client per player key; a connection owned once; a live host; addresses lead to their client; bans hold; tokens renewed cleanly |
| **Admin console** (`admin_cmds.cpp`) | the same session, the configuration | kick, ban, unban, save, say, maxplayers, reload, pvp, password, quit | like the handlers, it must tell the others and mark what it changes |
| **Persist worker** (`persist_worker.cpp`, `session_persist.cpp`) | job queue, files of the session folder | take a job, truncate and write each file; stop drains the queue | what is marked reaches the disk; a clean stop saves everything; a restart loads what was written |

The net thread tells the session (`TcpAccept`, `TcpFrame`, `TcpClosed`,
`UdpDatagram`) and the session commands the net thread; each event carries the
peer id the connection had *when it was queued*. The session offers jobs to the
worker. Nothing is locked across the threads, so everything a handler reads
from an event may be stale.

### Plugin

| Component | State | Operations | What makes it correct |
|---|---|---|---|
| **Client session** (`plugin/src/net/session.cpp`, `poll.cpp`, `reliable.cpp`, `udp_win.cpp`) | joined, peer id, UDP token, bound flag, sockets, time of the last message, heartbeat thread | join, leave, tick: read frames and datagrams, retry Hello and UdpBind, time out; heartbeat thread | agrees with the server on peer id and token; a join settles, a leave ends, a drop is noticed |
| **View of the others** (`poll.cpp`, `ghost/*`, `indicators/*`) | latest pose and looks per peer, ghost body, its clone and its setup, map markers | poses, Bye, looks; spawn, load, dress, move and remove a ghost; mark | nothing put into the game is lost track of; a leave takes it all back; a ghost wears what came last |
| **Host actors** (`actors.cpp`) | poses of the host's actors, who is puppeted | the host publishes, guests puppet and let go | an actor is let go when its poses end |
| **Pose ring and puppet** (`motion_interp.h`, `puppet/*`) | timed samples, position of the body, last flags, animation graph | push, sample, step, fire animation edges, retry | samples in order, the body follows them and ends up in the sender's pose |
| **Blobs** (`cmp_blobs.hpp`, `appearance/*`) | partial blob per sender and kind, send timers, rate bucket | pack, split, relay, assemble, unpack, equip | never a blob mixed from two; the present look arrives |
| **Menus and query** (`menu/*`, `net/query.cpp`, `main.cpp`, `scaleform_menu.cpp`) | the join flow, the forms, the query, the join flags | buttons, query, new game, load, character menus, strip, join | the flow ends; it disturbs no session and strips no save |
| **Compass, overlay, presence, console, configuration, crash handler** | - | - | I/O, not modelled |

The game thread runs the frame task (`main.cpp:65-79`): menu, poll, own pose,
ghosts, host actors, indicators, overlay. The Present hook draws the forms on the
render thread, and a button of a form runs there. The heartbeat thread only sends.

### What is hard here

`PROJECT.json` lists the hazards at their lines. The families are:

* *Reports that are stale when handled.* A close or a frame is tagged with a
  peer id that may have moved to another connection (soft reconnect) or been
  given up (Bye) by the time the session reads it.
* *Queues at their limit.* A refused report, command or job is lost without a
  trace; only the timeouts repair that. The send queue of a connection drops
  what is over its limit, so that even a TCP message can be lost.
* *Retries.* Hello is repeated until Welcome comes, and every repetition renews
  the UDP token, while UdpBinds for the token before are still under way.
* *Two channels.* TCP and UDP messages of one player are not ordered.
* *Crash and restart.* Files are truncated and then written; a crash in between
  leaves a torn file that the next start reads as defaults.
* *Shutdown.* The main thread waits for room in the persist queue and then for
  the worker.
* *Things that must happen.* Dead clients leave, pending connections end, a
  leave terminates although it joins the heartbeat thread, a join flow ends.
* *An engine that says no.* Clones fail, 3D comes later or goes, animation events
  are refused in the middle of another.
* *One socket, two users.* The query and the session share the TCP socket, and
  two threads start them.
* *Chunks.* A dropped chunk lets the next blob complete the assembly of the one
  before.

## 2. Modules and the code

| Module | Models |
|---|---|
| `Containers` | bounded queues and maps: `Push` (refused when full), `PushAll`, `Put`, `Without` |
| `ServerTypes` | constants and their assumptions, the shapes of events, commands, jobs, messages, records |
| `Sim` | the simulation thread: handlers, expiry, heartbeat, persist tick, admin commands, with the other threads as an environment |
| `NetIo` | the net thread, with the simulation thread as an environment |
| `Server` | `Sim` and `NetIo` composed over their queues, and `told`, what each connection has been told of the other players (`unheard`, `unsaid`: what it should have been told) |
| `PersistWorker` | the worker and the files |
| `Store` | `Sim` and `PersistWorker` composed with the phases of `main()`: loop, drain, final, stop, join, done; crash and restart |
| `Client` | the plugin's session: game thread, heartbeat thread, both sockets |
| `Link` | `Client` against the server as this one client sees it |
| `Party` | abstract: who is in, who hosts, who is banned, how many places |
| `SimParty` | the refinement mapping from `Sim` to `Party` |
| `View` | ghosts, host actors and map markers of one plugin |
| `Motion` | one ghost's ring of poses, its movement and its animation graph |
| `Blobs` | looks on their way from one player to another: packing, chunks, rate limit, both assemblies, equipping |
| `Menu` | the join flow, the forms, the query and the game's load events on two threads |
| `MC...` | instances for TLC |
| `NetIoProofs`, `SimProofs`, `ServerProofs`, `StoreProofs`, `JoinProofs`, `ViewProofs`, `MotionProofs`, `BlobsProofs` | lemmas and theorems |

### Sim

Every handler of `apply_inbound` is an action that takes the head of `inbound`,
changes the session and emits its commands in the order of the code. `Hello` on
a pending connection is four actions: `HelloRefused` (ban, password, mods, full
server, host required), `SoftReconnect` (the key is live: same peer id, new
connection, new token, old connection closed), `HelloNew`, and, from a client
that has already joined, `HelloAgain`. `RemoveClient` is `remove_client`: unbind,
tell the others, hand the host on, save the record, give the connection back or
close it.

* `PushAll` puts as many commands as fit in the queue. The net thread may pop
  meanwhile, so when they do not all fit the result is any of the possible
  ones. `outLost` records that something was refused.
* The code pushes one `TcpSend` per receiver; the model one command with the set
  of receivers. `Tracked` names the messages an instance follows on their way
  out; those not in it change nothing but the content of the queue and are left
  out there.
* The loop over the other players in `handlers.cpp:532-543` (roster for a
  joiner) is the message `Roster`. Its UDP part does nothing: the joiner is not
  bound yet.
* Time and the rate limiters are nondeterministic: a limit is reached or not.
  `Unknown` stands for malformed or unexpected messages.
* The exit of a new Hello for `requireHost` (`handlers.cpp:478-484`) cannot be
  reached, because the check before it refuses the same cases; `HelloNew` has
  no branch for it.
* In `Sim` the net thread reports anything about connections it has accepted
  and peer ids that have been handed out, in any order. This is more than
  `NetIo` does, so what holds here holds in `Server`.
* `make_udp_token` is a generator with a period: its tokens repeat after
  `TokenPeriod` of them, and 0 is never one.

### NetIo and Server

`NetIo` has one action per socket event and per command. A full inbound queue
refuses the report (`inLost`), after which the connection may be closed with
nobody told. The bytes of a frame and of a send queue are not modelled; a
socket that cannot be written is a close. `Server` instantiates `NetIo` on the
queues and connection counter of `Sim`. `Deliver` pops a send command and
records in `told` what the receiver now believes: `Roster` and a look (`Blob`) add a
player, `Bye` removes one. A send queue over its limit refuses the message and
the connection stays open (`net_io.cpp:105-108`): any of the receivers may miss
it, and `unheard` remembers of whom it would have made them forget. `Kick` is the
admin's kick, whose Bye goes to the kicked player alone; `unsaid` remembers who
was connected and not told.

### PersistWorker and Store

A job names the world, records and bans it writes with their snapshots. The
worker empties a file (`Truncate`) and then writes it (`Write`); between the two
a crash leaves `Torn`, which loads as the default. The json, the appearance and
the inventory of a player are one file of the model. `Start` is a crash at any
moment followed by `main()` loading the folder. `OpenFails` is a file that cannot
be opened: the code drops the data, and `ioError` remembers it. Not modelled: the
`.bak` copy of the folder and the keys banned in the ini file.

A record that a Hello has just created is not marked dirty in the code; it is
written with the first pose, look, or when the player leaves. `JustJoined`
excludes exactly these records. The final job of a shutdown has no bans: they
have been offered when they changed.

### Client and Link

`Client` keeps `joined`, `myPeerId`, `udpToken`, `udpBound`, the heartbeat
thread (`hbRun`, `hb`) and `lastRecv`, which is `g_lastRecvSec` seen from now:
never, recently, or more than fifteen seconds ago. `Leave` takes two steps, since
`CMP_Leave` waits for the heartbeat thread. `OnClosed` may come before buffered
frames have been read: `recv_frame` gives the end of the stream first and the
frames are lost. A heartbeat that cannot be sent is dropped.

`Link` is the server for one player: `srv` with connection, peer, token and UDP
binding, `gone` the closed connections, and `tag`, the peer id the net thread
has for each connection; so a Bye, Hello or close of an old connection can be
handled after a soft reconnect, as in the code. `SrvLoses` is a frame the full
inbound queue refuses; `Lost` a datagram. What the server sends may be refused by
the outbound queue or by the send queue of the connection, a Welcome, Reject or
Bye as well as anything else (`Tell`, `TellWelcome`), and so may `CloseConn`, which
leaves a connection open that the session has forgotten (`orphans`). A refused
`BindPeer` is left to `Server`: without the peer id the frames are found by their
connection.

### Party and the refinements

`Party` is what the session promises its players: a player comes in once, if he
is not banned and a place is free; the first is the host; the host changes only
when he leaves, and then one of the others takes over. Connections, tokens,
queues and threads are not mentioned. `SimParty` maps the clients of `Sim` to
their keys and states `ImplementsParty`, so every soft reconnect, second Hello,
late close, expiry, kick or query is a step of `Party` or none at all.

`Server` is the second level: `ImplementsSim == Spec` says that the composition
of the two threads does nothing the session's assumed environment (`NetThread`
in `Sim`) does not do. This is what carries the theorems of `SimProofs`, which
are proved against that environment, over to the real net thread.

### View

One action per message (`OnWelcome`, `OnBye`, `OnLook`, `OnPlayerPose`,
`OnActorPose`), `Join`, `Leave`, and `Tick`, which is the frame task: ghosts, host
actors, indicators in the order of `main.cpp`. Bodies are engine handles (external:
`HandleFor`, `Load3D`, `Unload`). `CloneGhostBase` may fail or lose its clone
(`Outcomes`), and the engine may make a reference that is no Actor, which stays
where it was put (`misfits`, `spawn.cpp:257-266`); a body without 3D is not dressed
yet. An NPC that is let go when `GetFormByID` does not find it
(`actors.cpp:277-282`, `288-295`) is forgotten without its AI (`unfound`, history).
`GoesStale` is the clock: no pose of an NPC for 1.5 seconds. `respawned` is history:
the players whose present body is not their first, because `g_ghostReady` and
`g_freezeTicks` still describe the first one (`GhostsDressed` excludes them).

### Motion

A pose is a position on a line, a speed and a set of flags. `Push` is
`PoseRing::push` with its duplicate and its size, `SampleAt` interpolates at
`Delay` behind now and extrapolates for at most `ExtrapCap` ticks, `StepToward`
goes there at the player's speed, at least `MinSpeed`, times a factor for near and
for far. `Tick(taken, marked)` is one frame: `MoveGhost` with `ApplyGhostPuppet`,
where the engine takes all animation events or none, and, for a ghost that is
marked on the map, the `SetPosition` of `UpdateMapMarkers` after it. `told` is
history: whether the engine has taken every edge since the last reset. Positions
and speeds are integers, and one between two samples is rounded toward the newer.

### Blobs

`ExtractBlob` and `ExtractInventory` pack what is worn, `Split` makes chunks, the
server admits them (`AllowRate`), assembles a copy and passes them on, the plugin
assembles (`Placed`, `Joined`, `Complete`, `Rest`), and `Dress` equips; `worn` is the
set of forms the ghost has on. The push of each chunk may be refused: all of them
are passed on (`PassAll`) or some (`PassSome`). A form id
is a number whose upper part is the place of its plugin in the load order;
`PackForm` and `ResolveForm` do to it what the code does. `Period` is the resend
timer; `SenderCut` and `ReceiverCut` are reconnects in the middle of a blob,
after which the server's copies are sent (`Backlog`). `whole` is history: no
chunk was refused, dropped or given up so far.

### Menu

The game thread's tick (`Tick`: poll, query, one step of `TickFlow`) and the
handlers of buttons, console and game messages are atomic with respect to one
another, since they run on one thread. The Present thread's `CMP_QueryStart` is
broken into its steps (`pc`): leave, connect, send. Its other handlers are
taken as one step. Time is `age` (no limit, a short or a long limit is over),
`place` is where the player is. `char`, `over`, `bare`, and `overlap` and `by` in
`net` are history for the properties. `form = "stuck"` is the join form without
its popup, after a mistyped address.

## 3. Runs

Each run takes at most about three minutes on two workers.

| Run | Instance | Properties | Distinct states |
|---|---|---|---|
| `sim` | 2 keys, 2 addresses, 3 peers, 2 connections, kick and unban | `TypeOK`, `UniqueKeys`, `ConnOwnership`, `HostLive`, `UdpMapSound`, `BanHolds`, `TokenRenewalUnbinds` | 406 000 |
| `session` | 2 keys, password, mod list, two configurations, 5 admin commands, persistence | `LiveRecords`, `ModLockStable`, `ImplementsParty` | 993 000 |
| `server` | 2 keys, 2 connections, 2 peers, inbound 2, outbound 4, kick | `Agreement`, `NoGhostPeers`, `ImplementsSim` | 678 000 |
| `kick_ghost` | 3 keys, kick | `MarkersClear` is violated | |
| `server_live` | 1 key, 2 connections, inbound 2, outbound 1, losses | `MapsInverse`, `ReportsOrdered`, `DeadClientsLeave`, `PendingEnds` | 132 000 |
| `store` | 1 key, one value of clock and looks besides the default, 2 starts, kick with ban | `StoreInv`, `BansOnDisk`, `ShutdownSaves`, `ShutdownEnds` | 271 000 |
| `link` | 2 joins, 2 peer ids, 2 tokens, 1 frame each way | `LinkInv`, `BoundToThisJoin`, `LeaveEnds`, `JoinSettles`, `DropNoticed` | 181 000 |
| `view` | 1 other player, 1 NPC of the host, 2 places, 2 looks | `NothingLeftBehind`, `GhostsDressed`, `PuppetsReleased` | 108 000 |
| `motion` | 3 poses, ring of 2, delay and extrapolation of 1 tick, map markers on | `MotionInv`, `CombatFollows`, `Settles` | 75 000 |
| `blobs` | 2 outfits of two chunks, 2 chunks under way, limit 2 in 2 ticks, 1 fault | `BlobsInv`, `NoMixture`, `LooksArrive` | 301 000 |
| `form_lost` | an outfit with an item of the second plugin | `WornAsSent` is violated | |
| `menu` | 2 games begun, loaded or queried, automatic join on | `MenuInv`, `QuerySparesSession`, `FlowEnds` | 660 000 |

Some invariants are conjunctions of named parts, each with its own comment in its
module: `StoreInv` (`StoreTypeOK`, `StoreCaughtUp`), `LinkInv` (`LinkTypeOK`,
`TokensAgree`), `NothingLeftBehind` (`ViewTypeOK`, `NoStrays`, `GhostsAreClones`,
`MarkersFollow`, `LeaveFrees`), `MotionInv` (`MotionTypeOK`, `RingOrdered`,
`SampleInterpolates`), `BlobsInv` (`BlobsTypeOK`, `RateBounded`), `MenuInv`
(`MenuTypeOK`, `MenuJoinLives`, `GearKept`).

What they show:

* **sim** The session is consistent whatever the net thread reports and in
  whatever order: a key is live once, a connection is owned once, there is a
  host exactly while somebody is connected, the UDP map leads to the client
  bound to that address, a banned player who is out stays out, and a renewed
  token ends the old binding.
* **session** With the gates of a Hello, the host's reports and the admin
  commands, every client has a record, the mod list is locked once, and the
  session implements `Party`.
* **server** When the queues are drained without a loss, the two threads agree
  on every *open* connection, and nobody shows a player who has left, with two
  exceptions the code makes: one whom the admin kicked while he was connected,
  and one whose leave the full send queue of his own connection refused. The
  composition implements `Sim`. A connection that is already closed may still be
  held by the session, when its close named a peer it had before a Bye and a
  second Hello.
* **server_live** The timeouts clear those, and what full queues lost; the net
  thread's maps stay inverse and its reports in order all the while. A client
  with a UDP address is excluded: its poses are signs of life. So is one whose
  peer id another open connection still carries, after a lost `CloseConn` or
  `BindPeer`: frames there count as his (`handlers.cpp:261-267`, `563`).
* **store** When nothing is marked or queued, a restart finds what was in
  memory; bans likewise; a clean stop saves everything even after refused jobs;
  and it ends.
* **link** After any retries, rejoins, late and lost messages the plugin and the
  server hold the same peer id and token, unless the Welcome of the last token was
  lost, which is asked for again only while there was none; the binding belongs to
  the present join. A join is answered or given up although Hellos, Welcomes and
  Rejects are lost, a leave ends, and a removed player finds out. Excepted is a
  connection that the session has forgotten and whose `CloseConn` was refused; `lost
  = MaxToken` in `JoinSettles` is the model's bound, where no token is left to
  answer with.
* **view** Every body in the world is known to the plugin, stands on one of its
  own clones, and is taken away by a leave, together with the markers, wherever
  spawning, loading and travelling stand at that moment; a ghost wears the last
  look of its player. A reference that is no Actor is no body, and stays. An NPC
  without poses is let go, and after a leave every NPC has its AI, but for those
  `GetFormByID` did not find when they were let go.
* **motion** The ring stays in order, what is sampled lies between its
  neighbours or a bounded way past the last, and in the end the body shows the
  sender's place and flags although the engine refuses events now and then,
  whether or not it carries a map marker.
* **blobs** Without a refused or dropped chunk no mixture is ever kept or worn,
  reconnects included; with one, a mixture may be, and the next sending puts it
  right. The limiter
  lets through up to twice its limit less one within a window's length.
* **menu** Every join from the menus ends; a session the menus or a loaded game
  began is not touched by a query unless it began inside `CMP_QueryStart`; one that
  `cmp_join` began beside a pending query is, and is excepted; only a character made
  for a join, or a save loaded in the middle of one, is stripped.

### Disagreements with the documentation and the tests

Two are kept as runs that TLC must find violated:

* `form_lost`: `pack_form_id` cuts off the load-order byte, and `CMP_ResolveForm`
  then finds a form of the base game under what is left, so the ghost wears
  another item. The unit test of `full_form_id` expects the id to be rebuilt.
* `kick_ghost`: an admin's kick says Bye to the kicked player alone
  (`admin_cmds.cpp:60`). The others keep his pose and his ghost until they leave,
  and his marker as long as anybody's poses come, since `lastRecvPoseSec` is one
  time for all players (`indicators/peers.cpp:73`). `CHANGELOG.md:34` says that
  "markers clear on leave, timeout, or disconnect".

Others were met while modelling. They are behaviours of the modules; the
properties above are stated so that they allow them, and each says so:

1. Nothing resets `g_lastRecvSec`, so a join more than fifteen seconds after the
   last message of the session before is given up at its first poll unless the
   Welcome is already there ("Server timed out (no packets for 15s)",
   `poll.cpp:380`). `JoinSettles` counts that as an end.
2. A close of the old socket queued behind the Hello of a soft reconnect removes
   the client that has just moved (`handlers.cpp:304`); `tests/server/main.cpp:1307`
   expects it to stay.
3. A TCP message over the limit of a send queue is dropped and the connection
   kept (`net_io.cpp:105`): a Bye is not repeated, and of a Welcome only the first
   is asked for again. A refused `CloseConn` before any message came leaves the
   plugin connecting for ever, since `g_lastRecvSec` is still 0.
4. A save refused by the full persist queue clears the marks all the same, and
   "session saved" is shown (`handlers.cpp:127`, `admin_cmds.cpp:86`).
   `StoreCaughtUp` is stated for runs without a refused job.
5. A UDP pose that arrives after the Bye of its player brings the ghost back
   (`poll.cpp:195`). It is known to the plugin and goes with the leave.
6. After `Done` or `Failed` nothing takes the flow back to `Idle`, so JOIN and HOST
   do not open a second time (`forms.cpp:264`).
7. A mistyped address leaves the join form open without its popup, and keyboard
   and mouse stay with it (`forms.cpp:330`).
8. A save loaded during a menu join is stripped like a new character
   (`flow.cpp:222`).
9. `CMP_UnfreezeRemoteActor` leaves `g_freezeTicks`, so an actor puppeted a second
   time keeps its AI (`ghost.cpp:85`).
10. A reference the engine made for a ghost that is no Actor stays in the world
    (`spawn.cpp:257-266`), and an NPC not found when it is let go keeps its AI off
    (`actors.cpp:277-282`, `288-295`).
11. Of two peers that bind one UDP address, the first keeps it in its record while
    the map leads to the second (`handlers.cpp:738`).
12. With `PointerHud`, which is on by default (`config.cpp:116`), `UpdateMapMarkers`
    sets every marked ghost of the same worldspace to the raw latest pose at the
    end of each frame (`indicators/map.cpp:54`), so delay and smoothing do not
    show. `CommonwealthMP.ini:12` calls `InterpDelayMs` the "Remote body render
    delay", and `CHANGELOG.md:5` announces "less teleport/idle snap". `Motion` has
    it as a behaviour (`marked`), and so no property says that the body moves
    smoothly; `Settles` holds with it.
13. The main loop pops inbound until it is empty before it comes to the timeouts
    (`main.cpp:209`), so frames that come faster than they are handled put off the
    expiry of everybody else. `Fairness` of `Server` excludes that for ever.

### Bounds

Every bound is a constant or a named guard. Two keys and two connections suffice for
every pairwise conflict (two players; one player's old and new socket); a third peer
id lets one key leave and come back while another stays. `TokenPeriod = 2` makes
tokens repeat, the worst case for a UdpBind that comes late. `OutCap = 0` in `sim`,
`session` and `store` refuses every command: nothing checked there depends on
outbound, since the net thread of `Sim` reports what it likes, and the queue's
content would only multiply the states. `InCap = 2` is needed for a frame that
overtakes a close; `OutCap = 4` holds the commands of one handler and more. In
`server_live` and `store` queues are as short as they can be and overflow at once,
which is what those runs are about; outbound in `server_live` has one slot, from
which the net thread may take while a handler is still pushing, so every command is refused in some
behaviour and passed in another. `server` is constrained to runs without a refused
report or command (`NoLoss`), since its properties speak of those; send queues
refuse messages there all the same. In `link` the second token is that of a rejoin
or of a renewal; further ones are left to the theorems.

In `view` one other player is enough, since ghosts of different players share only
the clone source, and `Handles` gives him two bodies in turn. Ghosts and NPCs share
no state but the place and the session, so a state with poses of both kinds is not
followed further (`OneKind`); the theorems are about both together. `motion` has a
ring of two samples, so that a third pushes one out, and ages up to `MaxAge`, past
which all behave alike. A repeated pose takes the place of the last one, so the
sample of a player who stands still only approaches his place; `MaxAge` is larger
than `Delay` times the way there, so that what is left of it is rounded away. In
`blobs` an outfit is two chunks, so a lost one can be completed by the next outfit,
and the limit is reached by one sending; `MaxFaults` bounds the drops. `MaxActs` in
`menu` lets a second game or query come into the flow of the first. Symmetry over
keys and addresses is used only without liveness.

### Fairness

* `Server`: both threads are scheduled (weak fairness on handling an event and on
  the commands). A pending connection is past its limit ten seconds after it was
  made, whatever it sends. A client is past his only if nothing is heard of him: his
  expiry is fair on the condition that he stays `Silent` from some time on, that is,
  without socket, UDP address and any open connection that carries his peer id. The
  main loop tests the limits at each pass, that is, whenever inbound has been
  drained, which need not be continuously; hence strong fairness. That inbound is
  drained again and again is assumed in so many words (`[]<>(inbound = <<>>)`): a
  flood of frames that never lets up would keep the loop from its timeouts
  (observation 13).
* `Store`: the worker runs, and `main()` proceeds once it shuts down.
* `Link`: the game thread reads frames and finishes a leave, the heartbeat thread
  runs (weak); Hello is repeated, and the server answers, since its queue is
  not full for ever (strong); it drops a pending connection.
* `View`: the frame task runs.
* `Motion`: frames run, the sender repeats its pose (`outbound.cpp` sends at a
  fixed rate) and a forced pose ends; a retry that comes up again and again is
  once taken by the engine (strong), which is what the retries are for.
* `Blobs`: a look that is due is sent, chunks are handled, time passes. Faults are
  finitely many; without that bound no resend timer would help.
* `Menu`: frames run and time passes. Nothing is assumed of the server, the game's
  loading or the player.

Nothing is assumed of the network or the players: no fairness on closes, losses,
joins, leaves or on UDP.

## 4. Proofs

The theorems hold for every value of the constants. What is assumed of those is
named in the module that declares them, and TLC evaluates it in the runs:

| Assumption | Says |
|---|---|
| `BoundsAssumption`, `MessageAssumption`, `ValueAssumption` (`ServerTypes`) | bounds and capacities are natural numbers, message and configuration sets have the right shape, the "none" values differ from the others |
| `StartsAssumption`, `FilesAssumption` (`Store`) | there is a first start; a player's file is none of the other two, and a missing or empty file reads as no written one |
| `ClientAssumption` (`Client`) | the bounds are natural numbers |
| `PeersAssumption` (`View`) | the players are finitely many |
| `MotionAssumption` (`Motion`) | poses are samples, the ring holds at least one, ages are counted as far as the delay, the factors and the least speed of a step are not zero |
| `BlobsAssumption` (`Blobs`) | the kinds are among the two there are; a chunk holds something; the limit (64 in the code), the window and the resend periods are not zero (with a limit of zero the chunk that opens a window would still pass); outfits are sequences of form ids |

An invariant is seldom preserved by itself; the strengthenings below were checked
by TLC on the runs' instances before they were proved.

* **NetIoProofs** `NetIoType`, `NetIoInverse`, `NetIoOrder`: the net thread alone,
  under any stream of commands, also such as the session never sends. The inverse needs
  `ConnsFresh` (open connections have ids below the counter), or an accept could
  reuse an entry. The order needs in addition that queued reports are about ids
  below the counter: `OrderInv == ConnsFresh /\ ReportsFresh /\ ReportsInOrder`.
  `OrderKept` and `OrderGrows` treat pops and pushes once for all actions.
* **SimProofs** `SimType` is proved together with `LiveRecords`, because a write
  to a record is well typed only where there is one. For the others, the lemma
  `MembersStep` sorts every step into six effects on the membership: none, a
  client leaves, a connection is accepted, it waits, a Hello adds, moves or
  renews a client, an address is bound. Each invariant is then proved per effect,
  not per handler: `SimUniqueKeys`, `SimUdpMap` (with `PeersFresh`: live peer ids
  are below the counter), `SimHostLive`, `SimOwnership` (with `PeersFresh` and
  `AcceptsFresh`: a connection whose accept is still queued is not known to the
  session), and the action properties `SimBanHolds`, `SimTokenRenewal`.
  `SimModLock` needs `LockPinned`: a list the configuration pins is the lock, so
  a reload changes nothing. `SimIsParty` is the refinement of `Party`, effect by
  effect; it needs `UniqueKeys` and `HostLive`, or two clients could be one
  member.
* **ServerProofs** The two threads over their queues. `SimBase` (what `Sim` keeps)
  and `NetBase` are proved together: `NetBase` says that the net thread's maps are
  inverse and hold only ids that were given out (`ConnsGiven`), that commands name
  only such (`Handed`), that nothing follows a close (`ClosedGone`), and that a
  connection whose accept is queued carries nobody (`AcceptsQuiet`). From these
  every action of the net thread is a step of `NetThread`: `ServerIsSim`, and with
  it the theorems of `SimProofs` become theorems about the server
  (`ServerSession`, `ServerMaps`). `ServerOrder` adds that queued reports are about
  ids below the counter (`ReportsGiven`), or an accept could follow a frame of an
  earlier connection of that id.
  `ServerAgreement` is about drained queues, so its invariant `AgreeInv` says what
  the commands still queued will make of each connection: it is known, announced
  or about to be closed (`OpenKnown`); a pending one will carry nobody
  (`PendingFree`); a client's will carry the client (`ClientsBound`); each as long
  as nothing was refused (`Lossless`).
  `ServerNoGhosts` rests on `Forgotten`: whoever is not among the other players of
  a client is not shown to it, or a Bye or roster still queued takes him away,
  with nothing behind it that shows him; or he is among those kicked behind its
  back, or its send queue has refused the message. Its hypothesis is that Byes and
  rosters are followed on their way (`Tracked`); the admin commands are arbitrary.
* **StoreProofs** The idea is `Saved(f, v)`: the last queued job that writes file
  `f` carries `v`; if no job does, the job in hand carries it and has yet to write
  it; otherwise the file loads as `v`. A job that is pushed changes it only for the
  files it writes, and no step of the worker changes it unless a file does not
  open (`WorkerKeeps`), although each file is empty for a moment.
  `SaveInv` says that what is not marked is saved in this sense, with the records
  of players who have just joined set apart; that needs `DirtyRecs` (only records
  are marked, or the flush would drop the mark) and `Unrecorded` (nothing is
  written for a key without a record, which takes the crash before the first
  write into account). `SaveCases` sorts the steps of the session into three: they
  mark what they change, they offer the bans, they flush. `FinalInv` says the same
  after the final job, whatever was refused before, and `PhaseInv` that the worker
  ends with nothing left. A start of the process establishes it all from any
  folder (`FreshInv`). `StoreSafe`, `StoreBans` and `StoreShutdown` follow;
  `StoreBans` is for a runtime with a worker, which `main()` always sets.
* **JoinProofs** `LinkSafe`, `LinkBound`: each token was given to one connection
  only, which every place that holds a token has to respect: the client
  (`ServerOK`), Welcomes on the way (`DownOK`), UdpBinds on the way (`BindsOK`), the
  plugin (`TokenOK`). `WelcomeOK` is the agreement itself: the last Welcome in the
  stream, or what was read last, is the server's client, unless the Welcome of
  its token was lost.
  `MenuSafe`, `MenuQueryApart`: added are that forms wait for an idle flow
  (`FormsWait`), that past the start of a game the character is the one made for
  the join or loaded over it (`MadeForJoin`), and that on the two threads a session
  that `CMP_QueryStart` finds late began beside it (`QueryAlone`, `SessionAlone`).
  `MenuQueryApart` says nothing of a session that `cmp_join` began: that command
  looks at no query, and the two do share the socket.
* **ViewProofs** `ViewSafe`, `ViewDressed`. Added to the conjuncts of the two
  properties: no pose is known outside a session (`Posed`), only a puppet is
  without its AI (`HeldArePuppets`), a ghost is made ready and held in one frame
  (`SetUpTogether`), a body that has lost its 3D is not counted as set up
  (`BareBodies`), and no handle is kept for two players (`PathsApart`). Excepted are
  `misfits` and `unfound`, as in the code. The frame
  task loops over the players; the loop is one step per player in the proof.
* **MotionProofs** `MotionSafe`, `MotionCombat`. `RingOrdered` speaks
  of neighbours; the proof carries `Sorted`, which speaks of any two samples,
  because the bracket of `SampleAt` is found by looking through the whole ring. It
  exists by the least-number principle (`Least`, `BracketFound`), and the place
  inside it is between its two samples however the division rounds (`Part`,
  `BetweenIs`). A frame is treated by what `Fire` does to a graph that is in the
  states of the last flags (`FireFollows`), once for the living and once for the
  dead (`Puppet`).
* **BlobsProofs** `BlobsSafe`, `BlobsWhole`. First what the code computes: an index
  of a blob lies in exactly one chunk (`Located`, `Apart`), the chunks of a blob
  joined in order are the blob (`JoinedParts`), and an assembly without a hole is a
  blob of its kind and length (`Gathered`). `Joined` is a fold; no induction is
  needed, since the recursive function behind it is determined by its equations: a
  first index where it differs would be a least one (`Least`, `Flattened`).
  `Typed` are the bounds, which hold after losses too: a mixture of two blobs of
  one length still has the shape of a blob. `Streams` is about what has lost
  nothing. In a stream each chunk is followed, within its kind, by the rest of its
  blob, then by the start of another, and the assembly it meets holds the chunks
  already taken (`InStep`); an assembly lacks only its last chunks (`Filled`), so it
  cannot become whole from the end of another blob. `PushInStep` and `TakeInStep`
  say that sending a whole blob and taking a chunk keep this, once for both ends of
  the way. After a cut the chunks left in an assembly belong to a blob whose rest
  never comes; the next one starts with its first chunk and overwrites them in
  order.
  For the rate, `Rates` carries the partial sums of `admitted`: what was admitted
  since the window was opened is what the bucket counts, and of the window before,
  at most the limit less one is left in sight, because the chunk that opened it is
  at least a whole window old (`RateTaken`, `RateTick`, `TotalsIs`).

The lemmas about the queue and map operators of `Containers` open `NetIoProofs`,
`SimProofs` and, for what is queued and in which order, `ServerProofs`.

Only model-checked: liveness and all that needs fairness (`DeadClientsLeave`,
`PendingEnds`, `ShutdownEnds`, `LeaveEnds`, `JoinSettles`, `DropNoticed`,
`PuppetsReleased`, `Settles`, `LooksArrive`, `FlowEnds`), which is out of the prover's
reach. Every invariant, every action property and both refinements that the
passing runs check are theorems.

## 5. Not modelled

Drawing (overlay, compass, name tags, forms), presence and Steam, hooks,
configuration files, log and console formatting, the launch of the server
process, the crash handler, dumps and the crash reporter: they read the session or
write files. The leave button of the overlay is the one that changes something
(`overlay.cpp:248`): it is a `CMP_Leave` of the game thread, the `Leave` of `Client`
and `View`. Frame bytes, sanitizing and sizes
(unit tests cover these), and with them two threads' partial sends on one socket
(`udp_win.cpp:97`); rounding in the interpolation; faces, morphs and tints, which
travel in the same blob as the outfit; hits (`combat.cpp`) and the host's reading
of actors; the `.bak` folder; `help`, `status`, `players`, `bans` and `motd`, which
change nothing.

## 6. Plan

Done: the server (`Containers`, `ServerTypes`, `Sim`, `NetIo`, `Server`,
`PersistWorker`, `Store`), the client session (`Client`, `Link`), the plugin's view
and motion (`View`, `Motion`), looks (`Blobs`), the join flow (`Menu`), the abstract
session (`Party`) with two refinements, and the proofs of section 4: all safety
properties of all these modules and both refinements.

Next: the two hazards no property covers yet, both of the plugin's poll: the time
of the last message outlives the session (`poll.cpp:380`), and a UDP pose that
arrives after the TCP Bye of its player brings the ghost back (`poll.cpp:195`).
