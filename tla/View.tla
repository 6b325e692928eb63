-------------------------------- MODULE View --------------------------------
(***************************************************************************)
(* What a plugin shows of the others: the ghost of each remote player, his *)
(* look, his map marker, and the host's unique NPCs that a guest puppets.  *)
(* The server is the order in which things reach this plugin.  A pose is   *)
(* its location; how a ghost is moved and animated is Motion, how a look   *)
(* is put together from chunks is Blobs.                                   *)
(***************************************************************************)
EXTENDS Containers, FiniteSets

CONSTANTS
    Peers,      \* the peer ids of the other players
    Refs,       \* the unique NPCs (refFormId) of the host's world
    Locs, NoLoc, \* locationFormId, NoLoc for 0
    Kinds,      \* appearance and inventory, which are treated alike
    Looks, None, \* what a blob of a kind holds
    GhostSpawn  \* settings.ghostSpawn

ASSUME PeersAssumption == IsFiniteSet(Peers)

VARIABLES
    joined, isHost, here,  \* net.joined, net.isHost, PlayerLocationForm
    latestPose,            \* peer -> location
    looks,                 \* kind -> peer -> blob (appearances, inventories)
    byPeer,                \* peer -> handle of his ghost
    bodies,                \* handle -> the enabled actor it leads to
    clones,                \* peers with a base in g_peerBases, g_cloneFormIds
    sourceFailed,          \* g_cloneSourceFailed
    ready,                 \* g_ghostReady
    frozen, npcFrozen,     \* the keys of g_freezeTicks: peers, npcs
    marked,                \* g_mapMarkerHandles
    markers,               \* player->currentMapMarkers, those of the plugin
    latestActors, fresh,   \* npc -> pose, npcs seen in the last 1.5 s
    puppeted,              \* g_puppeted
    npcAi,                 \* the NPC's own AI runs
    players,               \* peer -> "out", "in" or "gone": his Bye has come
    respawned,             \* history: peers whose body the engine took away
    misfits,               \* peers for whom the engine made a reference that
                           \* is no Actor, which nobody remembers
    unfound                \* history: NPCs last let go when GetFormByID did
                           \* not find them

ghostVars == <<byPeer, bodies, clones, sourceFailed, ready, frozen, respawned,
               misfits>>
actorVars == <<latestActors, fresh, puppeted, npcAi, npcFrozen, unfound>>
markVars  == <<marked, markers>>
knownVars == <<latestPose, looks>>
viewVars  == <<joined, isHost, here, knownVars, ghostVars, actorVars, markVars,
               players>>

Body == [peer : Peers, has3D : BOOLEAN, ai : BOOLEAN,
         worn : [Kinds -> Looks \cup {None}]]
Handles == 1..(2 * Cardinality(Peers))

(* Type invariant of the plugin's view and of the wire. *)
ViewTypeOK ==
    /\ joined \in BOOLEAN /\ isHost \in BOOLEAN /\ here \in Locs \cup {NoLoc}
    /\ DOMAIN latestPose \subseteq Peers
    /\ \A p \in DOMAIN latestPose : latestPose[p] \in Locs \cup {NoLoc}
    /\ looks \in [Kinds -> [Peers -> Looks \cup {None}]]
    /\ DOMAIN byPeer \subseteq Peers
    /\ \A p \in DOMAIN byPeer : byPeer[p] \in Handles
    /\ DOMAIN bodies \subseteq Handles
    /\ \A b \in DOMAIN bodies : bodies[b] \in Body
    /\ clones \subseteq Peers /\ sourceFailed \in BOOLEAN
    /\ ready \subseteq Peers /\ frozen \subseteq Peers
    /\ marked \subseteq Handles /\ markers \subseteq Handles
    /\ DOMAIN latestActors \subseteq Refs
    /\ \A r \in DOMAIN latestActors : latestActors[r] \in Locs \cup {NoLoc}
    /\ fresh \subseteq Refs /\ puppeted \subseteq Refs
    /\ npcAi \in [Refs -> BOOLEAN] /\ npcFrozen \subseteq Refs
    /\ players \in [Peers -> {"out", "in", "gone"}]
    /\ respawned \subseteq Peers /\ misfits \subseteq Peers
    /\ unfound \subseteq Refs

NoLooks == [k \in Kinds |-> [p \in Peers |-> None]]

ViewInit ==
    /\ joined = FALSE /\ isHost = FALSE /\ here = NoLoc
    /\ latestPose = <<>> /\ looks = NoLooks
    /\ byPeer = <<>> /\ bodies = <<>> /\ clones = {} /\ sourceFailed = FALSE
    /\ ready = {} /\ frozen = {} /\ respawned = {} /\ misfits = {}
    /\ marked = {} /\ markers = {}
    /\ latestActors = <<>> /\ fresh = {} /\ puppeted = {}
    /\ npcAi = [r \in Refs |-> TRUE] /\ npcFrozen = {} /\ unfound = {}
    /\ players = [p \in Peers |-> "out"]

-----------------------------------------------------------------------------
(* The session *)

HasBody(p) == p \in DOMAIN byPeer /\ byPeer[p] \in DOMAIN bodies

(* CMP_UnfreezeRemoteActor, of those among S whose form is there.  It      *)
(* leaves g_freezeTicks as it is.                                          *)
Unfrozen(S, there) ==
    [r \in Refs |-> IF r \in S \cap there THEN TRUE ELSE npcAi[r]]
Unfound(S, there) == (unfound \ S) \cup (S \ there)

(* CMP_DespawnGhosts disables every ghost that byPeer leads to. *)
ClearAllClones ==
    /\ clones' = {} /\ sourceFailed' = FALSE
    /\ ready' = {} /\ frozen' = {} /\ npcFrozen' = {}

Despawned == [b \in DOMAIN bodies \ {byPeer[p] : p \in DOMAIN byPeer} |-> bodies[b]]

DespawnGhosts ==
    /\ bodies' = Despawned
    /\ byPeer' = <<>> /\ respawned' = {}
    /\ ClearAllClones
    /\ UNCHANGED misfits

ClearMapMarkers == markers' = markers \ marked /\ marked' = {}

ClearHostActors ==
    /\ \E there \in SUBSET Refs :
         /\ npcAi' = Unfrozen(puppeted, there)
         /\ unfound' = Unfound(puppeted, there)
    /\ puppeted' = {}
    /\ fresh' = {} /\ latestActors' = <<>>

(* CMP_Leave, as far as the view goes. *)
Cleared ==
    /\ DespawnGhosts
    /\ ClearMapMarkers
    /\ latestPose' = <<>> /\ looks' = NoLooks
    /\ ClearHostActors

(* CMP_Join leaves any session, and opens new sockets. *)
Join ==
    /\ here # NoLoc
    /\ Cleared
    /\ joined' = TRUE /\ isHost' = FALSE
    /\ players' = [p \in Peers |-> "out"]
    /\ UNCHANGED here

Leave ==
    /\ joined
    /\ Cleared
    /\ joined' = FALSE /\ isHost' = FALSE
    /\ players' = [p \in Peers |-> "out"]
    /\ UNCHANGED here

-----------------------------------------------------------------------------
(* CMP_NetPoll.  Frames come in the order the server sent them: a look is  *)
(* of a player whose Bye has not been sent.  A datagram may be lost, come  *)
(* twice or late, even after the Bye of its player.  A pose is stored when *)
(* the poll ends, after the frames; nothing in between looks at it.        *)
OnWelcome(host) ==
    /\ joined
    /\ isHost' = host
    /\ UNCHANGED <<joined, here, knownVars, ghostVars, actorVars, markVars,
                   players>>

(* The ghost itself goes in the next ApplyGhosts. *)
ForgetPose(p) == latestPose' = Without(latestPose, p)

OnBye(p) ==
    /\ joined /\ players[p] = "in"
    /\ players' = [players EXCEPT ![p] = "gone"]
    /\ ForgetPose(p)
    /\ looks' = [k \in Kinds |-> [looks[k] EXCEPT ![p] = None]]
    /\ UNCHANGED <<joined, isHost, here, ghostVars, actorVars, markVars>>

(* A complete blob is kept, and put on the ghost if there is one. *)
WearLater(p, k, x) == bodies
Wear(p, k, x) ==
    IF HasBody(p) THEN [bodies EXCEPT ![byPeer[p]].worn[k] = x] ELSE bodies

OnLook(p, k, x) ==
    /\ joined /\ players[p] = "in"
    /\ looks' = [looks EXCEPT ![k][p] = x]
    /\ bodies' = Wear(p, k, x)
    /\ UNCHANGED <<joined, isHost, here, latestPose, byPeer, clones,
                   sourceFailed, ready, frozen, respawned, misfits, actorVars,
                   markVars, players>>

OnPlayerPose(p, loc) ==
    /\ joined /\ players[p] # "out"
    /\ latestPose' = Put(latestPose, p, loc)
    /\ UNCHANGED <<joined, isHost, here, looks, ghostVars, actorVars, markVars,
                   players>>

OnActorPose(r, loc) ==
    /\ joined /\ ~isHost
    /\ latestActors' = Put(latestActors, r, loc)
    /\ fresh' = fresh \cup {r}
    /\ UNCHANGED <<joined, isHost, here, knownVars, ghostVars, puppeted, npcAi,
                   npcFrozen, unfound, markVars, players>>

-----------------------------------------------------------------------------
(* One tick after the poll: CMP_ApplyGhosts, CMP_ApplyHostActors and       *)
(* CMP_IndicatorsTick.                                                     *)
Elsewhere(loc) == loc # NoLoc /\ here # NoLoc /\ loc # here
Live == {p \in DOMAIN latestPose : GhostSpawn /\ ~Elsewhere(latestPose[p])}

(* FreezeGhost counts its calls for each id, and switches the AI off at    *)
(* the first; only the first is told from the others here.                 *)
Held(ai, before) == before /\ ai

Dressed(p, worn) ==
    [k \in Kinds |-> IF looks[k][p] = None THEN worn[k] ELSE looks[k][p]]

(* MoveGhost on a body with 3D: the look is put on once. *)
Undressed(p) == p \notin ready
Moved(p, body) ==
    IF ~body.has3D THEN body
    ELSE [body EXCEPT !.ai = Held(@, p \in frozen),
                      !.worn = IF Undressed(p) THEN Dressed(p, @) ELSE @]

(* CloneGhostBase and SpawnGhostNative: no clone, no reference, one that   *)
(* is no Actor and stays where it was put, a body whose 3D is not loaded   *)
(* yet, or one that is set up at once (FinishGhostSetup) and then moved.   *)
(* A base that is there is used again, and a source that was missing once  *)
(* is not looked for again.                                                *)
Results == {"moved", "noSource", "noClone", "refused", "misfit", "no3D",
            "ready"}
CloneStays == {"refused", "misfit", "no3D", "ready"}
FindCloneSource == IF sourceFailed THEN {"missing"} ELSE {"missing", "found"}
Outcomes(p) ==
    IF p \in clones THEN CloneStays
    ELSE UNION {IF source = "missing" THEN {"noSource"}
                ELSE CloneStays \cup {"noClone"} : source \in FindCloneSource}

(* FinishGhostSetup: a body with 3D is held and dressed at once. *)
FinishGhostSetup(p, body) ==
    IF ~body.has3D THEN body
    ELSE [body EXCEPT !.ai = Held(@, p \in frozen), !.worn = Dressed(p, @)]
Spawned(p, has3D) ==
    FinishGhostSetup(p, [peer |-> p, has3D |-> has3D, ai |-> TRUE,
                         worn |-> [k \in Kinds |-> None]])

(* Handles of new bodies: any that are neither in use nor remembered. *)
FreeHandles == Handles \ (DOMAIN bodies \cup {byPeer[p] : p \in DOMAIN byPeer})
HandleFor(p, New) ==
    LET inOrder == CHOOSE f \in [New -> FreeHandles] :
                     \A q, r \in New : f[q] = f[r] => q = r
    IN  inOrder[p]

(* The bodies of the players who are not in live any more are disabled and *)
(* their clones dropped (DropPeerClone), if byPeer knows them.             *)
Dropped == DOMAIN byPeer \ Live
DisabledNone == {}
Disabled == {byPeer[p] : p \in Dropped}

ApplyGhosts ==
    IF here = NoLoc THEN UNCHANGED ghostVars
    ELSE \E out \in {f \in [Live -> Results] :
                       \A p \in Live : IF HasBody(p) THEN f[p] = "moved"
                                       ELSE f[p] \in Outcomes(p)} :
      LET New    == {p \in Live : out[p] \in {"no3D", "ready"}}
          Hdl(p) == IF p \in New THEN HandleFor(p, New) ELSE byPeer[p]
          Bodied == {p \in Live : HasBody(p) \/ p \in New}
          Seen3D == {p \in Bodied : IF p \in New THEN out[p] = "ready"
                                    ELSE bodies[byPeer[p]].has3D}
          kept   == DOMAIN bodies \ Disabled
      IN  /\ byPeer' = [p \in (DOMAIN byPeer \cap Live) \cup New |-> Hdl(p)]
          /\ bodies' = [b \in kept \cup {Hdl(p) : p \in New} |->
                 IF b \in kept
                 THEN LET p == bodies[b].peer
                      IN  IF p \in Bodied /\ byPeer[p] = b
                          THEN Moved(p, bodies[b]) ELSE bodies[b]
                 ELSE LET p == CHOOSE q \in New : Hdl(q) = b
                      IN  Spawned(p, out[p] = "ready")]
          /\ clones' = (clones \ Dropped)
                         \cup {p \in Live : out[p] \in CloneStays}
          /\ sourceFailed' = (sourceFailed \/ \E p \in Live : out[p] = "noSource")
          /\ ready' = (ready \ Dropped) \cup Seen3D
          /\ frozen' = (frozen \ Dropped) \cup Seen3D
          /\ respawned' = (respawned \ Dropped)
                            \cup {p \in New : p \in DOMAIN byPeer}
          /\ misfits' = misfits \cup {p \in Live : out[p] = "misfit"}

(* The NPCs with a fresh pose in this place. *)
Puppets == {r \in fresh : ~Elsewhere(latestActors[r])}

MoveUnique(r) == Held(npcAi[r], r \in npcFrozen)

(* Mutant: the NPCs held before are not gone through, so none is let go. *)
ApplyHostActorsKept(there, found) ==
    IF ~joined \/ isHost \/ here = NoLoc
    THEN UNCHANGED <<puppeted, npcAi, npcFrozen, unfound>>
    ELSE LET live == Puppets \cap found
         IN  /\ puppeted' = puppeted \cup live
             /\ npcAi' = [r \in Refs |-> IF r \in live THEN MoveUnique(r)
                                         ELSE npcAi[r]]
             /\ npcFrozen' = npcFrozen \cup live
             /\ UNCHANGED unfound

(* CMP_ApplyHostActors: those of them that this game knows (there) and may *)
(* be held (found) are moved and held; the others are forgotten, and let   *)
(* go if they are there.                                                   *)
ApplyHostActors(there, found) ==
    IF ~joined \/ isHost \/ here = NoLoc
    THEN UNCHANGED <<puppeted, npcAi, npcFrozen, unfound>>
    ELSE LET live == Puppets \cap found
         IN  /\ puppeted' = live
             /\ npcAi' = [r \in Refs |-> IF r \in live THEN MoveUnique(r)
                                         ELSE Unfrozen(puppeted, there)[r]]
             /\ npcFrozen' = npcFrozen \cup live
             /\ unfound' = Unfound(puppeted \ live, there)

(* CMP_IndicatorsTick: a marker for the ghost of every player in the same  *)
(* place.  None when no pose has come for five seconds.                    *)
SameWorldspace(p) == here # NoLoc /\ latestPose[p] = here

Remarked(shown) == (markers \cup (shown \ marked)) \ (marked \ shown)

CollectPeers == {p \in DOMAIN latestPose : SameWorldspace(p)}

IndicatorsTick ==
    LET next == {byPeer'[p] : p \in {q \in CollectPeers : q \in DOMAIN byPeer'}}
    IN  \E shown \in (IF joined THEN {next} ELSE {}) \cup {{}} :
          /\ markers' = Remarked(shown)
          /\ marked' = shown

Tick ==
    /\ ApplyGhosts
    /\ \E there \in SUBSET Refs : \E found \in SUBSET there :
         ApplyHostActors(there, found)
    /\ IndicatorsTick
    /\ UNCHANGED <<joined, isHost, here, knownVars, latestActors, fresh,
                   players>>

-----------------------------------------------------------------------------
(* The game and the server *)

(* The player changes place, or is between two. *)
Travel(loc) ==
    /\ here' = loc /\ here # loc
    /\ UNCHANGED <<joined, isHost, knownVars, ghostVars, actorVars, markVars,
                   players>>

(* The engine loads the 3D of a body, or takes the body away. *)
Load3D(b) ==
    /\ ~bodies[b].has3D
    /\ bodies' = [bodies EXCEPT ![b].has3D = TRUE]
    /\ UNCHANGED <<joined, isHost, here, knownVars, byPeer, clones,
                   sourceFailed, ready, frozen, respawned, misfits, actorVars,
                   markVars, players>>

Unload(b) ==
    /\ bodies' = Without(bodies, b)
    /\ UNCHANGED <<joined, isHost, here, knownVars, byPeer, clones,
                   sourceFailed, ready, frozen, respawned, misfits, actorVars,
                   markVars, players>>

(* 1.5 seconds pass without a pose of the NPC. *)
GoesStale(r) ==
    /\ fresh' = fresh \ {r} /\ r \in fresh
    /\ UNCHANGED <<joined, isHost, here, knownVars, ghostVars, latestActors,
                   puppeted, npcAi, npcFrozen, unfound, markVars, players>>

(* Another player joins, or joins again with the peer id he had. *)
PeerJoins(p) ==
    /\ joined /\ players[p] # "in"
    /\ players' = [players EXCEPT ![p] = "in"]
    /\ UNCHANGED <<joined, isHost, here, knownVars, ghostVars, actorVars,
                   markVars>>

Poll ==
    \/ \E host \in BOOLEAN : OnWelcome(host)
    \/ \E p \in Peers :
         \/ OnBye(p)
         \/ \E k \in Kinds, x \in Looks : OnLook(p, k, x)
         \/ \E loc \in Locs \cup {NoLoc} : OnPlayerPose(p, loc)
    \/ \E r \in Refs, loc \in Locs \cup {NoLoc} : OnActorPose(r, loc)
Game ==
    \/ \E loc \in Locs \cup {NoLoc} : Travel(loc)
    \/ \E b \in DOMAIN bodies : Load3D(b) \/ Unload(b)
    \/ \E r \in Refs : GoesStale(r)
    \/ \E p \in Peers : PeerJoins(p)

ViewNext == Join \/ Leave \/ Poll \/ Tick \/ Game

ViewSpec == ViewInit /\ [][ViewNext]_viewVars

(* The task runs on every frame of the game. *)
FairViewSpec == ViewSpec /\ WF_viewVars(Tick)

-----------------------------------------------------------------------------
(* Properties *)

(* No body is left standing that the plugin has lost track of: each one    *)
(* enabled in the world is the one byPeer names for its player, so that    *)
(* CMP_ApplyGhosts and CMP_DespawnGhosts can take it away.  A reference    *)
(* that turned out to be no Actor is not a body: those are misfits.        *)
NoStrays ==
    \A b \in DOMAIN bodies :
      LET p == bodies[b].peer IN p \in DOMAIN byPeer /\ byPeer[p] = b

(* The base of every ghost is one of the plugin's own clones, so that      *)
(* CMP_IsPaintableGhostBase accepts it: no look is painted on an NPC of    *)
(* the game, and no ghost is published as an NPC of the host.              *)
GhostsAreClones == \A b \in DOMAIN bodies : bodies[b].peer \in clones

(* The markers on the Pip-Boy map are those the plugin remembers having    *)
(* put there, and each is the handle of a player's ghost.                  *)
MarkersFollow ==
    /\ markers = marked
    /\ marked \subseteq {byPeer[p] : p \in DOMAIN byPeer}

(* A ghost that has been set up wears the last look of each kind that came *)
(* from its player and its AI is off, in whatever order looks, poses and   *)
(* the 3D arrive.  The second body of a player is excepted: g_ghostReady   *)
(* and g_freezeTicks still speak of the first.                             *)
GhostsDressed ==
    \A b \in DOMAIN bodies :
      LET body == bodies[b]
          p    == body.peer
      IN  body.has3D /\ p \in ready \ respawned =>
            /\ ~body.ai
            /\ \A k \in Kinds : looks[k][p] \in {None, body.worn[k]}

(* After CMP_Leave no ghost and no marker is left in the world, and every  *)
(* NPC has its AI, but for those that GetFormByID did not find at the      *)
(* moment they were let go: they are forgotten as they are.                *)
LeaveFrees ==
    ~joined => /\ bodies = <<>> /\ markers = {} /\ puppeted = {}
               /\ \A r \in Refs \ unfound : npcAi[r]

(* What the plugin puts into the game it can take back, and does: bodies   *)
(* have an owner and a base of the plugin's own, markers are remembered,   *)
(* and a session that ends, at whatever point of spawning, loading or      *)
(* travelling, takes them with it.  Two things it loses: a reference that  *)
(* is no Actor (misfits), and the AI of an NPC it did not find (unfound).  *)
NothingLeftBehind ==
    ViewTypeOK /\ NoStrays /\ GhostsAreClones /\ MarkersFollow /\ LeaveFrees

(* A guest lets an NPC go for which no pose of the host comes any more. *)
PuppetsReleased ==
    \A r \in Refs :
      r \in puppeted \ fresh ~> \/ r \notin puppeted \/ r \in fresh
                                 \/ isHost \/ here = NoLoc
=============================================================================
