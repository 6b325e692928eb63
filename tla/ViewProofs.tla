------------------------------ MODULE ViewProofs ------------------------------
(***************************************************************************)
(* Proofs about View: the ghosts, markers and puppets a plugin puts into   *)
(* the game are the ones it can take back, and does when the session ends, *)
(* for any number of players, NPCs, places and looks.                      *)
(***************************************************************************)
EXTENDS View, FunctionTheorems, FiniteSetTheorems, TLAPS

(* Between two finite sets of which the second is no smaller there is an   *)
(* injection.                                                              *)
LEMMA InjectionExists ==
    ASSUME NEW A, NEW B, IsFiniteSet(A), IsFiniteSet(B), Cardinality(A) =< Cardinality(B)
    PROVE  \E f \in [A -> B] : \A q, r \in A : f[q] = f[r] => q = r
<1> DEFINE m == Cardinality(A)
           n == Cardinality(B)
<1>1. m \in Nat /\ n \in Nat /\ ExistsBijection(1..m, A) /\ ExistsBijection(1..n, B)
    BY FS_CardinalityType
<1>2. ExistsBijection(A, 1..m)
    BY <1>1, Fun_ExistsBijSymmetric
<1>3. PICK g \in Bijection(A, 1..m) : TRUE
    BY <1>2 DEF ExistsBijection
<1>4. PICK h \in Bijection(1..n, B) : TRUE
    BY <1>1 DEF ExistsBijection
<1>5. /\ g \in [A -> 1..m] /\ \A q, r \in A : g[q] = g[r] => q = r
      /\ h \in [1..n -> B] /\ \A i, j \in 1..n : h[i] = h[j] => i = j
    BY <1>3, <1>4 DEF Bijection, Injection, IsInjective
<1>6. \A i \in 1..m : i \in 1..n
    BY <1>1
<1> DEFINE f == [a \in A |-> h[g[a]]]
<1>7. f \in [A -> B]
    BY <1>5, <1>6
<1>8. \A q, r \in A : f[q] = f[r] => q = r
    BY <1>5, <1>6
<1>9. QED
    BY <1>7, <1>8

-----------------------------------------------------------------------------
(* The parts of the type invariant *)

KnownOK ==
    /\ joined \in BOOLEAN /\ isHost \in BOOLEAN /\ here \in Locs \cup {NoLoc}
    /\ DOMAIN latestPose \subseteq Peers
    /\ \A p \in DOMAIN latestPose : latestPose[p] \in Locs \cup {NoLoc}
    /\ players \in [Peers -> {"out", "in", "gone"}]
LooksOK == looks \in [Kinds -> [Peers -> Looks \cup {None}]]
PathsOK ==
    /\ DOMAIN byPeer \subseteq Peers
    /\ \A p \in DOMAIN byPeer : byPeer[p] \in Handles
BodiesOK ==
    /\ DOMAIN bodies \subseteq Handles
    /\ \A b \in DOMAIN bodies : bodies[b] \in Body
GhostsOK ==
    /\ clones \subseteq Peers /\ sourceFailed \in BOOLEAN
    /\ ready \subseteq Peers /\ frozen \subseteq Peers /\ respawned \subseteq Peers
    /\ misfits \subseteq Peers
MarksOK == marked \subseteq Handles /\ markers \subseteq Handles
ActorsOK ==
    /\ DOMAIN latestActors \subseteq Refs
    /\ \A r \in DOMAIN latestActors : latestActors[r] \in Locs \cup {NoLoc}
    /\ fresh \subseteq Refs /\ puppeted \subseteq Refs
    /\ npcAi \in [Refs -> BOOLEAN] /\ npcFrozen \subseteq Refs /\ unfound \subseteq Refs

LEMMA TypeParts ==
    ViewTypeOK <=> /\ KnownOK /\ LooksOK /\ PathsOK /\ BodiesOK /\ GhostsOK
                   /\ MarksOK /\ ActorsOK
    BY DEF ViewTypeOK, KnownOK, LooksOK, PathsOK, BodiesOK, GhostsOK, MarksOK, ActorsOK

LEMMA TypePartsNext ==
    KnownOK' /\ LooksOK' /\ PathsOK' /\ BodiesOK' /\ GhostsOK' /\ MarksOK' /\ ActorsOK'
      => ViewTypeOK'
    BY DEF ViewTypeOK, KnownOK, LooksOK, PathsOK, BodiesOK, GhostsOK, MarksOK, ActorsOK,
           Handles, Body

-----------------------------------------------------------------------------
(* The inductive invariant *)

(* Outside a session no pose is known, so no ghost is made. *)
Posed == ~joined => DOMAIN latestPose = {}

(* Only a puppet has its AI switched off, or one that was lost. *)
HeldArePuppets == \A r \in Refs : npcAi[r] \/ r \in puppeted \/ r \in unfound

(* g_ghostReady and g_freezeTicks name the same players, all of them with  *)
(* a handle.                                                               *)
SetUpTogether == frozen = ready /\ ready \subseteq DOMAIN byPeer

(* A player whose body is still without 3D has not been set up, unless it  *)
(* is his second body.                                                     *)
BareBodies ==
    \A b \in DOMAIN bodies :
       ~bodies[b].has3D => bodies[b].peer \notin ready \ respawned

(* No handle is remembered for two players. *)
PathsApart == \A p, q \in DOMAIN byPeer : byPeer[p] = byPeer[q] => p = q

ViewIInv ==
    /\ ViewTypeOK /\ NoStrays /\ GhostsAreClones /\ MarkersFollow /\ LeaveFrees
    /\ GhostsDressed /\ Posed /\ HeldArePuppets /\ SetUpTogether /\ BareBodies
    /\ PathsApart

LEMMA ViewInitInv == ViewInit => ViewIInv
<1> SUFFICES ASSUME ViewInit PROVE ViewIInv
    OBVIOUS
<1>1. /\ DOMAIN bodies = {} /\ DOMAIN byPeer = {} /\ DOMAIN latestPose = {}
      /\ DOMAIN latestActors = {} /\ ready = {} /\ frozen = {} /\ marked = {}
      /\ markers = {} /\ puppeted = {} /\ clones = {} /\ respawned = {}
      /\ misfits = {} /\ unfound = {}
    BY DEF ViewInit
<1>2. npcAi = [r \in Refs |-> TRUE]
    BY DEF ViewInit
<1>3. \A r \in Refs : npcAi[r]
    BY <1>2
<1>4. npcAi \in [Refs -> BOOLEAN]
    BY <1>2
<1>5. ViewTypeOK
  <2>1. LooksOK
      BY DEF ViewInit, LooksOK, NoLooks
  <2>2. KnownOK /\ PathsOK /\ BodiesOK /\ GhostsOK /\ MarksOK
      BY <1>1 DEF ViewInit, KnownOK, PathsOK, BodiesOK, GhostsOK, MarksOK
  <2>3. ActorsOK
      BY <1>1, <1>4 DEF ViewInit, ActorsOK
  <2>4. QED
      BY <2>1, <2>2, <2>3, TypeParts
<1>6. NoStrays /\ GhostsAreClones /\ GhostsDressed /\ BareBodies
    BY <1>1 DEF NoStrays, GhostsAreClones, GhostsDressed, BareBodies
<1>7. MarkersFollow /\ Posed /\ SetUpTogether /\ PathsApart
    BY <1>1 DEF MarkersFollow, Posed, SetUpTogether, PathsApart
<1>8. LeaveFrees /\ HeldArePuppets
    BY <1>1, <1>3 DEF ViewInit, LeaveFrees, HeldArePuppets
<1>9. QED
    BY <1>5, <1>6, <1>7, <1>8 DEF ViewIInv

-----------------------------------------------------------------------------
(* Steps that leave the game as it is *)

LEMMA QuietStep ==
    ASSUME ViewIInv, UNCHANGED <<joined, ghostVars, markVars, puppeted, npcAi, npcFrozen,
                       unfound>>,
           KnownOK', LooksOK', ActorsOK', Posed',
           \A k \in Kinds, p \in Peers : looks'[k][p] \in {looks[k][p], None}
    PROVE  ViewIInv'
<1>0. /\ UNCHANGED <<joined, byPeer, bodies, clones, sourceFailed, ready, frozen,
                     respawned, misfits, marked, markers, puppeted, npcAi, unfound>>
      /\ PathsOK /\ BodiesOK /\ GhostsOK /\ MarksOK
    BY TypeParts DEF ViewIInv, ghostVars, markVars
<1>1. PathsOK' /\ BodiesOK' /\ GhostsOK' /\ MarksOK'
    BY <1>0 DEF PathsOK, BodiesOK, GhostsOK, MarksOK, Handles, Body
<1>2. ViewTypeOK'
    BY <1>1, TypePartsNext
<1>3. /\ NoStrays' /\ GhostsAreClones' /\ MarkersFollow' /\ SetUpTogether' /\ BareBodies'
      /\ PathsApart'
    BY <1>0 DEF ViewIInv, NoStrays, GhostsAreClones, MarkersFollow, SetUpTogether,
                BareBodies, PathsApart
<1>4. LeaveFrees' /\ HeldArePuppets'
  <2>1. /\ joined' = joined /\ bodies' = bodies /\ markers' = markers
        /\ puppeted' = puppeted /\ npcAi' = npcAi /\ unfound' = unfound
      BY <1>0
  <2>2. LeaveFrees /\ HeldArePuppets
      BY DEF ViewIInv
  <2>3. LeaveFrees'
      BY <2>1, <2>2 DEF LeaveFrees
  <2>4. HeldArePuppets'
      BY <2>1, <2>2 DEF HeldArePuppets
  <2>5. QED
      BY <2>3, <2>4
<1>5. GhostsDressed'
  <2>1. \A b \in DOMAIN bodies : bodies[b].peer \in Peers
      BY <1>0 DEF BodiesOK, Body
  <2>2. QED
      BY <1>0, <2>1 DEF ViewIInv, GhostsDressed
<1>6. QED
    BY <1>2, <1>3, <1>4, <1>5 DEF ViewIInv

LEMMA PutKnown ==
    ASSUME NEW f, NEW K, DOMAIN f \subseteq K, NEW V, \A x \in DOMAIN f : f[x] \in V,
           NEW k \in K, NEW v \in V
    PROVE  /\ DOMAIN Put(f, k, v) \subseteq K
           /\ \A x \in DOMAIN Put(f, k, v) : Put(f, k, v)[x] \in V
    BY DEF Put

LEMMA PollQuiet ==
    ASSUME ViewIInv,
           \/ \E host \in BOOLEAN : OnWelcome(host)
           \/ \E p \in Peers : OnBye(p)
           \/ \E p \in Peers, loc \in Locs \cup {NoLoc} : OnPlayerPose(p, loc)
           \/ \E r \in Refs, loc \in Locs \cup {NoLoc} : OnActorPose(r, loc)
    PROVE  ViewIInv'
<1>0. KnownOK /\ LooksOK /\ ActorsOK /\ Posed
    BY TypeParts DEF ViewIInv
<1>1. ASSUME NEW host \in BOOLEAN, OnWelcome(host) PROVE ViewIInv'
  <2>1. /\ UNCHANGED <<joined, ghostVars, markVars, puppeted, npcAi, npcFrozen,
                       unfound>>
        /\ UNCHANGED <<here, latestPose, looks, latestActors, fresh, players>>
        /\ isHost' = host
      BY <1>1 DEF OnWelcome, knownVars, actorVars
  <2>2. KnownOK' /\ LooksOK' /\ ActorsOK' /\ Posed'
      BY <1>0, <2>1 DEF KnownOK, LooksOK, ActorsOK, Posed
  <2>3. QED
      BY <2>1, <2>2, QuietStep
<1>2. ASSUME NEW p \in Peers, OnBye(p) PROVE ViewIInv'
  <2>1. /\ UNCHANGED <<joined, ghostVars, markVars, puppeted, npcAi, npcFrozen,
                       unfound>>
        /\ UNCHANGED <<isHost, here, latestActors, fresh>>
        /\ latestPose' = Without(latestPose, p)
        /\ looks' = [k \in Kinds |-> [looks[k] EXCEPT ![p] = None]]
        /\ players' = [players EXCEPT ![p] = "gone"]
      BY <1>2 DEF OnBye, ForgetPose, actorVars
  <2>2. KnownOK'
      BY <1>0, <2>1 DEF KnownOK, Without
  <2>3. LooksOK' /\ \A k \in Kinds, q \in Peers : looks'[k][q] \in {looks[k][q], None}
      BY <1>0, <2>1 DEF LooksOK
  <2>4. ActorsOK' /\ Posed'
      BY <1>0, <2>1 DEF ActorsOK, Posed, Without
  <2>5. QED
      BY <2>1, <2>2, <2>3, <2>4, QuietStep
<1>3. ASSUME NEW p \in Peers, NEW loc \in Locs \cup {NoLoc}, OnPlayerPose(p, loc)
      PROVE  ViewIInv'
  <2>1. /\ UNCHANGED <<joined, ghostVars, markVars, puppeted, npcAi, npcFrozen,
                       unfound>>
        /\ UNCHANGED <<isHost, here, looks, latestActors, fresh, players>>
        /\ latestPose' = Put(latestPose, p, loc) /\ joined
      BY <1>3 DEF OnPlayerPose, actorVars
  <2>2. KnownOK'
    <3>1. /\ DOMAIN latestPose' \subseteq Peers
          /\ \A q \in DOMAIN latestPose' : latestPose'[q] \in Locs \cup {NoLoc}
        BY <1>0, <2>1, PutKnown DEF KnownOK
    <3>2. QED
        BY <1>0, <2>1, <3>1 DEF KnownOK
  <2>3. LooksOK' /\ ActorsOK' /\ Posed'
      BY <1>0, <2>1 DEF LooksOK, ActorsOK, Posed
  <2>4. QED
      BY <2>1, <2>2, <2>3, QuietStep
<1>4. ASSUME NEW r \in Refs, NEW loc \in Locs \cup {NoLoc}, OnActorPose(r, loc)
      PROVE  ViewIInv'
  <2>1. /\ UNCHANGED <<joined, ghostVars, markVars, puppeted, npcAi, npcFrozen,
                       unfound>>
        /\ UNCHANGED <<isHost, here, looks, latestPose, players>>
        /\ latestActors' = Put(latestActors, r, loc) /\ fresh' = fresh \cup {r}
      BY <1>4 DEF OnActorPose, knownVars
  <2>2. ActorsOK'
    <3>1. /\ DOMAIN latestActors' \subseteq Refs
          /\ \A q \in DOMAIN latestActors' : latestActors'[q] \in Locs \cup {NoLoc}
      <4>1. /\ DOMAIN latestActors \subseteq Refs
            /\ \A q \in DOMAIN latestActors : latestActors[q] \in Locs \cup {NoLoc}
          BY <1>0 DEF ActorsOK
      <4>2. QED
          BY <2>1, <4>1, PutKnown
    <3>2. QED
        BY <1>0, <2>1, <3>1 DEF ActorsOK
  <2>3. LooksOK' /\ KnownOK' /\ Posed'
      BY <1>0, <2>1 DEF LooksOK, KnownOK, Posed
  <2>4. QED
      BY <2>1, <2>2, <2>3, QuietStep
<1>5. QED
    BY <1>1, <1>2, <1>3, <1>4

LEMMA GameQuiet ==
    ASSUME ViewIInv,
           \/ \E loc \in Locs \cup {NoLoc} : Travel(loc)
           \/ \E r \in Refs : GoesStale(r)
           \/ \E p \in Peers : PeerJoins(p)
           \/ UNCHANGED viewVars
    PROVE  ViewIInv'
<1>0. KnownOK /\ LooksOK /\ ActorsOK /\ Posed
    BY TypeParts DEF ViewIInv
<1>1. /\ UNCHANGED <<joined, ghostVars, markVars, puppeted, npcAi, npcFrozen,
                       unfound>>
      /\ UNCHANGED <<isHost, looks, latestPose, latestActors>>
    BY DEF Travel, GoesStale, PeerJoins, viewVars, knownVars, actorVars
<1>2. /\ here' \in Locs \cup {NoLoc} /\ fresh' \subseteq fresh
      /\ players' \in [Peers -> {"out", "in", "gone"}]
    BY <1>0 DEF Travel, GoesStale, PeerJoins, viewVars, knownVars, actorVars, KnownOK
<1>3. KnownOK' /\ LooksOK' /\ ActorsOK' /\ Posed'
    BY <1>0, <1>1, <1>2 DEF KnownOK, LooksOK, ActorsOK, Posed
<1>4. QED
    BY <1>1, <1>3, QuietStep

-----------------------------------------------------------------------------
(* Steps that change the bodies alone *)

LEMMA BodyStep ==
    ASSUME ViewIInv, joined, LooksOK',
           UNCHANGED <<joined, isHost, here, latestPose, byPeer, clones, sourceFailed,
                       ready, frozen, respawned, misfits, actorVars, markVars, players>>,
           DOMAIN bodies' \subseteq DOMAIN bodies,
           \A b \in DOMAIN bodies' : bodies'[b] \in Body /\ bodies'[b].peer = bodies[b].peer,
           GhostsDressed', BareBodies'
    PROVE  ViewIInv'
<1>0. /\ UNCHANGED <<latestActors, fresh, puppeted, npcAi, npcFrozen, unfound, marked,
                     markers>>
      /\ KnownOK /\ PathsOK /\ BodiesOK /\ GhostsOK /\ MarksOK /\ ActorsOK
    BY TypeParts DEF ViewIInv, actorVars, markVars
<1>1. KnownOK' /\ PathsOK' /\ GhostsOK' /\ MarksOK' /\ ActorsOK'
    BY <1>0 DEF KnownOK, PathsOK, GhostsOK, MarksOK, ActorsOK, Handles
<1>2. BodiesOK'
    BY <1>0 DEF BodiesOK, Handles, Body
<1>3. ViewTypeOK'
    BY <1>1, <1>2, TypePartsNext
<1>4. NoStrays' /\ GhostsAreClones' /\ MarkersFollow' /\ SetUpTogether' /\ PathsApart'
    BY <1>0 DEF ViewIInv, NoStrays, GhostsAreClones, MarkersFollow, SetUpTogether,
                PathsApart
<1>5. LeaveFrees' /\ Posed'
    BY DEF LeaveFrees, Posed
<1>6. HeldArePuppets'
  <2>1. HeldArePuppets /\ UNCHANGED <<npcAi, puppeted, unfound>>
      BY <1>0 DEF ViewIInv
  <2>2. QED
      BY <2>1 DEF HeldArePuppets
<1>7. QED
    BY <1>3, <1>4, <1>5, <1>6 DEF ViewIInv

LEMMA BodyFields ==
    ASSUME NEW body \in Body
    PROVE  /\ body.peer \in Peers /\ body.has3D \in BOOLEAN /\ body.ai \in BOOLEAN
           /\ body.worn \in [Kinds -> Looks \cup {None}]
    BY DEF Body

(* Anybody's body is in the session. *)
LEMMA BodyJoined ==
    ASSUME ViewIInv, NEW b \in DOMAIN bodies PROVE joined
    BY DEF ViewIInv, LeaveFrees

LEMMA UnloadStep ==
    ASSUME ViewIInv, NEW b \in DOMAIN bodies, Unload(b) PROVE ViewIInv'
<1>1. /\ UNCHANGED <<joined, isHost, here, latestPose, looks, byPeer, clones, sourceFailed,
                     ready, frozen, respawned, misfits, actorVars, markVars, players>>
      /\ bodies' = Without(bodies, b)
    BY DEF Unload, knownVars
<1>2. /\ DOMAIN bodies' \subseteq DOMAIN bodies
      /\ \A d \in DOMAIN bodies' : bodies'[d] = bodies[d]
    BY <1>1 DEF Without
<1>3. LooksOK /\ BodiesOK /\ GhostsDressed /\ BareBodies /\ joined
    BY TypeParts, BodyJoined DEF ViewIInv
<1>4. LooksOK' /\ \A d \in DOMAIN bodies' : bodies'[d] \in Body
    BY <1>1, <1>2, <1>3 DEF LooksOK, BodiesOK
<1>5. GhostsDressed' /\ BareBodies'
    BY <1>1, <1>2, <1>3 DEF GhostsDressed, BareBodies
<1>6. QED
    BY <1>1, <1>2, <1>3, <1>4, <1>5, BodyStep

LEMMA LoadStep ==
    ASSUME ViewIInv, NEW b \in DOMAIN bodies, Load3D(b) PROVE ViewIInv'
<1>1. /\ UNCHANGED <<joined, isHost, here, latestPose, looks, byPeer, clones, sourceFailed,
                     ready, frozen, respawned, misfits, actorVars, markVars, players>>
      /\ bodies' = [bodies EXCEPT ![b].has3D = TRUE] /\ ~bodies[b].has3D
    BY DEF Load3D, knownVars
<1>2. LooksOK /\ BodiesOK /\ GhostsDressed /\ BareBodies /\ joined
    BY TypeParts, BodyJoined DEF ViewIInv
<1>3. bodies[b] \in Body
    BY <1>2 DEF BodiesOK
<1>4. /\ DOMAIN bodies' = DOMAIN bodies
      /\ \A d \in DOMAIN bodies \ {b} : bodies'[d] = bodies[d]
      /\ bodies'[b] = [bodies[b] EXCEPT !.has3D = TRUE]
    BY <1>1
<1>5. bodies'[b] \in Body /\ bodies'[b].peer = bodies[b].peer /\ bodies'[b].has3D
    BY <1>3, <1>4 DEF Body
<1>6. LooksOK'
    BY <1>1, <1>2 DEF LooksOK
<1>7. /\ \A d \in DOMAIN bodies' : bodies'[d] \in Body
      /\ \A d \in DOMAIN bodies' : bodies'[d].peer = bodies[d].peer
    BY <1>2, <1>4, <1>5 DEF BodiesOK
<1>8. bodies[b].peer \notin ready \ respawned
    BY <1>1, <1>2 DEF BareBodies
<1>9. BareBodies'
  <2>1. ASSUME NEW d \in DOMAIN bodies, ~bodies'[d].has3D
        PROVE  bodies'[d].peer \notin ready \ respawned
      BY <1>2, <1>4, <1>5, <2>1 DEF BareBodies
  <2>2. QED
      BY <1>1, <1>4, <2>1 DEF BareBodies
<1>10. GhostsDressed'
  <2>1. ASSUME NEW d \in DOMAIN bodies, bodies'[d].has3D,
               bodies'[d].peer \in ready \ respawned
        PROVE  /\ ~bodies'[d].ai
               /\ \A k \in Kinds : looks[k][bodies'[d].peer] \in {None, bodies'[d].worn[k]}
    <3>1. d # b
        BY <1>5, <1>8, <2>1
    <3>2. bodies'[d] = bodies[d]
        BY <1>4, <3>1
    <3>3. QED
        BY <1>2, <2>1, <3>2 DEF GhostsDressed
  <2>2. QED
      BY <1>1, <1>4, <2>1 DEF GhostsDressed
<1>11. QED
    BY <1>1, <1>2, <1>4, <1>6, <1>7, <1>9, <1>10, BodyStep

LEMMA LookStep ==
    ASSUME ViewIInv, NEW p \in Peers, NEW k \in Kinds, NEW x \in Looks, OnLook(p, k, x)
    PROVE  ViewIInv'
<1>1. /\ UNCHANGED <<joined, isHost, here, latestPose, byPeer, clones, sourceFailed,
                     ready, frozen, respawned, misfits, actorVars, markVars, players>>
      /\ looks' = [looks EXCEPT ![k][p] = x] /\ bodies' = Wear(p, k, x) /\ joined
    BY DEF OnLook
<1>2. LooksOK /\ BodiesOK /\ GhostsDressed /\ BareBodies /\ NoStrays
    BY TypeParts DEF ViewIInv
<1>3. /\ LooksOK' /\ looks'[k][p] = x
      /\ \A j \in Kinds, q \in Peers : j # k \/ q # p => looks'[j][q] = looks[j][q]
    BY <1>1, <1>2 DEF LooksOK
<1>4. ASSUME NEW b \in DOMAIN bodies
      PROVE  /\ bodies'[b] \in Body /\ bodies'[b].peer = bodies[b].peer
             /\ bodies'[b].has3D = bodies[b].has3D /\ bodies'[b].ai = bodies[b].ai
             /\ bodies[b].peer # p => bodies'[b] = bodies[b]
             /\ bodies[b].peer = p =>
                  /\ bodies'[b].worn[k] = x
                  /\ \A j \in Kinds \ {k} : bodies'[b].worn[j] = bodies[b].worn[j]
  <2>0. bodies[b] \in Body
      BY <1>2 DEF BodiesOK
  <2>1. CASE bodies[b].peer = p
    <3>1. HasBody(p) /\ byPeer[p] = b
        BY <1>2, <2>1 DEF NoStrays, HasBody
    <3>2. bodies'[b] = [bodies[b] EXCEPT !.worn = [bodies[b].worn EXCEPT ![k] = x]]
        BY <1>1, <3>1 DEF Wear
    <3>3. QED
        BY <2>0, <2>1, <3>2 DEF Body
  <2>2. CASE bodies[b].peer # p
    <3>1. bodies[b].peer \in DOMAIN byPeer /\ byPeer[bodies[b].peer] = b
        BY <1>2 DEF NoStrays
    <3>2. HasBody(p) => byPeer[p] # b
        BY <2>2, <3>1 DEF HasBody, ViewIInv, PathsApart
    <3>3. bodies'[b] = bodies[b]
        BY <1>1, <3>2 DEF Wear
    <3>4. QED
        BY <2>0, <2>2, <3>3
  <2>3. QED
      BY <2>1, <2>2
<1>5. DOMAIN bodies' = DOMAIN bodies
    BY <1>1 DEF Wear
<1>6. BareBodies'
    BY <1>1, <1>2, <1>4, <1>5 DEF BareBodies
<1>7. GhostsDressed'
  <2>1. ASSUME NEW b \in DOMAIN bodies, bodies'[b].has3D,
               bodies'[b].peer \in ready \ respawned
        PROVE  /\ ~bodies'[b].ai
               /\ \A j \in Kinds : looks'[j][bodies'[b].peer] \in {None, bodies'[b].worn[j]}
    <3>1. /\ ~bodies[b].ai
          /\ \A j \in Kinds : looks[j][bodies[b].peer] \in {None, bodies[b].worn[j]}
        BY <1>2, <1>4, <2>1 DEF GhostsDressed
    <3>2. bodies[b].peer \in Peers
        BY <1>2, BodyFields DEF BodiesOK
    <3>3. QED
        BY <1>3, <1>4, <3>1, <3>2
  <2>2. QED
      BY <1>1, <1>5, <2>1 DEF GhostsDressed
<1>8. QED
    BY <1>1, <1>3, <1>4, <1>5, <1>6, <1>7, BodyStep

-----------------------------------------------------------------------------
(* The session ends *)

(* What is let go has its AI again, or was not found. *)
LEMMA ReleasedFree ==
    ASSUME ActorsOK, HeldArePuppets, NEW S \in SUBSET puppeted, NEW there \in SUBSET Refs
    PROVE  /\ Unfrozen(S, there) \in [Refs -> BOOLEAN] /\ Unfound(S, there) \subseteq Refs
           /\ \A r \in Refs : \/ Unfrozen(S, there)[r] = TRUE
                             \/ r \in Unfound(S, there) \/ r \in puppeted \ S
<1>1. \A r \in Refs : npcAi[r] \in BOOLEAN
    BY DEF ActorsOK
<1>2. \A r \in Refs : Unfrozen(S, there)[r] = IF r \in S \cap there THEN TRUE ELSE npcAi[r]
    BY DEF Unfrozen
<1>3. \A r \in Refs : r \in S \cap there => Unfrozen(S, there)[r] = TRUE
    BY <1>2
<1>4. \A r \in Refs : r \in S \ there => r \in Unfound(S, there)
    BY DEF Unfound
<1>5. \A r \in Refs : r \notin puppeted =>
          Unfrozen(S, there)[r] = TRUE \/ r \in Unfound(S, there)
  <2>1. \A r \in Refs : r \notin puppeted => npcAi[r] = TRUE \/ r \in unfound
      BY <1>1 DEF HeldArePuppets
  <2>2. QED
      BY <1>2, <2>1 DEF Unfound
<1>6. Unfrozen(S, there) \in [Refs -> BOOLEAN]
    BY <1>1 DEF Unfrozen
<1>7. Unfound(S, there) \subseteq Refs
    BY DEF Unfound, ActorsOK
<1>8. QED
    BY <1>3, <1>4, <1>5, <1>6, <1>7

LEMMA ClearedStep ==
    ASSUME ViewIInv, Cleared, joined' \in BOOLEAN, isHost' \in BOOLEAN, here' = here,
           players' = [p \in Peers |-> "out"]
    PROVE  ViewIInv'
<1>0. KnownOK /\ GhostsOK /\ ActorsOK /\ NoStrays /\ MarkersFollow /\ HeldArePuppets
    BY TypeParts DEF ViewIInv
<1>1. /\ byPeer' = <<>> /\ respawned' = {} /\ clones' = {} /\ sourceFailed' = FALSE
      /\ ready' = {} /\ frozen' = {} /\ npcFrozen' = {} /\ puppeted' = {}
      /\ fresh' = {} /\ latestActors' = <<>> /\ latestPose' = <<>> /\ marked' = {}
      /\ markers' = markers \ marked /\ bodies' = Despawned /\ misfits' = misfits
    BY DEF Cleared, DespawnGhosts, ClearAllClones, ClearMapMarkers, ClearHostActors
<1>2. looks' = NoLooks
    BY DEF Cleared
<1>3. DOMAIN byPeer' = {} /\ DOMAIN latestActors' = {} /\ DOMAIN latestPose' = {}
    BY <1>1
<1>4. bodies' = <<>> /\ DOMAIN bodies' = {}
  <2>1. DOMAIN bodies \ {byPeer[p] : p \in DOMAIN byPeer} = {}
      BY <1>0 DEF NoStrays
  <2>2. QED
      BY <1>1, <2>1 DEF Despawned
<1>5. markers' = {}
    BY <1>0, <1>1 DEF MarkersFollow
<1>6. PICK there \in SUBSET Refs : /\ npcAi' = Unfrozen(puppeted, there)
                                  /\ unfound' = Unfound(puppeted, there)
    BY DEF Cleared, ClearHostActors
<1>7. /\ npcAi' \in [Refs -> BOOLEAN] /\ unfound' \subseteq Refs
      /\ \A r \in Refs \ unfound' : npcAi'[r]
    BY <1>0, <1>6, ReleasedFree DEF ActorsOK
<1>8. ViewTypeOK'
  <2>1. KnownOK'
      BY <1>0, <1>3 DEF KnownOK
  <2>2. LooksOK'
      BY <1>2 DEF LooksOK, NoLooks
  <2>3. PathsOK' /\ BodiesOK' /\ GhostsOK' /\ MarksOK'
      BY <1>0, <1>1, <1>3, <1>4, <1>5 DEF PathsOK, BodiesOK, GhostsOK, MarksOK
  <2>4. ActorsOK'
      BY <1>1, <1>3, <1>7 DEF ActorsOK
  <2>5. QED
      BY <2>1, <2>2, <2>3, <2>4, TypePartsNext
<1>9. NoStrays' /\ GhostsAreClones' /\ GhostsDressed' /\ BareBodies'
    BY <1>4 DEF NoStrays, GhostsAreClones, GhostsDressed, BareBodies
<1>10. MarkersFollow' /\ Posed' /\ SetUpTogether' /\ PathsApart'
    BY <1>1, <1>3, <1>5 DEF MarkersFollow, Posed, SetUpTogether, PathsApart
<1>11. LeaveFrees'
    BY <1>1, <1>4, <1>5, <1>7 DEF LeaveFrees
<1>12. HeldArePuppets'
    BY <1>7 DEF HeldArePuppets
<1>13. QED
    BY <1>8, <1>9, <1>10, <1>11, <1>12 DEF ViewIInv

LEMMA SessionStep == ASSUME ViewIInv, Join \/ Leave PROVE ViewIInv'
    BY ClearedStep DEF Join, Leave

-----------------------------------------------------------------------------
(* CMP_ApplyGhosts *)

(* There is a free handle for every new body: handles in use are           *)
(* remembered for a player, and there are twice as many as players.        *)
LEMMA EnoughHandles ==
    ASSUME ViewIInv, NEW New \in SUBSET Peers
    PROVE  \E f \in [New -> FreeHandles] : \A q, r \in New : f[q] = f[r] => q = r
<1> DEFINE n    == Cardinality(Peers)
           Used == {byPeer[p] : p \in DOMAIN byPeer}
           g    == [p \in DOMAIN byPeer |-> byPeer[p]]
<1>1. /\ DOMAIN byPeer \subseteq Peers /\ Used \subseteq Handles
      /\ DOMAIN bodies \subseteq Used
    BY TypeParts DEF ViewIInv, PathsOK, NoStrays
<1>2. /\ n \in Nat /\ IsFiniteSet(New) /\ Cardinality(New) =< n
      /\ Cardinality(New) \in Nat
    BY PeersAssumption, FS_Subset, FS_CardinalityType
<1>3. /\ IsFiniteSet(DOMAIN byPeer) /\ Cardinality(DOMAIN byPeer) =< n
      /\ Cardinality(DOMAIN byPeer) \in Nat
    BY <1>1, PeersAssumption, FS_Subset, FS_CardinalityType
<1>4. g \in Surjection(DOMAIN byPeer, Used)
    BY DEF Surjection
<1> HIDE DEF g
<1>5. /\ IsFiniteSet(Used) /\ Cardinality(Used) =< Cardinality(DOMAIN byPeer)
      /\ Cardinality(Used) \in Nat
    BY <1>3, <1>4, FS_Surjection, FS_CardinalityType
<1>6. IsFiniteSet(Handles) /\ Cardinality(Handles) = n + n
  <2> HIDE DEF n
  <2>1. 1 \in Int /\ 2 * n \in Int /\ 2 * n = n + n /\ n \in Nat
      BY <1>2
  <2> DEFINE top == 2 * n
  <2>2. Handles = 1..top
      BY DEF Handles, n
  <2>3. top \in Int /\ top = n + n
      BY <2>1
  <2> HIDE DEF top
  <2>4. /\ IsFiniteSet(1..top)
        /\ Cardinality(1..top) = IF 1 > top THEN 0 ELSE top - 1 + 1
      BY <2>1, <2>3, FS_Interval
  <2>5. QED
      BY <2>1, <2>2, <2>3, <2>4
<1>7. FreeHandles = Handles \ Used
    BY <1>1 DEF FreeHandles
<1>8. /\ IsFiniteSet(FreeHandles)
      /\ Cardinality(FreeHandles) = Cardinality(Handles) - Cardinality(Handles \cap Used)
    BY <1>6, <1>7, FS_Difference
<1>9. Handles \cap Used = Used
    BY <1>1
<1>10. Cardinality(New) =< Cardinality(FreeHandles)
  <2>1. Cardinality(FreeHandles) = (n + n) - Cardinality(Used)
      BY <1>6, <1>8, <1>9
  <2> HIDE DEF n, Used
  <2>2. QED
      BY <1>2, <1>3, <1>5, <2>1
<1>11. QED
    BY <1>2, <1>8, <1>10, InjectionExists

LEMMA HandlesFit ==
    ASSUME ViewIInv, NEW New \in SUBSET Peers
    PROVE  /\ \A p \in New : HandleFor(p, New) \in FreeHandles
           /\ \A p, q \in New : HandleFor(p, New) = HandleFor(q, New) => p = q
<1> DEFINE Fits(f) == \A q, r \in New : f[q] = f[r] => q = r
           h == CHOOSE f \in [New -> FreeHandles] : Fits(f)
<1>1. \E f \in [New -> FreeHandles] : Fits(f)
    BY EnoughHandles
<1>2. h \in [New -> FreeHandles] /\ Fits(h)
    BY <1>1
<1>3. \A p : HandleFor(p, New) = h[p]
    BY DEF HandleFor
<1> HIDE DEF h
<1>4. QED
    BY <1>2, <1>3

LEMMA MovedIs ==
    ASSUME LooksOK, NEW p \in Peers, NEW body \in Body
    PROVE  /\ Moved(p, body) \in Body
           /\ Moved(p, body).peer = body.peer
           /\ Moved(p, body).has3D = body.has3D
           /\ body.has3D /\ (p \notin frozen \/ ~body.ai) => ~Moved(p, body).ai
           /\ body.has3D /\ p \notin ready =>
                \A k \in Kinds : looks[k][p] \in {None, Moved(p, body).worn[k]}
           /\ p \in ready => Moved(p, body).worn = body.worn
<1>0. /\ body.has3D \in BOOLEAN /\ body.ai \in BOOLEAN
      /\ body.worn \in [Kinds -> Looks \cup {None}]
      /\ \A k \in Kinds : looks[k][p] \in Looks \cup {None}
    BY BodyFields DEF LooksOK
<1>1. CASE ~body.has3D
    BY <1>1 DEF Moved
<1>2. CASE body.has3D
  <2> DEFINE ai   == Held(body.ai, p \in frozen)
             worn == IF Undressed(p) THEN Dressed(p, body.worn) ELSE body.worn
  <2>1. Moved(p, body) = [body EXCEPT !.ai = ai, !.worn = worn]
      BY <1>2 DEF Moved
  <2>2. ai \in BOOLEAN /\ (p \notin frozen \/ ~body.ai => ~ai)
      BY <1>0 DEF Held
  <2>3. Dressed(p, body.worn) \in [Kinds -> Looks \cup {None}]
      BY <1>0 DEF Dressed
  <2>4. \A k \in Kinds : looks[k][p] \in {None, Dressed(p, body.worn)[k]}
      BY DEF Dressed
  <2>5. /\ worn \in [Kinds -> Looks \cup {None}]
        /\ p \notin ready => \A k \in Kinds : looks[k][p] \in {None, worn[k]}
        /\ p \in ready => worn = body.worn
      BY <1>0, <2>3, <2>4 DEF Undressed
  <2> HIDE DEF ai, worn
  <2>6. /\ Moved(p, body) \in Body /\ Moved(p, body).peer = body.peer
        /\ Moved(p, body).has3D = body.has3D
        /\ Moved(p, body).worn = worn
      BY <2>1, <2>2, <2>5 DEF Body
  <2>7. Moved(p, body).ai = ai
      BY <2>1, <2>2 DEF Body
  <2>8. QED
      BY <2>2, <2>5, <2>6, <2>7
<1>3. QED
    BY <1>0, <1>1, <1>2

(* A body just spawned, without its 3D or set up at once. *)
BareBody(p)  == Spawned(p, FALSE)
ReadyBody(p) == Spawned(p, TRUE)

LEMMA SpawnedIs ==
    ASSUME LooksOK, NEW p \in Peers
    PROVE  /\ BareBody(p) \in Body /\ BareBody(p).peer = p /\ ~BareBody(p).has3D
           /\ ReadyBody(p) \in Body /\ ReadyBody(p).peer = p /\ ReadyBody(p).has3D
           /\ p \notin frozen => ~ReadyBody(p).ai
           /\ \A k \in Kinds : looks[k][p] \in {None, ReadyBody(p).worn[k]}
<1> DEFINE bare == [k \in Kinds |-> None]
           ai   == Held(TRUE, p \in frozen)
           worn == Dressed(p, bare)
<1>1. \A k \in Kinds : looks[k][p] \in Looks \cup {None}
    BY DEF LooksOK
<1>2. /\ bare \in [Kinds -> Looks \cup {None}] /\ worn \in [Kinds -> Looks \cup {None}]
      /\ \A k \in Kinds : looks[k][p] \in {None, worn[k]}
    BY <1>1 DEF Dressed
<1>3. ai \in BOOLEAN /\ (p \notin frozen => ~ai)
    BY DEF Held
<1>4. BareBody(p) = [peer |-> p, has3D |-> FALSE, ai |-> TRUE, worn |-> bare]
    BY DEF Spawned, FinishGhostSetup, BareBody
<1>5. ReadyBody(p) = [peer |-> p, has3D |-> TRUE, ai |-> ai, worn |-> worn]
    BY DEF Spawned, FinishGhostSetup, ReadyBody
<1> HIDE DEF bare, ai, worn
<1>6. BareBody(p) \in Body /\ BareBody(p).peer = p /\ BareBody(p).has3D = FALSE
    BY <1>2, <1>4 DEF Body
<1>7. /\ ReadyBody(p) \in Body /\ ReadyBody(p).peer = p
      /\ ReadyBody(p).has3D = TRUE /\ ReadyBody(p).worn = worn
    BY <1>2, <1>3, <1>5 DEF Body
<1>8. ReadyBody(p).ai = ai
    BY <1>5
<1>9. QED
    BY <1>2, <1>3, <1>6, <1>7, <1>8

(* What CMP_ApplyGhosts does, for the players with a new body, the handles *)
(* those get and the players whose body has its 3D.                        *)
GhostsApplied(New, h, Seen) ==
    /\ New \subseteq Live /\ h \in [New -> FreeHandles]
    /\ \A p, q \in New : h[p] = h[q] => p = q
    /\ \A p \in New : ~HasBody(p)
    /\ Seen \subseteq Live
    /\ \A p \in Seen \ New : HasBody(p) /\ bodies[byPeer[p]].has3D
    /\ \A p \in Live : HasBody(p) /\ bodies[byPeer[p]].has3D => p \in Seen
    /\ DOMAIN byPeer' = (DOMAIN byPeer \cap Live) \cup New
    /\ \A p \in New : byPeer'[p] = h[p]
    /\ \A p \in (DOMAIN byPeer \cap Live) \ New : byPeer'[p] = byPeer[p]
    /\ DOMAIN bodies' = (DOMAIN bodies \ Disabled) \cup {h[p] : p \in New}
    /\ DOMAIN bodies' = {} => bodies' = <<>>
    /\ \A b \in DOMAIN bodies \ Disabled :
          bodies'[b] = Moved(bodies[b].peer, bodies[b])
    /\ \A p \in New : bodies'[h[p]] = IF p \in Seen THEN ReadyBody(p) ELSE BareBody(p)
    /\ (clones \ Dropped) \cup New \subseteq clones' /\ clones' \subseteq clones \cup Live
    /\ sourceFailed' \in BOOLEAN
    /\ ready' = (ready \ Dropped) \cup Seen /\ frozen' = (frozen \ Dropped) \cup Seen
    /\ respawned' = (respawned \ Dropped) \cup (New \cap DOMAIN byPeer)
    /\ misfits' \subseteq misfits \cup Live

(* A body whose player stays is his. *)
LEMMA KeptBody ==
    ASSUME ViewIInv, NEW b \in DOMAIN bodies \ Disabled
    PROVE  LET p == bodies[b].peer
           IN  /\ p \in Live /\ p \in DOMAIN byPeer /\ byPeer[p] = b /\ HasBody(p)
               /\ p \in Peers /\ bodies[b] \in Body
<1> DEFINE p == bodies[b].peer
<1>1. p \in DOMAIN byPeer /\ byPeer[p] = b
    BY DEF ViewIInv, NoStrays
<1>2. p \in Live
    BY <1>1 DEF Disabled, Dropped
<1>3. bodies[b] \in Body /\ p \in Peers
    BY TypeParts, BodyFields DEF ViewIInv, BodiesOK
<1>4. QED
    BY <1>1, <1>2, <1>3 DEF HasBody

LEMMA ApplyGhostsIs ==
    ASSUME ViewIInv, ApplyGhosts, here # NoLoc
    PROVE  \E New, h, Seen : GhostsApplied(New, h, Seen)
<1>1. PICK out \in [Live -> Results] :
         /\ \A p \in Live : IF HasBody(p) THEN out[p] = "moved" ELSE out[p] \in Outcomes(p)
         /\ LET New    == {p \in Live : out[p] \in {"no3D", "ready"}}
                Hdl(p) == IF p \in New THEN HandleFor(p, New) ELSE byPeer[p]
                Bodied == {p \in Live : HasBody(p) \/ p \in New}
                Seen3D == {p \in Bodied : IF p \in New THEN out[p] = "ready"
                                          ELSE bodies[byPeer[p]].has3D}
                kept   == DOMAIN bodies \ Disabled
            IN  /\ byPeer' = [p \in (DOMAIN byPeer \cap Live) \cup New |-> Hdl(p)]
                /\ bodies' = [b \in kept \cup {Hdl(p) : p \in New} |->
                       IF b \in kept
                       THEN LET p == bodies[b].peer
                            IN  IF p \in Bodied /\ byPeer[p] = b
                                THEN Moved(p, bodies[b]) ELSE bodies[b]
                       ELSE LET p == CHOOSE q \in New : Hdl(q) = b
                            IN  Spawned(p, out[p] = "ready")]
                /\ clones' = (clones \ Dropped)
                               \cup {p \in Live : out[p] \in CloneStays}
                /\ misfits' = misfits \cup {p \in Live : out[p] = "misfit"}
                /\ sourceFailed' = (sourceFailed \/ \E p \in Live : out[p] = "noSource")
                /\ ready' = (ready \ Dropped) \cup Seen3D
                /\ frozen' = (frozen \ Dropped) \cup Seen3D
                /\ respawned' = (respawned \ Dropped)
                                  \cup {p \in New : p \in DOMAIN byPeer}
    BY DEF ApplyGhosts
<1> DEFINE New    == {p \in Live : out[p] \in {"no3D", "ready"}}
           Hdl(p) == IF p \in New THEN HandleFor(p, New) ELSE byPeer[p]
           Bodied == {p \in Live : HasBody(p) \/ p \in New}
           Seen   == {p \in Bodied : IF p \in New THEN out[p] = "ready"
                                     ELSE bodies[byPeer[p]].has3D}
           kept   == DOMAIN bodies \ Disabled
           body(b) == IF b \in kept
                      THEN IF bodies[b].peer \in Bodied /\ byPeer[bodies[b].peer] = b
                           THEN Moved(bodies[b].peer, bodies[b]) ELSE bodies[b]
                      ELSE LET p == CHOOSE q \in New : Hdl(q) = b
                           IN  Spawned(p, out[p] = "ready")
           h      == [p \in New |-> HandleFor(p, New)]
<1>2. byPeer' = [p \in (DOMAIN byPeer \cap Live) \cup New |-> Hdl(p)]
    BY <1>1
<1>3. bodies' = [b \in kept \cup {Hdl(p) : p \in New} |-> body(b)]
    BY <1>1, Zenon
<1>4. /\ clones' = (clones \ Dropped) \cup {p \in Live : out[p] \in CloneStays}
      /\ ready' = (ready \ Dropped) \cup Seen /\ frozen' = (frozen \ Dropped) \cup Seen
      /\ respawned' = (respawned \ Dropped) \cup {p \in New : p \in DOMAIN byPeer}
      /\ misfits' = misfits \cup {p \in Live : out[p] = "misfit"}
    BY <1>1, Zenon
<1>5. sourceFailed' \in BOOLEAN
    BY <1>1
<1>6. /\ Live \subseteq Peers /\ New \subseteq Live /\ Seen \subseteq Live
      /\ sourceFailed \in BOOLEAN
    BY TypeParts DEF ViewIInv, Live, KnownOK, GhostsOK
<1>7. \A p \in New : ~HasBody(p)
    BY <1>1
<1>8. /\ h \in [New -> FreeHandles] /\ \A p, q \in New : h[p] = h[q] => p = q
      /\ \A p \in New : Hdl(p) = h[p]
    BY <1>6, HandlesFit
<1>9. /\ \A p \in Seen \ New : HasBody(p) /\ bodies[byPeer[p]].has3D
      /\ \A p \in Live : HasBody(p) /\ bodies[byPeer[p]].has3D => p \in Seen
      /\ \A p \in New : p \in Seen <=> out[p] = "ready"
    BY <1>7
<1>10. /\ DOMAIN byPeer' = (DOMAIN byPeer \cap Live) \cup New
       /\ \A p \in New : byPeer'[p] = h[p]
       /\ \A p \in (DOMAIN byPeer \cap Live) \ New : byPeer'[p] = byPeer[p]
    BY <1>2, <1>8
<1>11. {Hdl(p) : p \in New} = {h[p] : p \in New}
    BY <1>8
<1>12. \A b \in kept : body(b) = Moved(bodies[b].peer, bodies[b])
  <2>1. ASSUME NEW b \in kept PROVE bodies[b].peer \in Bodied /\ byPeer[bodies[b].peer] = b
      BY KeptBody
  <2>2. QED
      BY <2>1
<1>13. ASSUME NEW p \in New
       PROVE  body(h[p]) = IF p \in Seen THEN ReadyBody(p) ELSE BareBody(p)
  <2>1. h[p] \notin kept
      BY <1>8 DEF FreeHandles
  <2>2. (CHOOSE q \in New : Hdl(q) = h[p]) = p
      BY <1>8
  <2>3. body(h[p]) = Spawned(p, out[p] = "ready")
      BY <2>1, <2>2, Zenon
  <2>4. CASE out[p] = "ready"
    <3>1. (out[p] = "ready") = TRUE
        BY <2>4
    <3>2. body(h[p]) = Spawned(p, TRUE)
        BY <2>3, <3>1, Zenon
    <3>3. p \in Seen
        BY <1>9, <2>4
    <3>4. QED
        BY <3>2, <3>3, Zenon DEF ReadyBody
  <2>5. CASE out[p] # "ready"
    <3>1. (out[p] = "ready") = FALSE
        BY <2>5
    <3>2. body(h[p]) = Spawned(p, FALSE)
        BY <2>3, <3>1, Zenon
    <3>3. p \notin Seen
        BY <1>9, <2>5
    <3>4. QED
        BY <3>2, <3>3, Zenon DEF BareBody
  <2>6. QED
      BY <2>4, <2>5
<1>14. \A p \in New : out[p] \in CloneStays
    BY DEF CloneStays
<1>15. /\ (clones \ Dropped) \cup New \subseteq clones'
       /\ clones' \subseteq clones \cup Live
    BY <1>4, <1>6, <1>14
<1>16. /\ respawned' = (respawned \ Dropped) \cup (New \cap DOMAIN byPeer)
       /\ misfits' \subseteq misfits \cup Live
    BY <1>4
<1> HIDE DEF New, Seen, h, body, Hdl
<1>17. /\ DOMAIN bodies' = kept \cup {h[p] : p \in New}
       /\ \A b \in kept : bodies'[b] = Moved(bodies[b].peer, bodies[b])
       /\ \A p \in New : bodies'[h[p]] = IF p \in Seen THEN ReadyBody(p) ELSE BareBody(p)
    BY <1>3, <1>11, <1>12, <1>13
<1>18. DOMAIN bodies' = {} => bodies' = <<>>
    BY <1>3
<1>19. GhostsApplied(New, h, Seen)
    BY <1>4, <1>5, <1>6, <1>7, <1>8, <1>9, <1>10, <1>15, <1>16, <1>17, <1>18
       DEF GhostsApplied
<1>20. QED
    BY <1>19

LEMMA LivePeers == ASSUME ViewIInv PROVE Live \subseteq Peers
    BY TypeParts DEF ViewIInv, Live, KnownOK

(* Each body after the step is one that was kept or one that is new. *)
LEMMA BodyCases ==
    ASSUME ViewIInv, NEW New, NEW h, NEW Seen, GhostsApplied(New, h, Seen),
           NEW b \in DOMAIN bodies'
    PROVE  \/ /\ b \in DOMAIN bodies \ Disabled
              /\ bodies'[b] = Moved(bodies[b].peer, bodies[b])
              /\ bodies[b].peer \in Live \ New /\ byPeer'[bodies[b].peer] = b
              /\ bodies[b].peer \in DOMAIN byPeer /\ bodies[b].peer \in Peers
              /\ bodies[b].peer \in Seen <=> bodies[b].has3D
              /\ bodies'[b] \in Body /\ bodies'[b].peer = bodies[b].peer
           \/ \E p \in New : /\ b = h[p] /\ p \in Peers /\ byPeer'[p] = b
                             /\ bodies'[b] = IF p \in Seen THEN ReadyBody(p) ELSE BareBody(p)
                             /\ bodies'[b] \in Body /\ bodies'[b].peer = p
<1>0. LooksOK /\ Live \subseteq Peers
    BY TypeParts, LivePeers DEF ViewIInv
<1>1. CASE b \in DOMAIN bodies \ Disabled
  <2> DEFINE p == bodies[b].peer
  <2>1. /\ p \in Live /\ p \in DOMAIN byPeer /\ byPeer[p] = b /\ HasBody(p)
        /\ p \in Peers /\ bodies[b] \in Body
      BY <1>1, KeptBody
  <2>2. bodies'[b] = Moved(p, bodies[b]) /\ p \notin New
      BY <1>1, <2>1 DEF GhostsApplied
  <2>3. p \in Seen <=> bodies[b].has3D
      BY <2>1, <2>2 DEF GhostsApplied
  <2>4. byPeer'[p] = b
      BY <2>1, <2>2 DEF GhostsApplied
  <2>5. bodies'[b] \in Body /\ bodies'[b].peer = p
      BY <1>0, <2>1, <2>2, MovedIs
  <2>6. QED
      BY <1>1, <2>1, <2>2, <2>3, <2>4, <2>5
<1>2. ASSUME NEW p \in New, b = h[p]
      PROVE  /\ p \in Peers /\ byPeer'[p] = b
             /\ bodies'[b] = IF p \in Seen THEN ReadyBody(p) ELSE BareBody(p)
             /\ bodies'[b] \in Body /\ bodies'[b].peer = p
  <2>1. /\ p \in Peers /\ byPeer'[p] = b
        /\ bodies'[b] = IF p \in Seen THEN ReadyBody(p) ELSE BareBody(p)
      BY <1>0, <1>2 DEF GhostsApplied
  <2>2. QED
      BY <1>0, <2>1, SpawnedIs
<1>3. QED
    BY <1>1, <1>2 DEF GhostsApplied

GhostInv ==
    /\ PathsOK /\ BodiesOK /\ GhostsOK /\ NoStrays /\ GhostsAreClones
    /\ GhostsDressed /\ SetUpTogether /\ BareBodies /\ PathsApart

LEMMA GhostStep ==
    ASSUME ViewIInv, ApplyGhosts, looks' = looks
    PROVE  GhostInv'
<1>0. LooksOK /\ PathsOK /\ BodiesOK /\ GhostsOK /\ Live \subseteq Peers /\ GhostInv
    BY TypeParts, LivePeers DEF ViewIInv, GhostInv
<1>1. CASE here = NoLoc
  <2>1. UNCHANGED <<byPeer, bodies, clones, sourceFailed, ready, frozen, respawned,
                     misfits>>
      BY <1>1 DEF ApplyGhosts, ghostVars
  <2>2. PathsOK' /\ BodiesOK' /\ GhostsOK'
      BY <1>0, <2>1 DEF PathsOK, BodiesOK, GhostsOK, Handles, Body
  <2>3. NoStrays' /\ GhostsAreClones' /\ SetUpTogether' /\ BareBodies' /\ PathsApart'
      BY <1>0, <2>1 DEF GhostInv, NoStrays, GhostsAreClones, SetUpTogether, BareBodies,
                        PathsApart
  <2>4. GhostsDressed'
      BY <1>0, <2>1 DEF GhostInv, GhostsDressed
  <2>5. QED
      BY <2>2, <2>3, <2>4 DEF GhostInv
<1>2. ASSUME NEW New, NEW h, NEW Seen, GhostsApplied(New, h, Seen) PROVE GhostInv'
  <2>0. /\ New \subseteq Live /\ h \in [New -> FreeHandles] /\ Seen \subseteq Live
        /\ \A p, q \in New : h[p] = h[q] => p = q
        /\ FreeHandles \subseteq Handles
        /\ \A p \in DOMAIN byPeer : byPeer[p] \notin FreeHandles
      BY <1>2 DEF GhostsApplied, FreeHandles
  <2>1. /\ DOMAIN byPeer' = (DOMAIN byPeer \cap Live) \cup New
        /\ \A p \in New : byPeer'[p] = h[p]
        /\ \A p \in (DOMAIN byPeer \cap Live) \ New : byPeer'[p] = byPeer[p]
      BY <1>2 DEF GhostsApplied
  <2>2. PathsOK'
      BY <1>0, <2>0, <2>1 DEF PathsOK, Handles
  <2>3. PathsApart'
    <3>1. \A p \in DOMAIN byPeer' :
             \/ p \in New /\ byPeer'[p] = h[p] /\ h[p] \in FreeHandles
             \/ p \in DOMAIN byPeer /\ byPeer'[p] = byPeer[p] /\ byPeer[p] \notin FreeHandles
        BY <2>0, <2>1
    <3>2. PathsApart
        BY <1>0 DEF GhostInv
    <3>3. QED
        BY <2>0, <3>1, <3>2 DEF PathsApart
  <2>4. BodiesOK'
    <3>1. DOMAIN bodies' \subseteq Handles
        BY <1>0, <1>2, <2>0 DEF GhostsApplied, BodiesOK
    <3>2. \A b \in DOMAIN bodies' : bodies'[b] \in Body
        BY <1>2, BodyCases
    <3>3. QED
        BY <3>1, <3>2 DEF BodiesOK, Handles, Body
  <2>5. GhostsOK'
      BY <1>0, <1>2, <2>0 DEF GhostsApplied, GhostsOK
  <2>6. NoStrays'
    <3>1. ASSUME NEW b \in DOMAIN bodies'
          PROVE  bodies'[b].peer \in DOMAIN byPeer' /\ byPeer'[bodies'[b].peer] = b
        BY <1>2, <2>0, <2>1, BodyCases
    <3>2. QED
        BY <3>1 DEF NoStrays
  <2>7. GhostsAreClones'
    <3>0. (clones \ Dropped) \cup New \subseteq clones'
        BY <1>2 DEF GhostsApplied
    <3>1. ASSUME NEW b \in DOMAIN bodies' PROVE bodies'[b].peer \in clones'
      <4>1. ASSUME b \in DOMAIN bodies \ Disabled, bodies'[b].peer = bodies[b].peer,
                   bodies[b].peer \in Live
            PROVE  bodies'[b].peer \in clones'
        <5>1. bodies[b].peer \in clones \ Dropped
            BY <1>0, <4>1 DEF GhostInv, GhostsAreClones, Dropped
        <5>2. QED
            BY <3>0, <4>1, <5>1
      <4>2. QED
          BY <1>2, <3>0, <4>1, BodyCases
    <3>2. QED
        BY <3>1 DEF GhostsAreClones
  <2>8. /\ ready' = (ready \ Dropped) \cup Seen /\ frozen' = (frozen \ Dropped) \cup Seen
        /\ respawned' = (respawned \ Dropped) \cup (New \cap DOMAIN byPeer)
        /\ frozen = ready /\ ready \subseteq DOMAIN byPeer
      BY <1>0, <1>2 DEF GhostsApplied, GhostInv, SetUpTogether
  <2>9. SetUpTogether'
    <3>1. ready \ Dropped \subseteq DOMAIN byPeer \cap Live
        BY <2>8 DEF Dropped
    <3>2. Seen \subseteq (DOMAIN byPeer \cap Live) \cup New
        BY <1>2, <2>0 DEF GhostsApplied, HasBody
    <3>3. QED
        BY <2>1, <2>8, <3>1, <3>2 DEF SetUpTogether
  <2>10. BareBodies'
    <3>1. ASSUME NEW b \in DOMAIN bodies', ~bodies'[b].has3D
          PROVE  bodies'[b].peer \notin ready' \ respawned'
      <4>1. ASSUME b \in DOMAIN bodies \ Disabled,
                   bodies'[b] = Moved(bodies[b].peer, bodies[b]),
                   bodies'[b].peer = bodies[b].peer,
                   bodies[b].peer \in Live \ New, bodies[b].peer \in Peers,
                   bodies[b].peer \in Seen <=> bodies[b].has3D
            PROVE  bodies'[b].peer \notin ready' \ respawned'
        <5>1. bodies[b] \in Body
            BY <1>0, <4>1 DEF BodiesOK
        <5>2. ~bodies[b].has3D
            BY <1>0, <3>1, <4>1, <5>1, MovedIs
        <5>3. bodies[b].peer \notin ready \ respawned
            BY <1>0, <4>1, <5>2 DEF GhostInv, BareBodies
        <5>4. QED
            BY <2>8, <4>1, <5>2, <5>3 DEF Dropped
      <4>2. ASSUME NEW p \in New, p \in Peers, bodies'[b].peer = p,
                   bodies'[b] = IF p \in Seen THEN ReadyBody(p) ELSE BareBody(p)
            PROVE  bodies'[b].peer \notin ready' \ respawned'
        <5>1. p \notin Seen
            BY <1>0, <3>1, <4>2, SpawnedIs
        <5>2. QED
            BY <2>8, <4>2, <5>1
      <4>3. QED
          BY <1>2, <4>1, <4>2, BodyCases
    <3>2. QED
        BY <3>1 DEF BareBodies
  <2>11. GhostsDressed'
    <3>1. ASSUME NEW b \in DOMAIN bodies', bodies'[b].has3D,
                 bodies'[b].peer \in ready' \ respawned'
          PROVE  /\ ~bodies'[b].ai
                 /\ \A k \in Kinds : looks[k][bodies'[b].peer] \in {None, bodies'[b].worn[k]}
      <4>1. ASSUME b \in DOMAIN bodies \ Disabled,
                   bodies'[b] = Moved(bodies[b].peer, bodies[b]),
                   bodies'[b].peer = bodies[b].peer,
                   bodies[b].peer \in Live \ New, bodies[b].peer \in Peers
            PROVE  /\ ~bodies'[b].ai
                   /\ \A k \in Kinds :
                         looks[k][bodies'[b].peer] \in {None, bodies'[b].worn[k]}
        <5> DEFINE p == bodies[b].peer
        <5>1. bodies[b] \in Body
            BY <1>0, <4>1 DEF BodiesOK
        <5>2. bodies[b].has3D /\ p \notin respawned
            BY <1>0, <2>8, <3>1, <4>1, <5>1, MovedIs DEF Dropped
        <5>3. CASE p \in ready
          <6>1. /\ ~bodies[b].ai
                /\ \A k \in Kinds : looks[k][p] \in {None, bodies[b].worn[k]}
              BY <1>0, <4>1, <5>2, <5>3 DEF GhostInv, GhostsDressed
          <6>2. QED
              BY <1>0, <4>1, <5>1, <5>2, <5>3, <6>1, MovedIs
        <5>4. CASE p \notin ready
            BY <1>0, <2>8, <4>1, <5>1, <5>2, <5>4, MovedIs
        <5>5. QED
            BY <5>3, <5>4
      <4>2. ASSUME NEW p \in New, p \in Peers, bodies'[b].peer = p,
                   bodies'[b] = IF p \in Seen THEN ReadyBody(p) ELSE BareBody(p)
            PROVE  /\ ~bodies'[b].ai
                   /\ \A k \in Kinds :
                         looks[k][bodies'[b].peer] \in {None, bodies'[b].worn[k]}
        <5>1. bodies'[b] = ReadyBody(p)
            BY <1>0, <3>1, <4>2, SpawnedIs
        <5>2. p \notin frozen
            BY <2>8, <3>1, <4>2
        <5>3. QED
            BY <1>0, <4>2, <5>1, <5>2, SpawnedIs
      <4>3. QED
          BY <1>2, <4>1, <4>2, BodyCases
    <3>2. QED
        BY <3>1 DEF GhostsDressed
  <2>12. QED
      BY <2>2, <2>3, <2>4, <2>5, <2>6, <2>7, <2>9, <2>10, <2>11 DEF GhostInv
<1>3. QED
    BY <1>1, <1>2, ApplyGhostsIs

-----------------------------------------------------------------------------
(* CMP_ApplyHostActors and CMP_IndicatorsTick *)

LEMMA ActorsStep ==
    ASSUME ViewIInv, NEW there \in SUBSET Refs, NEW found \in SUBSET there,
           ApplyHostActors(there, found), UNCHANGED <<latestActors, fresh>>
    PROVE  /\ ActorsOK' /\ HeldArePuppets'
           /\ ~joined => UNCHANGED <<puppeted, npcAi, unfound>>
<1>0. ActorsOK /\ HeldArePuppets
    BY TypeParts DEF ViewIInv
<1>1. CASE ~joined \/ isHost \/ here = NoLoc
  <2>1. UNCHANGED <<puppeted, npcAi, npcFrozen, unfound>>
      BY <1>1 DEF ApplyHostActors
  <2>2. ActorsOK'
      BY <1>0, <2>1 DEF ActorsOK
  <2>3. HeldArePuppets'
      BY <1>0, <2>1 DEF HeldArePuppets
  <2>4. QED
      BY <2>1, <2>2, <2>3
<1>2. CASE ~(~joined \/ isHost \/ here = NoLoc)
  <2> DEFINE live == Puppets \cap found
             let  == Unfrozen(puppeted, there)
             lost == Unfound(puppeted \ live, there)
             ai(r) == IF r \in live THEN MoveUnique(r) ELSE let[r]
  <2>1. puppeted' = live /\ npcFrozen' = npcFrozen \cup live /\ unfound' = lost
      BY <1>2 DEF ApplyHostActors
  <2>2. npcAi' = [r \in Refs |-> ai(r)]
      BY <1>2, Zenon DEF ApplyHostActors
  <2>3. live \subseteq Refs
      OBVIOUS
  <2>4. ASSUME NEW r \in Refs PROVE MoveUnique(r) \in BOOLEAN
    <3>1. npcAi[r] \in BOOLEAN
        BY <1>0 DEF ActorsOK
    <3>2. QED
        BY <3>1 DEF MoveUnique, Held
  <2>5. /\ let \in [Refs -> BOOLEAN]
        /\ \A r \in Refs : let[r] = TRUE \/ r \in Unfound(puppeted, there)
      BY <1>0, ReleasedFree
  <2>6. lost \subseteq Refs
      BY <1>0 DEF Unfound, ActorsOK
  <2>7. \A r \in Refs : r \in Unfound(puppeted, there) => r \in lost \/ r \in live
      BY DEF Unfound
  <2> HIDE DEF let, lost, live
  <2>8. \A r \in Refs : ai(r) \in BOOLEAN /\ (ai(r) = TRUE \/ r \in lost \/ r \in live)
      BY <2>4, <2>5, <2>7
  <2> HIDE DEF ai
  <2>9. /\ npcAi' \in [Refs -> BOOLEAN]
        /\ \A r \in Refs : npcAi'[r] = TRUE \/ r \in lost \/ r \in live
      BY <2>2, <2>8
  <2>10. ActorsOK'
      BY <1>0, <2>1, <2>3, <2>6, <2>9 DEF ActorsOK
  <2>11. HeldArePuppets'
      BY <2>1, <2>9 DEF HeldArePuppets
  <2>12. QED
      BY <1>2, <2>10, <2>11
<1>3. QED
    BY <1>1, <1>2

LEMMA MarksStep ==
    ASSUME ViewIInv, IndicatorsTick, PathsOK'
    PROVE  MarksOK' /\ MarkersFollow' /\ (~joined => markers' = {})
<1>1. PICK shown \in SUBSET {byPeer'[p] : p \in DOMAIN byPeer'} :
         /\ markers' = Remarked(shown) /\ marked' = shown
         /\ ~joined => shown = {}
    BY DEF IndicatorsTick
<1>2. markers = marked
    BY DEF ViewIInv, MarkersFollow
<1>3. markers' = shown
    BY <1>1, <1>2 DEF Remarked
<1>4. \A p \in DOMAIN byPeer' : byPeer'[p] \in Handles'
    BY DEF PathsOK
<1>5. QED
    BY <1>1, <1>3, <1>4 DEF MarksOK, MarkersFollow

(* Without a pose no body stays and none is made. *)
LEMMA NoPoseNoBody ==
    ASSUME ViewIInv, ApplyGhosts, DOMAIN latestPose = {}, bodies = <<>>
    PROVE  bodies' = <<>>
<1>1. CASE here = NoLoc
    BY <1>1 DEF ApplyGhosts, ghostVars
<1>2. ASSUME NEW New, NEW h, NEW Seen, GhostsApplied(New, h, Seen) PROVE bodies' = <<>>
  <2>1. New = {} /\ DOMAIN bodies = {}
      BY <1>2 DEF GhostsApplied, Live
  <2>2. DOMAIN bodies' = {}
      BY <1>2, <2>1 DEF GhostsApplied
  <2>3. QED
      BY <1>2, <2>2 DEF GhostsApplied
<1>3. QED
    BY <1>1, <1>2, ApplyGhostsIs

LEMMA TickStep == ASSUME ViewIInv, Tick PROVE ViewIInv'
<1>0. KnownOK /\ LooksOK /\ LeaveFrees /\ Posed
    BY TypeParts DEF ViewIInv
<1>1. /\ ApplyGhosts /\ IndicatorsTick
      /\ UNCHANGED <<joined, isHost, here, latestPose, looks, latestActors, fresh, players>>
    BY DEF Tick, knownVars
<1>2. PICK there \in SUBSET Refs, found \in SUBSET Refs :
         found \subseteq there /\ ApplyHostActors(there, found)
    BY DEF Tick
<1>3. GhostInv'
    BY <1>1, GhostStep
<1>4. /\ PathsOK' /\ BodiesOK' /\ GhostsOK' /\ NoStrays' /\ GhostsAreClones'
      /\ GhostsDressed' /\ SetUpTogether' /\ BareBodies' /\ PathsApart'
    BY <1>3 DEF GhostInv
<1>5. /\ ActorsOK' /\ HeldArePuppets'
      /\ ~joined => UNCHANGED <<puppeted, npcAi, unfound>>
    BY <1>1, <1>2, ActorsStep
<1>6. MarksOK' /\ MarkersFollow' /\ (~joined => markers' = {})
    BY <1>1, <1>4, MarksStep
<1>7. KnownOK' /\ LooksOK' /\ Posed'
    BY <1>0, <1>1 DEF KnownOK, LooksOK, Posed
<1>8. LeaveFrees'
  <2> SUFFICES ASSUME ~joined PROVE LeaveFrees'
      BY <1>1 DEF LeaveFrees
  <2>1. bodies = <<>> /\ puppeted = {} /\ DOMAIN latestPose = {}
      BY <1>0 DEF LeaveFrees, Posed
  <2>2. \A r \in Refs \ unfound : npcAi[r]
      BY <1>0 DEF LeaveFrees
  <2>3. bodies' = <<>>
      BY <1>1, <2>1, NoPoseNoBody
  <2>4. puppeted' = {} /\ markers' = {} /\ npcAi' = npcAi /\ unfound' = unfound
      BY <1>5, <1>6, <2>1
  <2>5. \A r \in Refs \ unfound' : npcAi'[r]
      BY <2>2, <2>4
  <2>6. QED
      BY <2>3, <2>4, <2>5 DEF LeaveFrees
<1>9. ViewTypeOK'
    BY <1>4, <1>5, <1>6, <1>7, TypePartsNext
<1>10. QED
    BY <1>4, <1>5, <1>6, <1>7, <1>8, <1>9 DEF ViewIInv

-----------------------------------------------------------------------------
(* The theorems *)

LEMMA ViewStep == ViewIInv /\ [ViewNext]_viewVars => ViewIInv'
<1> SUFFICES ASSUME ViewIInv, [ViewNext]_viewVars PROVE ViewIInv'
    OBVIOUS
<1>1. CASE Join \/ Leave
    BY <1>1, SessionStep
<1>2. CASE Poll
    BY <1>2, PollQuiet, LookStep DEF Poll
<1>3. CASE Tick
    BY <1>3, TickStep
<1>4. CASE Game
    BY <1>4, GameQuiet, LoadStep, UnloadStep DEF Game
<1>5. CASE UNCHANGED viewVars
    BY <1>5, GameQuiet
<1>6. QED
    BY <1>1, <1>2, <1>3, <1>4, <1>5 DEF ViewNext

LEMMA ViewInductive == ViewSpec => []ViewIInv
<1>1. QED
    BY ViewInitInv, ViewStep, PTL DEF ViewSpec

(* What the plugin puts into the game it can take back, and CMP_Leave      *)
(* does: every ghost CMP_ApplyGhosts has spawned is the one byPeer names   *)
(* for its player and stands on a base of the plugin's own, every marker   *)
(* of CMP_IndicatorsTick is remembered, and once the session is over there *)
(* is no ghost, no marker and no NPC without its AI, for any number of     *)
(* players, NPCs and places.  Excepted, as in the code: a reference that   *)
(* SpawnGhostNative made and that is no Actor (misfits), and an NPC that   *)
(* GetFormByID did not find when it was let go (unfound).                  *)
THEOREM ViewSafe == ViewSpec => []NothingLeftBehind
<1>1. ViewIInv => NothingLeftBehind
    BY DEF ViewIInv, NothingLeftBehind
<1>2. QED
    BY <1>1, ViewInductive, PTL

(* A ghost that MoveGhost or FinishGhostSetup has set up wears the last    *)
(* look of each kind that came from its player and FreezeGhost holds it,   *)
(* in whatever order looks, poses and the 3D came; the second body of a    *)
(* player is excepted.                                                     *)
THEOREM ViewDressed == ViewSpec => []GhostsDressed
<1>1. ViewIInv => GhostsDressed
    BY DEF ViewIInv
<1>2. QED
    BY <1>1, ViewInductive, PTL
=============================================================================
