------------------------------- MODULE Motion -------------------------------
(***************************************************************************)
(* How a remote body is moved and animated: the ring of timed poses        *)
(* (PoseRing), what it shows at the delayed time (SampleAt), the step      *)
(* toward it (StepToward), and the edges fired into the animation graph    *)
(* (CMP_ApplyGhostPuppet).  One body, a ghost or an NPC of the host.       *)
(*                                                                         *)
(* Space is a line and time is counted in ticks of the game, so that a     *)
(* speed is a distance per tick; a sample keeps its age, and a place or a  *)
(* speed between two samples is rounded toward the newer.  The engine may  *)
(* refuse an event (NotifyAnimationGraphImpl) or a draw.                   *)
(***************************************************************************)
EXTENDS Integers, Sequences, FiniteSets

CONSTANTS
    Poses,             \* what the player sends: [x, v, flags], where v is his
                       \* speed and, on the line, vx
    kPoseRingSize,
    Delay,             \* CMP_EffectiveInterpDelayMs, in ticks
    ExtrapCap,         \* the 0.15 s of SampleAt, in ticks
    SnapUu, CatchUpUu, \* kSnapUu, and the 256 of StepToward
    NearMult,          \* the 1.35 of StepToward
    kCatchUpMult,      \* the factor beyond CatchUpUu
    MinSpeed,          \* the 40 of StepToward
    kMoveSpeedEps,
    kStickyRetryTicks,
    IsGhost,           \* CMP_PeerForGhost(actor) # 0
    PointerHud,        \* the setting of that name
    Overrides,         \* pose_anim_flags
    MaxAge, MaxBlobs   \* bounds: ages beyond MaxAge count as MaxAge

Flags == {"Sneak", "Sprint", "Drawn", "Reloading", "Attacking", "Jumping",
          "Sighted", "Dead", "Pipboy", "Menu", "SlowWalk"}

ASSUME MotionAssumption ==
    /\ \A p \in Poses : p.x \in Nat /\ p.v \in Nat /\ p.flags \subseteq Flags
    /\ kPoseRingSize \in Nat \ {0} /\ kStickyRetryTicks \in Nat \ {0}
    /\ Delay \in 0..MaxAge /\ ExtrapCap \in Nat /\ MaxAge \in Nat
    /\ SnapUu \in Nat /\ CatchUpUu \in Nat /\ kMoveSpeedEps \in Nat
    /\ NearMult \in Nat \ {0} /\ kCatchUpMult \in Nat \ {0} /\ MinSpeed \in Nat \ {0}
    /\ IsGhost \in BOOLEAN /\ PointerHud \in BOOLEAN
    /\ (\A f \in Overrides : f \subseteq Flags) /\ MaxBlobs \in Nat

VARIABLES
    ring,      \* poseRing, oldest first: [x, v, flags, age]
    pos,       \* where the body stands
    prev,      \* g_prev: [have, flags, moving, sticky]
    graph,     \* states the animation graph is in
    drawn,     \* GetWeaponMagicDrawn
    override,  \* animOverrideFlags while animOverrideUntil is ahead: a set of
               \* at most one
    told,      \* history: the graph took every event since it was new or
               \* the puppet was reset with none of its states to stop
    blobs      \* looks that have come

motionVars == <<ring, pos, prev, graph, drawn, override, told, blobs>>

(* The states of the graph that events switch on and off.  The attack of a *)
(* ghost is not played.                                                    *)
Combat == {"Reloading", "Sighted", "Jumping", "Pipboy"}
            \cup (IF IsGhost THEN {} ELSE {"Attacking"})
Gait == {"Sneak", "Sprint"}
Sticky == {"Sneak", "Jumping"}
States == Combat \cup Gait \cup {"Move"}

Sample == {[x |-> p.x, v |-> p.v, flags |-> p.flags, age |-> a] :
             p \in Poses, a \in 0..MaxAge}

(* Type invariant of the body, the ring and the puppet. *)
MotionTypeOK ==
    /\ ring \in Seq(Sample) /\ ring # <<>>
    /\ pos \in Nat
    /\ prev.have \in BOOLEAN /\ prev.flags \subseteq Flags
    /\ prev.moving \in BOOLEAN /\ prev.sticky \in 0..(kStickyRetryTicks - 1)
    /\ graph \subseteq States /\ drawn \in BOOLEAN
    /\ override \subseteq Overrides /\ Cardinality(override) <= 1
    /\ told \in BOOLEAN /\ blobs \in 0..MaxBlobs

NoPrev == [have |-> FALSE, flags |-> {}, moving |-> FALSE, sticky |-> 0]
Timed(p) == [x |-> p.x, v |-> p.v, flags |-> p.flags, age |-> 0]

(* The first pose has come and the ghost has been placed there. *)
MotionInit ==
    /\ \E p \in Poses : ring = <<Timed(p)>> /\ pos = p.x
    /\ prev = NoPrev /\ graph = {} /\ drawn = FALSE
    /\ override = {} /\ told = TRUE /\ blobs = 0

-----------------------------------------------------------------------------
(* PoseRing::push.  A pose like the last one takes its place. *)
Last(s) == s[Len(s)]
Newest(s, n) == IF Len(s) > n THEN SubSeq(s, Len(s) - n + 1, Len(s)) ELSE s
SamePose(a, b) == a.x = b.x /\ a.v = b.v /\ a.flags = b.flags

Push(s) ==
    IF SamePose(s, Last(ring)) THEN [ring EXCEPT ![Len(ring)] = s]
    ELSE Newest(Append(ring, s), kPoseRingSize)

(* The end of CMP_NetPoll.  Datagrams are lost, repeated and late, and the *)
(* one that arrived last is latestPose whenever it was sent.               *)
PoseArrives(p) ==
    /\ ring' = Push(Timed(p))
    /\ UNCHANGED <<pos, prev, graph, drawn, override, told, blobs>>

pose == Last(ring)

(* SampleAt(ring, now - Delay): [x, speed, flags]. *)
AtSample(s) == [x |-> s.x, speed |-> s.v, flags |-> s.flags]
BeyondAll(s) == [AtSample(s) EXCEPT !.x = s.x + s.v * (s.age - Delay)]
Beyond(s) ==
    LET dt == IF s.age - Delay < ExtrapCap THEN s.age - Delay ELSE ExtrapCap
    IN  [AtSample(s) EXCEPT !.x = s.x + s.v * dt]
Dist(a, b) == IF a < b THEN b - a ELSE a - b
Lerp(a, b, togo, span) ==
    LET back == (Dist(a, b) * togo) \div span
    IN  IF a < b THEN b - back ELSE b + back
Between(a, b) ==
    LET span == a.age - b.age
        togo == Delay - b.age
    IN  IF span = 0 THEN AtSample(b)
        ELSE [x     |-> Lerp(a.x, b.x, togo, span),
              speed |-> Lerp(a.v, b.v, togo, span),
              flags |-> IF 2 * togo > span THEN a.flags ELSE b.flags]

Bracket == {i \in 1..(Len(ring) - 1) :
              ring[i].age >= Delay /\ Delay >= ring[i + 1].age}
First(S) == CHOOSE i \in S : \A j \in S : i <= j

SampleAt ==
    IF Len(ring) = 1 \/ Delay >= ring[1].age THEN AtSample(ring[1])
    ELSE IF Delay <= Last(ring).age THEN Beyond(Last(ring))
    ELSE Between(ring[First(Bracket)], ring[First(Bracket) + 1])

(* StepToward: as fast as the player goes, and faster when far behind. *)
Reach(d, speed) ==
    (IF speed < MinSpeed THEN MinSpeed ELSE speed)
      * (IF d > CatchUpUu THEN kCatchUpMult ELSE NearMult)
StepToward(to, speed) ==
    LET d == Dist(pos, to)
        r == Reach(d, speed)
    IN  IF d > SnapUu \/ Delay = 0 \/ d <= r THEN to
        ELSE IF to > pos THEN pos + r ELSE pos - r

-----------------------------------------------------------------------------
(* CMP_ApplyGhostPuppet with the memory pv and the graph g it finds; taken *)
(* says whether the engine takes the events and the draw of this call.     *)
Starts(pv, S, f) == {s \in S \cap f : ~pv.have \/ s \notin pv.flags}
StopsNone(pv, S, f) == {}
Stops(pv, S, f) == {s \in S \ f : pv.have /\ s \in pv.flags}

Moving(speed) == speed > kMoveSpeedEps
MoveEdge(pv, moving) == IF ~pv.have \/ pv.moving # moving THEN {"Move"} ELSE {}

(* RetryStickyFlags *)
RetryDue(pv) == pv.have /\ pv.sticky + 1 >= kStickyRetryTicks
RetriedNone(pv, f) == {}
Retried(pv, f) == IF RetryDue(pv) THEN Sticky \cap f ELSE {}
StickyTicks(pv) == IF pv.have /\ ~RetryDue(pv) THEN pv.sticky + 1 ELSE 0

Fire(pv, g, on, off, taken) ==
    /\ graph' = IF taken THEN (g \cup on) \ off ELSE g
    /\ told' = /\ IF pv.have THEN told ELSE g \cap Combat \subseteq on
               /\ taken \/ on \cup off = {}

(* The dead are not moved and not retried; their gait is not looked at. *)
PuppetDead(pv, g, f, taken) ==
    /\ Fire(pv, g, Starts(pv, Combat, f), Stops(pv, Combat, f), taken)
    /\ prev' = [have |-> TRUE, flags |-> f, moving |-> FALSE,
                sticky |-> pv.sticky]

PuppetAlive(pv, g, f, speeding, taken) ==
    LET moving == speeding /\ f \cap {"Pipboy", "Menu"} = {}
        move   == MoveEdge(pv, moving)
        on     == Starts(pv, Gait \cup Combat, f) \cup Retried(pv, f)
        off    == Stops(pv, Gait \cup Combat, f)
    IN  /\ IF moving THEN Fire(pv, g, on \cup move, off, taken)
           ELSE Fire(pv, g, on, off \cup move, taken)
        /\ prev' = [have |-> TRUE, flags |-> f, moving |-> moving,
                    sticky |-> StickyTicks(pv)]

ApplyGhostPuppet(pv, g, f, speeding, taken) ==
    /\ IF "Dead" \in f THEN PuppetDead(pv, g, f, taken)
       ELSE PuppetAlive(pv, g, f, speeding, taken)
    /\ drawn' = IF taken THEN "Drawn" \in f ELSE drawn

(* One tick of a body with 3D (MoveGhost, MoveUnique), and after it        *)
(* CMP_IndicatorsTick, where UpdateMapMarkers puts a ghost that has a map  *)
(* marker at the latest pose.  It has one as long as the player is in the  *)
(* same worldspace and poses have come in the last five seconds.           *)
Older(s) == [s EXCEPT !.age = IF @ < MaxAge THEN @ + 1 ELSE MaxAge]
Aged == [i \in DOMAIN ring |-> Older(ring[i])]
Shown(f) == IF override # {} THEN CHOOSE g \in override : TRUE ELSE f

Tick(taken, marked) ==
    /\ marked => IsGhost /\ PointerHud
    /\ LET s == SampleAt
       IN  /\ pos' = IF marked THEN pose.x ELSE StepToward(s.x, s.speed)
           /\ ApplyGhostPuppet(prev, graph, Shown(s.flags), Moving(s.speed), taken)
    /\ ring' = Aged
    /\ UNCHANGED <<override, blobs>>

(* A look is put on the ghost, which may give it a new graph; then         *)
(* CMP_ReapplyGhostPuppet forgets what the old one was told and starts     *)
(* again from the latest pose.                                             *)
LookApplied(taken) ==
    /\ blobs < MaxBlobs /\ blobs' = blobs + 1             \* bound: MaxBlobs
    /\ \E g \in {graph, {}} :
         ApplyGhostPuppet(NoPrev, g, pose.flags, Moving(pose.v), taken)
    /\ UNCHANGED <<ring, pos, override>>

(* cmp_anim: CMP_ForceAnim shows a pose for four seconds. *)
ForceAnim(f, taken) ==
    /\ override' = {f}
    /\ ApplyGhostPuppet(prev, graph, f, Moving(pose.v), taken)
    /\ UNCHANGED <<ring, pos, blobs>>

OverrideEnds ==
    /\ override # {} /\ override' = {}
    /\ UNCHANGED <<ring, pos, prev, graph, drawn, told, blobs>>

MotionNext ==
    \/ \E p \in Poses : PoseArrives(p)
    \/ \E taken \in BOOLEAN :
         \/ \E marked \in BOOLEAN : Tick(taken, marked)
         \/ LookApplied(taken)
         \/ \E f \in Overrides : ForceAnim(f, taken)
    \/ OverrideEnds

MotionSpec == MotionInit /\ [][MotionNext]_motionVars

(* The player sends his pose poseHz times a second even if it is the same, *)
(* the task runs on every frame, four seconds pass, and the engine does    *)
(* not refuse every retry.                                                 *)
Again == \E p \in Poses : SamePose(p, pose) /\ PoseArrives(p)
FairMotionSpec ==
    /\ MotionSpec
    /\ WF_motionVars(Again)
    /\ WF_motionVars(\E taken, marked \in BOOLEAN : Tick(taken, marked))
    /\ WF_motionVars(OverrideEnds)
    /\ SF_motionVars(RetryDue(prev) /\ \E marked \in BOOLEAN : Tick(TRUE, marked))

-----------------------------------------------------------------------------
(* Properties *)

(* The ring is in the order of arrival, holds no more than its size and no *)
(* pose twice in a row, whatever is lost, repeated or late.                *)
RingOrdered ==
    /\ Len(ring) <= kPoseRingSize
    /\ \A i \in 1..(Len(ring) - 1) :
         /\ ring[i].age >= ring[i + 1].age
         /\ ~SamePose(ring[i], ring[i + 1])

(* SampleAt is the line through the samples: it passes through each one    *)
(* that is alone at its time, lies between two neighbours, takes its flags *)
(* from one of them, and runs on past the newest for no more than          *)
(* ExtrapCap ticks.                                                        *)
SampleInterpolates ==
    LET s == SampleAt
        n == Last(ring)
    IN  /\ \A i \in DOMAIN ring :
             ring[i].age = Delay /\ (\A j \in DOMAIN ring \ {i} : ring[j].age # Delay)
               => s = AtSample(ring[i])
        /\ \A i \in 1..(Len(ring) - 1) :
             LET a == ring[i]
                 b == ring[i + 1]
             IN  a.age > Delay /\ Delay > b.age =>
                   /\ s.x \in a.x..b.x \/ s.x \in b.x..a.x
                   /\ s.flags \in {a.flags, b.flags}
        /\ n.age > Delay => /\ s.x \in n.x..(n.x + ExtrapCap * n.v)
                            /\ s.flags = n.flags

(* The ring and what is read from it, whatever is lost, repeated or late. *)
MotionInv == MotionTypeOK /\ RingOrdered /\ SampleInterpolates

(* The graph is in the combat states of the last flags it was given, as    *)
(* long as the engine has taken the events: through deaths, samples that   *)
(* skip a pose, forced poses and resets.                                   *)
CombatFollows == prev.have /\ told => graph \cap Combat = prev.flags \cap Combat

(* A player who stands still and alive is in the end shown where he is,    *)
(* with his flags, his weapon and his sticky states, however many poses    *)
(* were late or lost and however often the engine refused.                 *)
Settles ==
    \A p \in {q \in Poses : q.v = 0 /\ "Dead" \notin q.flags} :
      <>[](SamePose(pose, p) /\ override = {}) =>
        <>[](/\ pos = p.x /\ prev.flags = p.flags /\ ~prev.moving
             /\ Sticky \cap p.flags \subseteq graph
             /\ drawn <=> "Drawn" \in p.flags)
=============================================================================
