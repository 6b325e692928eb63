----------------------------- MODULE StoreProofs -----------------------------
(***************************************************************************)
(* Proofs about Store: what the session folder holds, and will hold once   *)
(* the persist worker has caught up, is what the session holds in memory,  *)
(* for any number of players, any capacity of the queue and any number of  *)
(* starts.                                                                 *)
(***************************************************************************)
EXTENDS Store, SimProofs

-----------------------------------------------------------------------------
(* The worker's definitions, as Store's instance of PersistWorker has them *)

Has(job, f)  == f \in Worker!FilesOf(job)
Value(job, f) == Worker!Contents(job, f)
Loaded(f) ==
    IF f = "world" THEN Worker!LoadClock(disk)
    ELSE IF f = "bans" THEN Worker!LoadBans(disk) ELSE Worker!LoadPlayer(disk, f)

LEMMA SameTypes ==
    /\ Worker!Clocks = Clocks /\ Worker!PlayerRec = PlayerRec
    /\ Worker!PersistJob = PersistJob
    BY DEF Worker!Clocks, Clocks, Worker!PlayerRec, PlayerRec, Worker!PersistJob,
           PersistJob

LEMMA SameCount == ASSUME NEW S PROVE Worker!Cardinality(S) = Cardinality(S)
    BY DEF Worker!Cardinality, Cardinality

LEMMA KeyNames == \A k \in Keys : k # "world" /\ k # "bans"
    BY FilesAssumption

LEMMA JobHas ==
    ASSUME NEW job \in PersistJob
    PROVE  /\ Has(job, "world") <=> job.world
           /\ Has(job, "bans") <=> job.writeBans
           /\ \A k \in Keys : Has(job, k) <=> k \in DOMAIN job.players
<1>1. job.world \in BOOLEAN /\ job.writeBans \in BOOLEAN /\ DOMAIN job.players \subseteq Keys
    BY DEF PersistJob
<1>2. "world" \notin DOMAIN job.players /\ "bans" \notin DOMAIN job.players
    BY <1>1, KeyNames
<1>3. QED
    BY <1>1, <1>2, KeyNames DEF Has, Worker!FilesOf

LEMMA JobValue ==
    ASSUME NEW job
    PROVE  /\ Value(job, "world") = job.worldSnap /\ Value(job, "bans") = job.banKeys
           /\ \A k \in Keys : Value(job, k) = job.players[k]
    BY KeyNames DEF Value, Worker!Contents

(* The type of what a file is loaded to, and of a player's record that a   *)
(* job carries.                                                            *)
LEMMA JobRecord ==
    ASSUME NEW job \in PersistJob, NEW k \in DOMAIN job.players
    PROVE  job.players[k] \in PlayerRec
    BY DEF PersistJob

LEMMA LoadedIs ==
    /\ Loaded("world") = IF disk.world \in {Torn, Absent} THEN NoData ELSE disk.world
    /\ Loaded("bans") = IF disk.bans \in {Torn, Absent} THEN {} ELSE disk.bans
    /\ \A k \in Keys :
          Loaded(k) = IF disk.players[k] = Absent THEN NoRec
                      ELSE IF disk.players[k] = Torn THEN Worker!Blank ELSE disk.players[k]
<1>1. \A k \in Keys :
         Worker!LoadPlayer(disk, k) =
            IF disk.players[k] = Absent THEN NoRec
            ELSE IF disk.players[k] = Torn THEN Worker!Blank ELSE disk.players[k]
    BY FilesAssumption DEF Worker!LoadPlayer
<1>2. QED
    BY <1>1, KeyNames DEF Loaded, Worker!LoadClock, Worker!LoadBans

-----------------------------------------------------------------------------
(* What is on its way to a file *)

Queued(f) == \E i \in DOMAIN jobs : Has(jobs[i], f)

(* The last job in the queue that writes f, or the job in hand if it still *)
(* has to, or the file itself, carries v.                                  *)
Saved(f, v) ==
    \/ \E i \in DOMAIN jobs :
         /\ Has(jobs[i], f) /\ Value(jobs[i], f) = v
         /\ \A j \in DOMAIN jobs : j > i => ~Has(jobs[j], f)
    \/ /\ ~Queued(f)
       /\ \/ f \in left \cup open /\ \E job \in cur : Value(job, f) = v
          \/ f \notin left \cup open /\ Loaded(f) = v

(* Nothing has ever been written, or will be, for k. *)
Unwritten(k) == ~Queued(k) /\ k \notin left \cup open /\ disk.players[k] = Absent

LEMMA UnwrittenSaved ==
    ASSUME NEW k \in Keys, Unwritten(k) PROVE Saved(k, NoRec)
<1>1. Loaded(k) = NoRec
    BY LoadedIs DEF Unwritten
<1>2. QED
    BY <1>1 DEF Unwritten, Saved

(* A new job is put at the end of the queue. *)
LEMMA SavedPush ==
    ASSUME NEW job, NEW S, jobs \in Seq(S), jobs' = Append(jobs, job),
           UNCHANGED <<disk, cur, left, open>>, NEW f
    PROVE  /\ Has(job, f) => Saved(f, Value(job, f))'
           /\ ~Has(job, f) => /\ \A v : Saved(f, v) => Saved(f, v)'
                              /\ Queued(f)' => Queued(f)
<1>1. /\ Len(jobs) \in Nat /\ DOMAIN jobs = 1..Len(jobs)
      /\ DOMAIN jobs' = 1..(Len(jobs) + 1) /\ jobs'[Len(jobs) + 1] = job
      /\ \A i \in DOMAIN jobs : jobs'[i] = jobs[i] /\ i \in DOMAIN jobs' /\ i < Len(jobs) + 1
      /\ \A i \in DOMAIN jobs' : i \in DOMAIN jobs \/ i = Len(jobs) + 1
    OBVIOUS
<1>2. ASSUME NEW v PROVE Loaded(f)' = Loaded(f)
    BY DEF Loaded, Worker!LoadClock, Worker!LoadBans, Worker!LoadPlayer
<1>3. QED
    BY <1>1, <1>2 DEF Saved, Queued

-----------------------------------------------------------------------------
(* The worker *)

AllFiles == {"world", "bans"} \cup Keys

FolderOK == disk \in Worker!Folder

WorkOK ==
    \/ cur = {} /\ left = {} /\ open = {}
    \/ \E job \in PersistJob :
         /\ cur = {job} /\ \A f \in left \cup open : Has(job, f) /\ f \in AllFiles
         /\ left \cap open = {} /\ (open = {} \/ \E f : open = {f})

(* What may stand in a file that has been written. *)
Proper(f, v) ==
    IF f = "world" THEN v \in Clocks
    ELSE IF f = "bans" THEN v \in SUBSET Keys ELSE v \in PlayerRec

LEMMA HasFile == ASSUME NEW job \in PersistJob, NEW f, Has(job, f) PROVE f \in AllFiles
<1>1. DOMAIN job.players \subseteq Keys
    BY DEF PersistJob
<1>2. QED
    BY <1>1 DEF Has, Worker!FilesOf, AllFiles

LEMMA ValueProper ==
    ASSUME NEW job \in PersistJob, NEW f, Has(job, f) PROVE Proper(f, Value(job, f))
<1>1. job.worldSnap \in Clocks /\ job.banKeys \in SUBSET Keys
    BY DEF PersistJob
<1>2. f \in Keys => job.players[f] \in PlayerRec
    BY JobHas, JobRecord
<1>3. QED
    BY <1>1, <1>2, HasFile, JobValue, KeyNames DEF Proper, AllFiles

LEMMA StoreIs ==
    ASSUME FolderOK, NEW f \in AllFiles, NEW v, v = Torn \/ Proper(f, v),
           disk' = Worker!Store(disk, f, v)
    PROVE  /\ FolderOK'
           /\ \A g \in AllFiles : g # f => Loaded(g)' = Loaded(g)
           /\ Proper(f, v) => Loaded(f)' = v
           /\ \A k \in Keys : k # f => disk'.players[k] = disk.players[k]
<1>0. /\ disk.world \in Clocks \cup {Torn, Absent}
      /\ disk.bans \in (SUBSET Keys) \cup {Torn, Absent}
      /\ disk.players \in [Keys -> PlayerRec \cup {Torn, Absent}]
      /\ disk = [world |-> disk.world, bans |-> disk.bans, players |-> disk.players]
    BY SameTypes DEF FolderOK, Worker!Folder
<1>1. /\ Loaded("world")' = IF disk'.world \in {Torn, Absent} THEN NoData ELSE disk'.world
      /\ Loaded("bans")' = IF disk'.bans \in {Torn, Absent} THEN {} ELSE disk'.bans
      /\ \A k \in Keys :
            Loaded(k)' = IF disk'.players[k] = Absent THEN NoRec
                         ELSE IF disk'.players[k] = Torn THEN Worker!Blank
                         ELSE disk'.players[k]
  <2>1. \A k \in Keys :
           Worker!LoadPlayer(disk', k) =
              IF disk'.players[k] = Absent THEN NoRec
              ELSE IF disk'.players[k] = Torn THEN Worker!Blank ELSE disk'.players[k]
      BY FilesAssumption DEF Worker!LoadPlayer
  <2>2. QED
      BY <2>1, KeyNames DEF Loaded, Worker!LoadClock, Worker!LoadBans
<1>3. CASE f = "world"
  <2>1. disk' = [world |-> v, bans |-> disk.bans, players |-> disk.players]
      BY <1>0, <1>3 DEF Worker!Store
  <2>2. FolderOK'
      BY <1>0, <1>3, <2>1, SameTypes DEF FolderOK, Worker!Folder, Proper
  <2>3. QED
      BY <1>1, <1>3, <2>1, <2>2, LoadedIs, FilesAssumption DEF Proper, AllFiles
<1>4. CASE f = "bans"
  <2>1. disk' = [world |-> disk.world, bans |-> v, players |-> disk.players]
      BY <1>0, <1>4 DEF Worker!Store
  <2>2. FolderOK'
      BY <1>0, <1>4, <2>1, SameTypes DEF FolderOK, Worker!Folder, Proper
  <2>3. Proper(f, v) => v \notin {Torn, Absent}
      BY <1>4, FilesAssumption DEF Proper
  <2>4. QED
      BY <1>1, <1>4, <2>1, <2>2, <2>3, LoadedIs DEF AllFiles
<1>5. CASE f \in Keys
  <2>1. disk' = [world |-> disk.world, bans |-> disk.bans,
                 players |-> [disk.players EXCEPT ![f] = v]]
      BY <1>0, <1>5, KeyNames DEF Worker!Store
  <2>2. FolderOK'
      BY <1>0, <1>5, <2>1, SameTypes, KeyNames DEF FolderOK, Worker!Folder, Proper
  <2>3. Proper(f, v) => v \notin {Torn, Absent}
      BY <1>5, FilesAssumption, KeyNames DEF Proper
  <2>4. /\ disk'.world = disk.world /\ disk'.bans = disk.bans /\ disk'.players[f] = v
        /\ \A k \in Keys : k # f => disk'.players[k] = disk.players[k]
      BY <1>0, <1>5, <2>1
  <2>5. QED
      BY <1>1, <1>5, <2>2, <2>3, <2>4, LoadedIs, KeyNames DEF AllFiles
<1>6. QED
    BY <1>3, <1>4, <1>5 DEF AllFiles

(* A step of the worker keeps what is on its way, unless a file cannot be  *)
(* opened.                                                                 *)
Keeps ==
    /\ FolderOK' /\ WorkOK'
    /\ \A f \in AllFiles : \A v : ~ioError' /\ Saved(f, v) => Saved(f, v)'
    /\ \A k \in Keys : Unwritten(k) => Unwritten(k)'

LEMMA LoadedSame ==
    ASSUME disk' = disk, NEW f PROVE Loaded(f)' = Loaded(f)
    BY DEF Loaded, Worker!LoadClock, Worker!LoadBans, Worker!LoadPlayer

LEMMA TakeKeeps == ASSUME JobOK, FolderOK, WorkOK, Worker!TakeJob PROVE Keeps
<1>0. /\ cur = {} /\ jobs # <<>> /\ jobs' = Tail(jobs) /\ cur' = {Head(jobs)}
      /\ left' = Worker!FilesOf(Head(jobs)) /\ UNCHANGED <<disk, open, worker, ioError>>
    BY DEF Worker!TakeJob
<1>1. left = {} /\ open = {}
    BY <1>0 DEF WorkOK
<1>2. /\ jobs \in Seq(PersistJob) /\ Head(jobs) = jobs[1] /\ jobs[1] \in PersistJob
      /\ Len(jobs) \in Nat /\ Len(jobs) >= 1 /\ DOMAIN jobs = 1..Len(jobs)
      /\ DOMAIN jobs' = 1..(Len(jobs) - 1)
      /\ \A i \in DOMAIN jobs' : jobs'[i] = jobs[i + 1]
    BY <1>0 DEF JobOK
<1>3. \A f : f \in left' <=> Has(jobs[1], f)
    BY <1>0, <1>2 DEF Has
<1>4. FolderOK' /\ WorkOK'
    BY <1>0, <1>1, <1>2, <1>3, HasFile DEF FolderOK, Worker!Folder, WorkOK
<1>5. ASSUME NEW f PROVE Queued(f)' => Queued(f)
  <2>1. ASSUME NEW i \in DOMAIN jobs', Has(jobs'[i], f) PROVE Queued(f)
    <3>1. i + 1 \in DOMAIN jobs /\ Has(jobs[i + 1], f)
        BY <1>2, <2>1
    <3>2. QED
        BY <3>1 DEF Queued
  <2>2. QED
      BY <2>1 DEF Queued
<1>6. ASSUME NEW f, NEW v, Saved(f, v) PROVE Saved(f, v)'
  <2>1. ASSUME NEW i \in DOMAIN jobs, i # 1, Has(jobs[i], f), Value(jobs[i], f) = v,
               \A j \in DOMAIN jobs : j > i => ~Has(jobs[j], f)
        PROVE  Saved(f, v)'
    <3>1. /\ i - 1 \in DOMAIN jobs' /\ Has(jobs'[i - 1], f) /\ Value(jobs'[i - 1], f) = v
          /\ \A j \in DOMAIN jobs' : j > i - 1 => ~Has(jobs'[j], f)
        BY <1>2, <2>1
    <3>2. QED
        BY <3>1 DEF Saved
  <2>2. ASSUME Has(jobs[1], f), Value(jobs[1], f) = v,
               \A j \in DOMAIN jobs : j > 1 => ~Has(jobs[j], f)
        PROVE  Saved(f, v)'
    <3>1. ~Queued(f)'
      <4>1. \A i \in DOMAIN jobs' : ~Has(jobs'[i], f)
          BY <1>2, <2>2
      <4>2. QED
          BY <4>1 DEF Queued
    <3>2. QED
        BY <1>0, <1>2, <1>3, <2>2, <3>1 DEF Saved
  <2>3. ASSUME ~Queued(f), Loaded(f) = v PROVE Saved(f, v)'
    <3>1. ~Queued(f)' /\ ~Has(jobs[1], f)
        BY <1>2, <1>5, <2>3 DEF Queued
    <3>2. QED
        BY <1>0, <1>1, <1>3, <2>3, <3>1, LoadedSame DEF Saved
  <2>4. QED
      BY <1>1, <1>6, <2>1, <2>2, <2>3 DEF Saved
<1>7. ASSUME NEW k \in Keys, Unwritten(k) PROVE Unwritten(k)'
    BY <1>0, <1>1, <1>2, <1>3, <1>5, <1>7 DEF Unwritten, Queued
<1>8. QED
    BY <1>4, <1>6, <1>7 DEF Keeps

(* What the other steps do to the file they are about. *)
LEMMA TruncateKeeps ==
    ASSUME FolderOK, WorkOK, NEW f, Worker!Truncate(f) PROVE Keeps
<1>0. /\ open = {} /\ f \in left /\ open' = {f} /\ left' = left \ {f}
      /\ disk' = Worker!Store(disk, f, Torn) /\ UNCHANGED <<jobs, cur, worker, ioError>>
    BY DEF Worker!Truncate, Worker!Turn
<1>1. left' \cup open' = left \cup open
    BY <1>0
<1>2. f \in AllFiles
    BY <1>0 DEF WorkOK
<1>3. FolderOK' /\ \A g \in AllFiles : g # f => Loaded(g)' = Loaded(g)
    BY <1>0, <1>2, StoreIs
<1>4. \A k \in Keys : k # f => disk'.players[k] = disk.players[k]
    BY <1>0, <1>2, StoreIs
<1>5. WorkOK'
    BY <1>0, <1>1 DEF WorkOK
<1>6. ASSUME NEW g \in AllFiles, NEW v, Saved(g, v) PROVE Saved(g, v)'
    BY <1>0, <1>1, <1>3, <1>6 DEF Saved, Queued
<1>7. ASSUME NEW k \in Keys, Unwritten(k) PROVE Unwritten(k)'
    BY <1>0, <1>1, <1>4, <1>7 DEF Unwritten, Queued
<1>8. QED
    BY <1>3, <1>5, <1>6, <1>7 DEF Keeps

LEMMA OpenFailsKeeps ==
    ASSUME FolderOK, WorkOK, NEW f, Worker!OpenFails(f) PROVE Keeps
<1>0. /\ f \in left /\ left' = left \ {f} /\ ioError' = TRUE
      /\ UNCHANGED <<jobs, disk, cur, open, worker>>
    BY DEF Worker!OpenFails, Worker!Turn
<1>1. FolderOK' /\ WorkOK'
    BY <1>0 DEF FolderOK, Worker!Folder, WorkOK
<1>2. \A k \in Keys : Unwritten(k) => Unwritten(k)'
    BY <1>0 DEF Unwritten, Queued
<1>3. QED
    BY <1>0, <1>1, <1>2 DEF Keeps

LEMMA WriteKeeps == ASSUME FolderOK, WorkOK, Worker!Write PROVE Keeps
<1>0. PICK f \in open, job \in cur : disk' = Worker!Store(disk, f, Value(job, f))
    BY DEF Worker!Write, Value
<1>1. open' = {} /\ UNCHANGED <<jobs, cur, left, worker, ioError>>
    BY DEF Worker!Write
<1>2. /\ cur = {job} /\ job \in PersistJob /\ open = {f} /\ f \notin left
      /\ Has(job, f) /\ f \in AllFiles
    BY <1>0 DEF WorkOK
<1>3. Proper(f, Value(job, f))
    BY <1>2, ValueProper
<1>4. /\ FolderOK' /\ Loaded(f)' = Value(job, f)
      /\ \A g \in AllFiles : g # f => Loaded(g)' = Loaded(g)
      /\ \A k \in Keys : k # f => disk'.players[k] = disk.players[k]
    BY <1>0, <1>2, <1>3, StoreIs
<1>5. WorkOK'
    BY <1>1 DEF WorkOK
<1>6. ASSUME NEW g \in AllFiles, NEW v, Saved(g, v) PROVE Saved(g, v)'
    BY <1>1, <1>2, <1>4, <1>6 DEF Saved, Queued
<1>7. ASSUME NEW k \in Keys, Unwritten(k) PROVE Unwritten(k)'
    BY <1>1, <1>2, <1>4, <1>7 DEF Unwritten, Queued
<1>8. QED
    BY <1>4, <1>5, <1>6, <1>7 DEF Keeps

(* Nothing is left of a job that is done. *)
LEMMA RestKeeps ==
    ASSUME FolderOK, WorkOK, Worker!JobDone \/ Worker!WorkerEnds PROVE Keeps
<1>0. /\ UNCHANGED <<jobs, disk, left, open, ioError>>
      /\ cur' = cur \/ (cur' = {} /\ left = {} /\ open = {})
    BY DEF Worker!JobDone, Worker!WorkerEnds
<1>1. FolderOK' /\ WorkOK'
    BY <1>0 DEF FolderOK, Worker!Folder, WorkOK
<1>2. ASSUME NEW f, NEW v, Saved(f, v) PROVE Saved(f, v)'
    BY <1>0, <1>2, LoadedSame DEF Saved, Queued
<1>3. \A k \in Keys : Unwritten(k) => Unwritten(k)'
    BY <1>0 DEF Unwritten, Queued
<1>4. QED
    BY <1>1, <1>2, <1>3 DEF Keeps

LEMMA WorkerKeeps == ASSUME JobOK, FolderOK, WorkOK, Worker!WorkerStep PROVE Keeps
    BY TakeKeeps, TruncateKeeps, OpenFailsKeeps, WriteKeeps, RestKeeps DEF Worker!WorkerStep

-----------------------------------------------------------------------------
(* What a step of the simulation thread does to the records, the marks and *)
(* the queue of jobs                                                       *)

LiveKeys == {clients[p].key : p \in DOMAIN clients}

(* A record that changes is marked, and so is one whose player leaves; one *)
(* that a Hello makes is not.                                              *)
Marked(k) ==
    \/ k \in dirtyPlayers'
    \/ /\ k \notin dirtyPlayers /\ players'[k] = players[k]
       /\ k \in LiveKeys => k \in LiveKeys'
    \/ players[k] = NoRec /\ players'[k] = Worker!Blank /\ k \in LiveKeys'

Marks ==
    /\ \A k \in Keys : Marked(k)
    /\ worldDirty' \/ (~worldDirty /\ world'.clock = world.clock)
    /\ \A k \in dirtyPlayers' : k \in dirtyPlayers \/ players'[k] # NoRec

QuietSave == Marks /\ UNCHANGED <<jobs, jobLost, bannedKeys>>

BanSave == Marks /\ PersistBans(bannedKeys')

FlushSave ==
    \E dw \in BOOLEAN, dp \in SUBSET Keys :
       /\ FlushDirty(dw, dp)
       /\ dirtyPlayers \subseteq dp /\ (worldDirty => dw)
       /\ UNCHANGED <<players, world, bannedKeys>>
       /\ \A k \in LiveKeys : k \in LiveKeys' \/ k \in dp
       /\ \A k \in dp : k \in dirtyPlayers \/ players[k] # NoRec

LEMMA BlankIs == Worker!Blank = [havePose |-> FALSE, data |-> NoData] /\ Worker!Blank \in PlayerRec
    BY DEF Worker!Blank, PlayerRec

LEMMA QuietSaves ==
    ASSUME UNCHANGED <<world, players, worldDirty, dirtyPlayers, jobs, jobLost, bannedKeys>>,
           LiveKeys \subseteq LiveKeys'
    PROVE  QuietSave
<1>1. \A k \in Keys : Marked(k)
    BY DEF Marked
<1>2. worldDirty' \/ (~worldDirty /\ world'.clock = world.clock)
  <2>1. worldDirty' = worldDirty
      OBVIOUS
  <2>2. QED
      BY <2>1
<1>3. QED
    BY <1>1, <1>2 DEF QuietSave, Marks

LEMMA SameLive == ASSUME clients' = clients PROVE LiveKeys' = LiveKeys
    BY DEF LiveKeys

LEMMA ClientKey == ASSUME TypeOK, NEW p \in DOMAIN clients PROVE clients[p].key \in Keys
    BY TypeParts, ClientFields

Quiet == UNCHANGED <<world, players, worldDirty, dirtyPlayers, jobs, jobLost, bannedKeys>>

LEMMA QuietActions ==
    ASSUME TypeOK,
           \/ TcpAccept \/ SessionQuery \/ HelloRefused \/ FrameIgnored \/ DatagramIgnored
           \/ UdpBind \/ SendHeartbeat \/ AdminSay \/ AdminMaxPlayers \/ AdminRules
           \/ NetThread
           \/ \E p \in DOMAIN clients : HelloAgain(p) \/ ClientRelay(p) \/ ActorPose(p)
           \/ \E c \in pendingTcp : ExpirePending(c)
    PROVE  QuietSave
<1>1. CASE TcpAccept \/ SessionQuery \/ HelloRefused \/ FrameIgnored \/ DatagramIgnored
  <2>1. Quiet /\ clients' = clients
      BY <1>1 DEF TcpAccept, SessionQuery, HelloRefused, FrameIgnored, DatagramIgnored,
                  recordVars, saveVars, adminVars, memberVars, Quiet
  <2>2. QED
      BY <2>1, SameLive, QuietSaves DEF Quiet
<1>2. CASE SendHeartbeat \/ AdminSay \/ AdminMaxPlayers \/ AdminRules \/ NetThread
  <2>1. Quiet /\ clients' = clients
      BY <1>2 DEF SendHeartbeat, AdminSay, AdminMaxPlayers, AdminRules, NetThread,
                  recordVars, saveVars, adminVars, memberVars, simVars, Quiet
  <2>2. QED
      BY <2>1, SameLive, QuietSaves DEF Quiet
<1>3. ASSUME NEW p, ClientRelay(p) \/ ActorPose(p) \/ ExpirePending(p) PROVE QuietSave
  <2>1. Quiet /\ clients' = clients
      BY <1>3 DEF ClientRelay, ActorPose, ExpirePending,
                  recordVars, saveVars, adminVars, memberVars, Quiet
  <2>2. QED
      BY <2>1, SameLive, QuietSaves DEF Quiet
<1>4. ASSUME NEW p \in DOMAIN clients, HelloAgain(p) PROVE QuietSave
  <2>1. LiveKeys \subseteq LiveKeys'
      BY <1>4, RenewedClient DEF LiveKeys
  <2>2. Quiet
      BY <1>4 DEF HelloAgain, recordVars, saveVars, adminVars, Quiet
  <2>3. QED
      BY <2>1, <2>2, QuietSaves DEF Quiet
<1>5. CASE UdpBind
  <2>1. LiveKeys \subseteq LiveKeys'
      BY <1>5, BoundClient DEF LiveKeys
  <2>2. Quiet
      BY <1>5 DEF UdpBind, recordVars, saveVars, adminVars, Quiet
  <2>3. QED
      BY <2>1, <2>2, QuietSaves DEF Quiet
<1>6. QED
    BY <1>1, <1>2, <1>3, <1>4, <1>5

(* A Hello makes the record, and marks the world. *)
LEMMA JoinSaves ==
    ASSUME TypeOK, PeersFresh, HelloNew \/ \E p \in DOMAIN clients : SoftReconnect(p)
    PROVE  QuietSave
<1> DEFINE key == Event.msg.key
<1>0. key \in Keys /\ LiveKeys \subseteq LiveKeys' /\ key \in LiveKeys'
  <2>1. CASE HelloNew
    <3>1. key \in Keys
        BY <2>1, FromPendingType, HelloFields DEF HelloNew
    <3>2. nextPeer \notin DOMAIN clients
        BY TypeParts DEF PeersFresh, PeerOK
    <3>3. QED
        BY <2>1, <3>1, <3>2, NewClient DEF LiveKeys
  <2>2. ASSUME NEW p \in DOMAIN clients, SoftReconnect(p)
        PROVE  key \in Keys /\ LiveKeys \subseteq LiveKeys' /\ key \in LiveKeys'
    <3>1. key \in Keys
        BY <2>2, FromPendingType, HelloFields DEF SoftReconnect
    <3>2. QED
        BY <2>2, <3>1, MovedClient DEF LiveKeys
  <2>3. QED
      BY <2>1, <2>2
<1>1. PICK p, xs : Joined(p, xs)
    BY DEF HelloNew, SoftReconnect
<1>2. players' = WithRecord(key) /\ UNCHANGED <<bannedKeys, dirtyPlayers, jobs, jobLost>>
    BY <1>1 DEF Joined, adminVars
<1>3. players \in [Keys -> PlayerRec \cup {NoRec}]
    BY TypeParts DEF PlayerOK
<1>4. \A k \in Keys : \/ players'[k] = players[k]
                      \/ k = key /\ players[k] = NoRec /\ players'[k] = Worker!Blank
    BY <1>0, <1>2, <1>3 DEF WithRecord, Worker!Blank
<1>5. \A k \in Keys : Marked(k)
    BY <1>0, <1>2, <1>4 DEF Marked
<1>6. worldDirty' \/ (~worldDirty /\ world'.clock = world.clock)
  <2>1. worldDirty' = (worldDirty \/ ~world.created \/ p = hostPeerId')
      BY <1>1 DEF Joined
  <2>2. world' = [created |-> TRUE,
                  clock |-> IF p = hostPeerId' THEN Event.msg.clock ELSE world.clock]
      BY <1>1 DEF Joined
  <2>3. CASE p = hostPeerId'
      BY <2>1, <2>3
  <2>4. CASE worldDirty
      BY <2>1, <2>4
  <2>5. CASE p # hostPeerId' /\ ~worldDirty
      BY <2>2, <2>5
  <2>6. QED
      BY <2>3, <2>4, <2>5
<1>7. \A k \in dirtyPlayers' : k \in dirtyPlayers
    BY <1>2
<1>8. QED
    BY <1>2, <1>5, <1>6, <1>7 DEF QuietSave, Marks

(* A report from a client changes its record or the world, and marks it. *)
LEMMA ReportSaves ==
    ASSUME TypeOK, LiveRecords, NEW p \in DOMAIN clients,
           WorldSnapshot(p) \/ BlobComplete(p) \/ PlayerPose(p)
    PROVE  QuietSave
<1> DEFINE key == clients[p].key
<1>0. key \in Keys /\ players \in [Keys -> PlayerRec \cup {NoRec}]
    BY ClientKey, TypeParts DEF PlayerOK
<1>1. clients' = clients /\ UNCHANGED <<jobs, jobLost, bannedKeys>>
    BY DEF WorldSnapshot, BlobComplete, PlayerPose, memberVars, adminVars
<1>2. LiveKeys' = LiveKeys
    BY <1>1, SameLive
<1>3. CASE WorldSnapshot(p)
  <2>1. worldDirty' = TRUE /\ UNCHANGED <<players, dirtyPlayers>>
      BY <1>3 DEF WorldSnapshot
  <2>2. QED
      BY <1>1, <1>2, <2>1 DEF QuietSave, Marks, Marked
<1>4. CASE BlobComplete(p) \/ PlayerPose(p)
  <2>1. /\ dirtyPlayers' = dirtyPlayers \cup {key} /\ world' = world
        /\ \A k \in Keys : k # key => players'[k] = players[k]
      BY <1>0, <1>4 DEF BlobComplete, PlayerPose
  <2>2. worldDirty' \/ (~worldDirty /\ world'.clock = world.clock)
    <3>1. CASE BlobComplete(p)
      <4>1. worldDirty' = worldDirty
          BY <3>1 DEF BlobComplete
      <4>2. QED
          BY <2>1, <4>1
    <3>2. CASE PlayerPose(p)
      <4>1. worldDirty' = (worldDirty \/ p = hostPeerId)
          BY <3>2 DEF PlayerPose
      <4>2. worldDirty => worldDirty'
          BY <4>1
      <4>3. QED
          BY <2>1, <4>2
    <3>3. QED
        BY <1>4, <3>1, <3>2
  <2>3. players'[key] # NoRec
    <3>1. [Next]_vars
        BY <1>4 DEF Next, SimThread, HandleEvent
    <3>2. QED
        BY <1>0, <3>1, RecordsStay DEF LiveRecords
  <2>4. \A k \in Keys : Marked(k)
      BY <1>2, <2>1 DEF Marked
  <2>5. QED
      BY <1>1, <2>1, <2>2, <2>3, <2>4 DEF QuietSave, Marks
<1>5. QED
    BY <1>3, <1>4

(* Who leaves is marked before the flush. *)
LEMMA RemoveSaves ==
    ASSUME TypeOK, LiveRecords, NEW p \in DOMAIN clients, NEW keep, NEW pend, NEW conn,
           RemoveClient(p, keep, pend, conn)
    PROVE  FlushSave
<1> DEFINE key == clients[p].key
           dp  == dirtyPlayers \cup {k \in {key} : players[k] # NoRec}
<1>1. /\ key \in Keys /\ players[key] # NoRec
      /\ worldDirty \in BOOLEAN /\ dirtyPlayers \in SUBSET Keys
    BY ClientKey, TypeParts DEF LiveRecords, DirtyOK
<1>2. FlushDirty(worldDirty, dp) /\ UNCHANGED <<players, world, bannedKeys>>
    BY DEF RemoveClient, recordVars, adminVars
<1>3. \A k \in LiveKeys : k \in LiveKeys' \/ k = key
    BY DEF RemoveClient, Without, LiveKeys
<1>4. dp = dirtyPlayers \cup {key} /\ dp \in SUBSET Keys
    BY <1>1
<1> HIDE DEF dp
<1>5. QED
    BY <1>1, <1>2, <1>3, <1>4 DEF FlushSave

(* PersistTick flushes what is marked; the save command and the end of     *)
(* main() everything live.                                                 *)
LEMMA FlushSaves ==
    ASSUME TypeOK, LiveRecords, clients' = clients, UNCHANGED <<players, world, bannedKeys>>,
           \/ FlushDirty(worldDirty, dirtyPlayers)
           \/ FlushDirty(TRUE, dirtyPlayers \cup {clients[p].key : p \in DOMAIN clients})
    PROVE  FlushSave
<1> DEFINE all == dirtyPlayers \cup {clients[p].key : p \in DOMAIN clients}
<1>1. worldDirty \in BOOLEAN /\ dirtyPlayers \in SUBSET Keys /\ LiveKeys' = LiveKeys
    BY TypeParts, SameLive DEF DirtyOK
<1>2. all \in SUBSET Keys
    BY <1>1, ClientKey
<1>3. \A k \in all : k \in dirtyPlayers \/ players[k] # NoRec
    BY DEF LiveRecords
<1>4. dirtyPlayers \subseteq all
    OBVIOUS
<1> HIDE DEF all
<1>5. CASE FlushDirty(worldDirty, dirtyPlayers)
    BY <1>1, <1>5 DEF FlushSave
<1>6. CASE FlushDirty(TRUE, all)
    BY <1>1, <1>2, <1>3, <1>4, <1>6 DEF FlushSave
<1>7. QED
    BY <1>5, <1>6 DEF all

(* A kick marks the record and does not flush; a ban is a job of its own. *)
LEMMA AdminSaves ==
    ASSUME TypeOK, LiveRecords,
           \/ \E p \in DOMAIN clients, ban \in BOOLEAN : AdminKick(p, ban)
           \/ \E k \in Keys : AdminBan(k) \/ AdminUnban(k)
    PROVE  QuietSave \/ BanSave
<1>1. ASSUME NEW p \in DOMAIN clients, NEW ban \in BOOLEAN, AdminKick(p, ban)
      PROVE  QuietSave \/ BanSave
  <2> DEFINE key == clients[p].key
  <2>1. key \in Keys /\ players[key] # NoRec
      BY ClientKey DEF LiveRecords
  <2>2. dirtyPlayers' = dirtyPlayers \cup {key} /\ UNCHANGED <<players, world, worldDirty>>
      BY <1>1, <2>1 DEF AdminKick, recordVars
  <2>3. \A k \in LiveKeys : k \in LiveKeys' \/ k = key
      BY <1>1 DEF AdminKick, Without, LiveKeys
  <2>4. \A k \in Keys : Marked(k)
      BY <2>2, <2>3 DEF Marked
  <2>5. worldDirty' \/ (~worldDirty /\ world'.clock = world.clock)
    <3>1. worldDirty' = worldDirty
        BY <2>2
    <3>2. QED
        BY <2>2, <3>1
  <2>6. Marks
      BY <2>1, <2>2, <2>4, <2>5 DEF Marks
  <2>7. PersistBans(bannedKeys') \/ UNCHANGED <<bannedKeys, jobs, jobLost>>
      BY <1>1 DEF AdminKick
  <2>8. QED
      BY <2>6, <2>7 DEF QuietSave, BanSave
<1>2. ASSUME NEW k \in Keys, AdminBan(k) \/ AdminUnban(k) PROVE BanSave
  <2>1. /\ UNCHANGED <<players, world, worldDirty, dirtyPlayers, clients>>
        /\ PersistBans(bannedKeys')
      BY <1>2 DEF AdminBan, AdminUnban, memberVars, recordVars
  <2>2. worldDirty' \/ (~worldDirty /\ world'.clock = world.clock)
    <3>1. worldDirty' = worldDirty
        BY <2>1
    <3>2. QED
        BY <2>1, <3>1
  <2>3. Marks
      BY <2>1, <2>2, SameLive DEF Marks, Marked
  <2>4. QED
      BY <2>1, <2>3 DEF BanSave
<1>3. QED
    BY <1>1, <1>2

LEMMA SaveCases ==
    ASSUME TypeOK, LiveRecords, PeersFresh, HandleEvent \/ LoopTail \/ Admin \/ NetThread
    PROVE  QuietSave \/ BanSave \/ FlushSave
<1>1. CASE TcpClosed
  <2>1. ASSUME NEW p \in DOMAIN clients, NEW pend, NEW conn,
               RemoveClient(p, FALSE, pend, conn)
        PROVE  FlushSave
      BY <2>1, RemoveSaves
  <2>2. CASE UNCHANGED <<outVars, clients, udpPeerByAddr, hostPeerId,
                         hostLocation, idVars, adminVars, recordVars,
                         saveVars, sessionModHash>>
    <3>1. Quiet /\ LiveKeys' = LiveKeys
        BY <2>2, SameLive DEF Quiet, adminVars, recordVars, saveVars
    <3>2. QED
        BY <3>1, QuietSaves DEF Quiet
  <2>3. QED
      BY <1>1, <2>1, <2>2 DEF TcpClosed
<1>2. ASSUME NEW p \in DOMAIN clients, ClientBye(p) \/ ExpireClient(p) PROVE FlushSave
    BY <1>2, RemoveSaves DEF ClientBye, ExpireClient
<1>3. CASE PersistTick \/ AdminSave
    BY <1>3, FlushSaves DEF PersistTick, AdminSave, memberVars, recordVars, adminVars
<1>4. CASE HandleEvent
    BY <1>1, <1>2, <1>4, QuietActions, JoinSaves, ReportSaves DEF HandleEvent
<1>5. CASE LoopTail
    BY <1>2, <1>3, <1>5, QuietActions DEF LoopTail
<1>6. CASE Admin
    BY <1>3, <1>6, QuietActions, AdminSaves DEF Admin, AdminOther
<1>7. QED
    BY <1>4, <1>5, <1>6, QuietActions

-----------------------------------------------------------------------------
(* The inductive invariant *)

WorldKept     == \E v : v = world.clock /\ Saved("world", v)
RecordKept(k) == \E v : v = players[k] /\ Saved(k, v)
BansKept      == \E v : v = bannedKeys /\ Saved("bans", v)

(* Only a record is marked, and nothing is written for a key without one. *)
DirtyRecs  == \A k \in dirtyPlayers : players[k] # NoRec
Unrecorded == \A k \in Keys : players[k] = NoRec => Unwritten(k)

(* What is neither marked nor on its way is on the disk already, but for   *)
(* the record of a player who has just joined.                             *)
KeyKept(k) ==
    \/ k \in dirtyPlayers \/ RecordKept(k)
    \/ players[k] = Worker!Blank /\ Unwritten(k) /\ k \in LiveKeys
RestKept == (worldDirty \/ WorldKept) /\ \A k \in Keys : KeyKept(k)

SaveInv ==
    /\ DirtyRecs /\ Unrecorded
    /\ ~jobLost /\ ~ioError => RestKept
    /\ ~jobLost /\ ~ioError /\ HasPersist => BansKept

(* Once the final job is in the queue everything is on its way, whatever   *)
(* the queue has refused before.                                           *)
FinalInv ==
    phase \in {"stop", "join", "done"} /\ ~ioError =>
       WorldKept /\ \A k \in Keys : RecordKept(k)

(* The worker is stopped last, and ends with nothing left to do. *)
PhaseInv ==
    /\ phase \in {"loop", "drain", "final", "stop"} => worker = "running"
    /\ worker = "ended" => cur = {} /\ jobs = <<>>
    /\ phase = "done" => worker = "ended"

MainOK ==
    /\ worker \in {"running", "stopping", "ended"} /\ ioError \in BOOLEAN
    /\ phase \in Phases /\ starts \in 1..MaxStarts

StoreIInv ==
    /\ TypeOK /\ LiveRecords /\ PeersFresh /\ FolderOK /\ WorkOK /\ MainOK
    /\ SaveInv /\ FinalInv /\ PhaseInv

-----------------------------------------------------------------------------
(* Steps of the simulation thread *)

WorkSame == UNCHANGED <<disk, cur, left, open, ioError>>

(* The files f that the step does not add to the queue. *)
Spares(F) ==
    /\ \A f \in F : \A v : Saved(f, v) => Saved(f, v)'
    /\ \A k \in F \cap Keys : Unwritten(k) => Unwritten(k)'

LEMMA NothingPushed == ASSUME WorkSame, jobs' = jobs, NEW F PROVE Spares(F)
<1>1. \A f : Loaded(f)' = Loaded(f)
    BY LoadedSame DEF WorkSame
<1>2. ASSUME NEW f, NEW v, Saved(f, v) PROVE Saved(f, v)'
    BY <1>1, <1>2 DEF Saved, Queued, WorkSame
<1>3. ASSUME NEW k, Unwritten(k) PROVE Unwritten(k)'
    BY <1>3 DEF Unwritten, Queued, WorkSame
<1>4. QED
    BY <1>2, <1>3 DEF Spares

LEMMA Pushed ==
    ASSUME WorkSame, JobOK, NEW job, jobs' = Append(jobs, job),
           NEW F, \A f \in F : ~Has(job, f)
    PROVE  Spares(F)
<1>0. jobs \in Seq(PersistJob) /\ UNCHANGED <<disk, cur, left, open>>
    BY DEF JobOK, WorkSame
<1>1. ASSUME NEW f \in F, NEW v, Saved(f, v) PROVE Saved(f, v)'
    BY <1>0, <1>1, SavedPush
<1>2. ASSUME NEW k \in F \cap Keys, Unwritten(k) PROVE Unwritten(k)'
  <2>1. ~Queued(k)'
      BY <1>0, <1>2, SavedPush DEF Unwritten
  <2>2. QED
      BY <1>0, <1>2, <2>1 DEF Unwritten
<1>3. QED
    BY <1>1, <1>2 DEF Spares

(* The bans keep their place. *)
LEMMA BansSpared ==
    ASSUME BansKept, bannedKeys' = bannedKeys, NEW F, "bans" \in F, Spares(F) PROVE BansKept'
    BY DEF BansKept, Spares

LEMMA MarksKeep ==
    ASSUME Marks, Spares({"world"} \cup Keys), DirtyRecs, Unrecorded,
           \A k \in Keys : players[k] # NoRec => players'[k] # NoRec,
           dirtyPlayers \subseteq Keys
    PROVE  DirtyRecs' /\ Unrecorded' /\ (RestKept => RestKept')
<1>1. \A k \in Keys : Marked(k)
    BY DEF Marks
<1>2. DirtyRecs'
    BY DEF Marks, DirtyRecs
<1>3. Unrecorded'
    BY DEF Unrecorded, Spares
<1>4. ASSUME RestKept PROVE RestKept'
  <2>1. worldDirty' \/ WorldKept'
    <3>1. worldDirty' \/ (~worldDirty /\ world'.clock = world.clock)
        BY DEF Marks
    <3>2. ASSUME ~worldDirty, world'.clock = world.clock PROVE WorldKept'
      <4>1. PICK v : v = world.clock /\ Saved("world", v)
          BY <1>4, <3>2 DEF RestKept, WorldKept
      <4>2. Saved("world", v)'
          BY <4>1 DEF Spares
      <4>3. QED
          BY <3>2, <4>1, <4>2 DEF WorldKept
    <3>3. QED
        BY <3>1, <3>2
  <2>2. ASSUME NEW k \in Keys PROVE KeyKept(k)'
    <3>1. CASE k \in dirtyPlayers'
        BY <3>1 DEF KeyKept
    <3>2. CASE /\ k \notin dirtyPlayers /\ players'[k] = players[k]
               /\ k \in LiveKeys => k \in LiveKeys'
      <4>1. CASE RecordKept(k)
        <5>1. PICK v : v = players[k] /\ Saved(k, v)
            BY <4>1 DEF RecordKept
        <5>2. Saved(k, v)'
            BY <5>1 DEF Spares
        <5>3. RecordKept(k)'
            BY <3>2, <5>1, <5>2 DEF RecordKept
        <5>4. QED
            BY <5>3 DEF KeyKept
      <4>2. CASE players[k] = Worker!Blank /\ Unwritten(k) /\ k \in LiveKeys
        <5>1. Unwritten(k)'
            BY <4>2 DEF Spares
        <5>2. QED
            BY <3>2, <4>2, <5>1 DEF KeyKept, Worker!Blank
      <4>3. QED
          BY <1>4, <3>2, <4>1, <4>2 DEF RestKept, KeyKept
    <3>3. CASE players[k] = NoRec /\ players'[k] = Worker!Blank /\ k \in LiveKeys'
      <4>1. Unwritten(k)'
          BY <3>3 DEF Unrecorded, Spares
      <4>2. QED
          BY <3>3, <4>1 DEF KeyKept, Worker!Blank
    <3>4. QED
        BY <1>1, <3>1, <3>2, <3>3 DEF Marked
  <2>3. QED
      BY <2>1, <2>2 DEF RestKept
<1>5. QED
    BY <1>2, <1>3, <1>4

RecsStay == \A k \in Keys : players[k] # NoRec => players'[k] # NoRec

LEMMA QuietSaveStep ==
    ASSUME TypeOK, SaveInv, QuietSave, WorkSame, RecsStay PROVE SaveInv'
<1>0. /\ Marks /\ jobs' = jobs /\ jobLost' = jobLost /\ bannedKeys' = bannedKeys
      /\ ioError' = ioError /\ dirtyPlayers \subseteq Keys
    BY TypeParts DEF QuietSave, WorkSame, DirtyOK
<1>1. Spares(AllFiles) /\ Spares({"world"} \cup Keys)
    BY <1>0, NothingPushed
<1>2. DirtyRecs' /\ Unrecorded' /\ (RestKept => RestKept')
    BY <1>0, <1>1, MarksKeep DEF SaveInv, RecsStay
<1>3. BansKept => BansKept'
    BY <1>0, <1>1, BansSpared DEF AllFiles
<1>4. ~jobLost' => ~jobLost
    BY <1>0
<1>5. ~ioError' => ~ioError
    BY <1>0
<1>6. QED
    BY <1>2, <1>3, <1>4, <1>5 DEF SaveInv

(* What an offer to the queue comes to. *)
LEMMA Offer ==
    ASSUME NEW job
    PROVE  \/ Full(jobs, JobCap) /\ Push(jobs, JobCap, job) = jobs
           \/ ~Full(jobs, JobCap) /\ Push(jobs, JobCap, job) = Append(jobs, job)
    BY DEF Push

LEMMA BanSaveStep ==
    ASSUME TypeOK, SaveInv, BanSave, WorkSame, RecsStay, bannedKeys' \in SUBSET Keys
    PROVE  SaveInv'
<1>0. Marks /\ ioError' = ioError /\ dirtyPlayers \subseteq Keys /\ JobOK
    BY TypeParts DEF BanSave, WorkSame, DirtyOK
<1>1. ~ioError' => ~ioError
    BY <1>0
<1>2. CASE ~HasPersist
  <2>1. jobs' = jobs /\ jobLost' = jobLost
      BY <1>2 DEF BanSave, PersistBans
  <2>2. Spares({"world"} \cup Keys)
      BY <2>1, NothingPushed
  <2>3. DirtyRecs' /\ Unrecorded' /\ (RestKept => RestKept')
      BY <1>0, <2>2, MarksKeep DEF SaveInv, RecsStay
  <2>4. ~jobLost' => ~jobLost
      BY <2>1
  <2>5. QED
      BY <1>1, <1>2, <2>3, <2>4 DEF SaveInv
<1>3. CASE HasPersist
  <2>1. PICK B \in SUBSET Keys : B = bannedKeys'
      OBVIOUS
  <2>2. /\ jobs' = Push(jobs, JobCap, BanJob(B))
        /\ jobLost' = (jobLost \/ Full(jobs, JobCap))
    <3>1. PersistBans(bannedKeys')
        BY DEF BanSave
    <3>2. QED
        BY <1>3, <2>1, <3>1 DEF PersistBans
  <2>3. ~jobLost' => ~jobLost /\ ~Full(jobs, JobCap)
      BY <2>2
  <2> DEFINE job == BanJob(B)
  <2>4. job \in PersistJob
    <3>1. <<>> \in [{} -> PlayerRec]
        OBVIOUS
    <3>2. QED
        BY <3>1 DEF BanJob, PersistJob, Clocks
  <2>5. /\ job.world = FALSE /\ job.writeBans = TRUE /\ job.banKeys = B
        /\ DOMAIN job.players = {}
      BY DEF BanJob
  <2>6. Has(job, "bans") /\ Value(job, "bans") = B
      BY <2>4, <2>5, JobHas, JobValue
  <2>7. \A f \in {"world"} \cup Keys : ~Has(job, f)
      BY <2>4, <2>5, JobHas
  <2> HIDE DEF job
  <2>8. (jobs' = jobs /\ Full(jobs, JobCap)) \/ jobs' = Append(jobs, job)
      BY <2>2, Offer DEF job
  <2>9. Spares({"world"} \cup Keys)
      BY <1>0, <2>7, <2>8, NothingPushed, Pushed
  <2>10. DirtyRecs' /\ Unrecorded' /\ (RestKept => RestKept')
      BY <1>0, <2>9, MarksKeep DEF SaveInv, RecsStay
  <2>11. ASSUME ~jobLost' PROVE BansKept'
    <3>1. jobs' = Append(jobs, job) /\ jobs \in Seq(PersistJob)
        BY <1>0, <2>3, <2>8, <2>11 DEF JobOK
    <3>2. Saved("bans", B)'
        BY <2>6, <3>1, SavedPush DEF WorkSame
    <3>3. QED
        BY <2>1, <3>2 DEF BansKept
  <2>12. QED
      BY <1>1, <2>3, <2>10, <2>11 DEF SaveInv
<1>4. QED
    BY <1>2, <1>3

(* A flush either is lost or leaves on its way what was marked. *)
LEMMA FlushSaveStep ==
    ASSUME TypeOK, SaveInv, FlushSave, WorkSame PROVE SaveInv'
<1>1. PICK dw \in BOOLEAN, dp \in SUBSET Keys :
         /\ FlushDirty(dw, dp)
         /\ dirtyPlayers \subseteq dp /\ (worldDirty => dw)
         /\ UNCHANGED <<players, world, bannedKeys>>
         /\ \A k \in LiveKeys : k \in LiveKeys' \/ k \in dp
         /\ \A k \in dp : k \in dirtyPlayers \/ players[k] # NoRec
    BY DEF FlushSave
<1>0. /\ ioError' = ioError /\ JobOK /\ WorldOK /\ PlayerOK /\ DirtyRecs /\ Unrecorded
      /\ UNCHANGED <<disk, cur, left, open>>
    BY TypeParts DEF WorkSame, SaveInv
<1>2. ~ioError' => ~ioError
    BY <1>0
<1>3. \A k \in dp : players[k] # NoRec
    BY <1>0, <1>1 DEF DirtyRecs
<1> DEFINE job == [world |-> dw, worldSnap |-> world.clock,
                   players |-> [k \in dp |-> players[k]],
                   writeBans |-> FALSE, banKeys |-> {}]
           none == ~dw /\ dp = {}
<1>4. {k \in dp : players[k] # NoRec} = dp
    BY <1>3
<1>5. job \in PersistJob
  <2>1. [k \in dp |-> players[k]] \in [dp -> PlayerRec]
      BY <1>0, <1>3 DEF PlayerOK
  <2>2. world.clock \in Clocks
      BY <1>0 DEF WorldOK
  <2>3. QED
      BY <2>1, <2>2 DEF PersistJob
<1>6. /\ job.world = dw /\ job.worldSnap = world.clock /\ job.writeBans = FALSE
      /\ DOMAIN job.players = dp /\ \A k \in dp : job.players[k] = players[k]
    OBVIOUS
<1> HIDE DEF job
<1>7. ASSUME NEW k \in Keys, k \notin dp PROVE k \notin dirtyPlayers /\ (k \in LiveKeys => k \in LiveKeys')
    BY <1>1, <1>7
<1>8. ASSUME dirtyPlayers' = dp, worldDirty' \/ ~dw, jobs' = jobs, jobLost' = jobLost
      PROVE  SaveInv'
  <2>1. \A k \in Keys : Marked(k)
      BY <1>1, <1>7, <1>8 DEF Marked
  <2>2. worldDirty' \/ (~worldDirty /\ world'.clock = world.clock)
      BY <1>1, <1>8
  <2>3. QuietSave
      BY <1>1, <1>3, <1>8, <2>1, <2>2 DEF QuietSave, Marks
  <2>4. QED
      BY <1>1, <2>3, QuietSaveStep DEF RecsStay
<1>9. CASE ~HasPersist
  <2>1. worldDirty' = dw /\ dirtyPlayers' = dp /\ jobs' = jobs /\ jobLost' = jobLost
      BY <1>1, <1>9 DEF FlushDirty
  <2>2. worldDirty' \/ ~dw
      BY <2>1
  <2>3. QED
      BY <1>8, <2>1, <2>2
<1>10. CASE HasPersist
  <2>1. /\ worldDirty' = FALSE /\ dirtyPlayers' = {}
        /\ jobs' = IF none THEN jobs ELSE Push(jobs, JobCap, job)
        /\ jobLost' = (jobLost \/ (~none /\ Full(jobs, JobCap)))
      BY <1>1, <1>4, <1>10 DEF FlushDirty, job
  <2>2. CASE none
    <3>1. jobLost' = jobLost
        BY <1>0, <2>1, <2>2 DEF JobOK
    <3>2. dirtyPlayers' = dp /\ ~dw /\ jobs' = jobs
        BY <2>1, <2>2
    <3>3. QED
        BY <1>8, <3>1, <3>2
  <2>3. DirtyRecs'
      BY <2>1 DEF DirtyRecs
  <2>4. CASE ~none /\ Full(jobs, JobCap)
    <3>1. jobLost' = TRUE
        BY <2>1, <2>4
    <3>2. jobs' = jobs
        BY <2>1, <2>4, Offer
    <3>3. Unrecorded'
      <4>1. Spares(Keys)
          BY <3>2, NothingPushed
      <4>2. QED
          BY <1>0, <1>1, <4>1 DEF Unrecorded, Spares
    <3>4. QED
        BY <2>3, <3>1, <3>3 DEF SaveInv
  <2>5. CASE ~none /\ ~Full(jobs, JobCap)
    <3> DEFINE F == {f \in AllFiles : ~Has(job, f)}
    <3>1. jobs' = Append(jobs, job) /\ jobs \in Seq(PersistJob)
        BY <1>0, <2>1, <2>5, Offer DEF JobOK
    <3>2. ~jobLost' => ~jobLost
        BY <2>1
    <3>3. Spares(F)
        BY <1>0, <3>1, Pushed
    <3>4. /\ "bans" \in F
          /\ ~dw => "world" \in F
          /\ \A k \in Keys : k \notin dp => k \in F
        BY <1>5, <1>6, JobHas DEF AllFiles
    <3> HIDE DEF F
    <3>5. Unrecorded'
        BY <1>0, <1>1, <1>3, <3>3, <3>4 DEF Unrecorded, Spares
    <3>6. BansKept => BansKept'
        BY <1>1, <3>3, <3>4, BansSpared
    <3>7. ASSUME RestKept PROVE RestKept'
      <4>1. WorldKept'
        <5>1. CASE dw
          <6>1. Has(job, "world") /\ Value(job, "world") = world.clock
              BY <1>5, <1>6, <5>1, JobHas, JobValue
          <6>2. PICK j, v : j = job /\ v = world.clock
              OBVIOUS
          <6>3. Saved("world", v)'
              BY <1>0, <3>1, <6>1, <6>2, SavedPush
          <6>4. QED
              BY <1>1, <6>2, <6>3 DEF WorldKept
        <5>2. CASE ~dw
          <6>1. PICK v : v = world.clock /\ Saved("world", v)
              BY <1>1, <3>7, <5>2 DEF RestKept, WorldKept
          <6>2. Saved("world", v)'
              BY <3>3, <3>4, <5>2, <6>1 DEF Spares
          <6>3. QED
              BY <1>1, <6>1, <6>2 DEF WorldKept
        <5>3. QED
            BY <5>1, <5>2
      <4>2. ASSUME NEW k \in dp PROVE RecordKept(k)'
        <5>1. Has(job, k) /\ Value(job, k) = players[k]
            BY <1>5, <1>6, JobHas, JobValue
        <5>2. PICK v : v = players[k]
            OBVIOUS
        <5>3. Saved(k, v)'
            BY <1>0, <3>1, <5>1, <5>2, SavedPush
        <5>4. QED
            BY <1>1, <5>2, <5>3 DEF RecordKept
      <4>3. ASSUME NEW k \in Keys, k \notin dp PROVE KeyKept(k)'
        <5>1. CASE RecordKept(k)
          <6>1. PICK v : v = players[k] /\ Saved(k, v)
              BY <5>1 DEF RecordKept
          <6>2. Saved(k, v)'
              BY <3>3, <3>4, <4>3, <6>1 DEF Spares
          <6>3. RecordKept(k)'
              BY <1>1, <6>1, <6>2 DEF RecordKept
          <6>4. QED
              BY <6>3 DEF KeyKept
        <5>2. CASE players[k] = Worker!Blank /\ Unwritten(k) /\ k \in LiveKeys
          <6>1. Unwritten(k)'
              BY <3>3, <3>4, <4>3, <5>2 DEF Spares
          <6>2. QED
              BY <1>1, <1>7, <4>3, <5>2, <6>1 DEF KeyKept, Worker!Blank
        <5>3. QED
            BY <1>7, <3>7, <4>3, <5>1, <5>2 DEF RestKept, KeyKept
      <4>4. QED
          BY <4>1, <4>2, <4>3 DEF RestKept, KeyKept
    <3>8. QED
        BY <1>2, <2>3, <3>2, <3>5, <3>6, <3>7 DEF SaveInv
  <2>6. QED
      BY <2>2, <2>4, <2>5
<1>11. QED
    BY <1>9, <1>10

-----------------------------------------------------------------------------
(* Steps of main() *)

SimOK == TypeOK /\ LiveRecords /\ PeersFresh
DiskOK == FolderOK /\ WorkOK

LEMMA DiskSame ==
    ASSUME DiskOK, UNCHANGED <<disk, cur, left, open>> PROVE DiskOK'
    BY DEF DiskOK, FolderOK, Worker!Folder, WorkOK

LEMMA StepSimOK == ASSUME SimOK, [Next]_vars PROVE SimOK' /\ RecsStay
    BY TypeStep, RecordStep, PeersStep, RecordsStay DEF SimOK, RecsStay

LEMMA MainStepInv == ASSUME StoreIInv, MainStep PROVE StoreIInv'
<1>1. /\ HandleEvent \/ LoopTail \/ Admin \/ NetThread
      /\ phase \in {"loop", "drain"}
      /\ UNCHANGED <<disk, cur, left, open, worker, ioError, phase, starts>>
    BY DEF MainStep, diskVars
<1>2. SimOK /\ DiskOK /\ MainOK /\ SaveInv /\ PhaseInv
    BY DEF StoreIInv, SimOK, DiskOK
<1>3. SimOK' /\ RecsStay
    BY <1>1, <1>2, StepSimOK DEF Next, SimThread
<1>4. DiskOK' /\ WorkSame
    BY <1>1, <1>2, DiskSame DEF WorkSame
<1>5. MainOK'
    BY <1>1, <1>2 DEF MainOK
<1>6. SaveInv'
  <2>1. bannedKeys' \in SUBSET Keys
      BY <1>3 DEF SimOK, TypeOK
  <2>2. QuietSave \/ BanSave \/ FlushSave
      BY <1>1, <1>2, SaveCases DEF SimOK
  <2>3. QED
      BY <1>2, <1>3, <1>4, <2>1, <2>2, QuietSaveStep, BanSaveStep, FlushSaveStep DEF SimOK
<1>7. FinalInv' /\ PhaseInv'
    BY <1>1, <1>2 DEF FinalInv, PhaseInv
<1>8. QED
    BY <1>3, <1>4, <1>5, <1>6, <1>7 DEF StoreIInv, SimOK, DiskOK

(* Steps that change nothing but the phase. *)
LEMMA PhaseStep ==
    ASSUME StoreIInv, Quit \/ JoinWorker \/ Ended \/ UNCHANGED storeVars PROVE StoreIInv'
<1>1. /\ UNCHANGED <<vars, disk, cur, left, open, worker, ioError, starts>>
      /\ \/ phase' = phase
         \/ phase = "loop" /\ phase' = "drain"
         \/ phase = "join" /\ worker = "ended" /\ phase' = "done"
    BY DEF Quit, JoinWorker, Ended, storeVars, diskVars
<1>2. SimOK /\ DiskOK /\ MainOK /\ SaveInv /\ FinalInv /\ PhaseInv
    BY DEF StoreIInv, SimOK, DiskOK
<1>3. SimOK' /\ DiskOK'
    BY <1>1, <1>2, StepSimOK, DiskSame
<1>4. MainOK'
    BY <1>1, <1>2 DEF MainOK, Phases
<1>5. UNCHANGED <<jobs, jobLost, world, players, clients, bannedKeys, worldDirty, dirtyPlayers>>
    BY <1>1 DEF vars, simVars, memberVars, adminVars, recordVars
<1>6. WorkSame /\ Spares(AllFiles)
    BY <1>1, <1>5, NothingPushed DEF WorkSame
<1>7. SaveInv'
  <2>1. QuietSave /\ RecsStay
      BY <1>5, SameLive, QuietSaves DEF RecsStay
  <2>2. QED
      BY <1>2, <1>6, <2>1, QuietSaveStep DEF SimOK
<1>8. FinalInv'
  <2>1. WorldKept => WorldKept'
      BY <1>5, <1>6 DEF WorldKept, Spares, AllFiles
  <2>2. \A k \in Keys : RecordKept(k) => RecordKept(k)'
      BY <1>5, <1>6 DEF RecordKept, Spares, AllFiles
  <2>3. ~ioError' => ~ioError
      BY <1>1
  <2>4. QED
      BY <1>1, <1>2, <2>1, <2>2, <2>3 DEF FinalInv
<1>9. PhaseInv'
    BY <1>1, <1>2, <1>5 DEF PhaseInv
<1>10. QED
    BY <1>3, <1>4, <1>7, <1>8, <1>9 DEF StoreIInv, SimOK, DiskOK

LEMMA LastFlushInv == ASSUME StoreIInv, LastFlush PROVE StoreIInv'
<1> DEFINE all == dirtyPlayers \cup {clients[p].key : p \in DOMAIN clients}
<1>1. /\ phase = "drain" /\ phase' = "final" /\ FlushDirty(TRUE, all)
      /\ UNCHANGED <<inbound, outbound, outLost, nextConn, memberVars, hostLocation, idVars,
                     adminVars, recordVars, sessionModHash, starts>>
      /\ UNCHANGED <<disk, cur, left, open, worker, ioError>>
    BY DEF LastFlush, outVars, diskVars
<1>2. SimOK /\ DiskOK /\ MainOK /\ SaveInv /\ PhaseInv
    BY DEF StoreIInv, SimOK, DiskOK
<1>3. UNCHANGED <<players, world, bannedKeys, clients, nextPeer>>
    BY <1>1 DEF memberVars, idVars, adminVars, recordVars
<1>4. SimOK'
  <2>1. all \in SUBSET Keys
      BY <1>2, ClientKey, TypeParts DEF SimOK, DirtyOK
  <2>2. JobOK' /\ DirtyOK'
      BY <1>1, <1>2, <2>1, TypeParts, FlushType DEF SimOK
  <2>3. TypeOK'
      BY <1>1, <1>2, <2>2, Kept, QuietType DEF SimOK
  <2>4. QED
      BY <1>2, <1>3, <2>3 DEF SimOK, LiveRecords, PeersFresh
<1>5. DiskOK' /\ WorkSame
    BY <1>1, <1>2, DiskSame DEF WorkSame
<1>6. MainOK'
    BY <1>1, <1>2 DEF MainOK, Phases
<1>7. SaveInv'
  <2>1. FlushSave
      BY <1>1, <1>2, <1>3, FlushSaves DEF SimOK
  <2>2. QED
      BY <1>2, <1>5, <2>1, FlushSaveStep DEF SimOK
<1>8. FinalInv' /\ PhaseInv'
    BY <1>1, <1>2 DEF FinalInv, PhaseInv
<1>9. QED
    BY <1>4, <1>5, <1>6, <1>7, <1>8 DEF StoreIInv, SimOK, DiskOK

(* Steps that only touch the queue and the worker. *)
LEMMA SimSame ==
    ASSUME SimOK, JobOK', UNCHANGED <<inbound, outbound, nextConn, simVars>>
    PROVE  /\ SimOK' /\ RecsStay
           /\ UNCHANGED <<players, world, bannedKeys, clients, worldDirty, dirtyPlayers, jobLost>>
<1>1. /\ UNCHANGED <<players, world, bannedKeys, clients, worldDirty, dirtyPlayers, jobLost>>
      /\ nextPeer' = nextPeer
    BY DEF simVars, memberVars, idVars, adminVars, recordVars
<1>2. TypeOK'
    BY Kept, TypePartsNext DEF SimOK, simVars, memberVars, idVars, adminVars, recordVars
<1>3. LiveRecords' /\ PeersFresh' /\ RecsStay
    BY <1>1 DEF SimOK, LiveRecords, PeersFresh, RecsStay
<1>4. QED
    BY <1>1, <1>2, <1>3 DEF SimOK

LEMMA FinalJobInv == ASSUME StoreIInv, FinalJob PROVE StoreIInv'
<1> DEFINE recs == {k \in Keys : players[k] # NoRec}
           job  == [world |-> TRUE, worldSnap |-> world.clock,
                    players |-> [k \in recs |-> players[k]],
                    writeBans |-> FALSE, banKeys |-> {}]
           F    == {f \in AllFiles : ~Has(job, f)}
<1>1. /\ phase = "final" /\ phase' = "stop" /\ ~Full(jobs, JobCap)
      /\ UNCHANGED <<inbound, outbound, nextConn, simVars, starts>>
      /\ UNCHANGED <<disk, cur, left, open, worker, ioError>>
    BY DEF FinalJob, diskVars
<1>2. jobs' = Append(jobs, job)
    BY DEF FinalJob
<1>3. SimOK /\ DiskOK /\ MainOK /\ SaveInv /\ PhaseInv
    BY DEF StoreIInv, SimOK, DiskOK
<1>4. job \in PersistJob
  <2>1. [k \in recs |-> players[k]] \in [recs -> PlayerRec]
      BY <1>3, TypeParts DEF SimOK, PlayerOK
  <2>2. world.clock \in Clocks
      BY <1>3, TypeParts DEF SimOK, WorldOK
  <2>3. QED
      BY <2>1, <2>2 DEF PersistJob
<1>5. /\ job.world = TRUE /\ job.worldSnap = world.clock /\ job.writeBans = FALSE
      /\ DOMAIN job.players = recs /\ \A k \in recs : job.players[k] = players[k]
    OBVIOUS
<1> HIDE DEF job
<1>6. /\ Has(job, "world") /\ Value(job, "world") = world.clock /\ "bans" \in F
      /\ \A k \in recs : Has(job, k) /\ Value(job, k) = players[k]
      /\ \A k \in Keys : players[k] = NoRec => k \in F
    BY <1>4, <1>5, JobHas, JobValue DEF AllFiles
<1>7. JobOK' /\ JobOK
  <2>0. JobOK
      BY <1>3, TypeParts DEF SimOK
  <2>1. jobLost' = jobLost
      BY <1>1 DEF simVars
  <2>2. QED
      BY <1>1, <1>2, <1>4, <2>0, <2>1, BoundsAssumption DEF JobOK, Full
<1>8. /\ SimOK' /\ RecsStay
      /\ UNCHANGED <<players, world, bannedKeys, clients, worldDirty, dirtyPlayers, jobLost>>
    BY <1>1, <1>3, <1>7, SimSame
<1>9. DiskOK' /\ WorkSame
    BY <1>1, <1>3, DiskSame DEF WorkSame
<1>10. Spares(F)
    BY <1>2, <1>7, <1>9, Pushed
<1> HIDE DEF F
<1>11. WorldKept'
  <2>1. PICK v : v = world.clock
      OBVIOUS
  <2>2. Saved("world", v)'
      BY <1>1, <1>2, <1>6, <1>7, <2>1, SavedPush DEF JobOK
  <2>3. QED
      BY <1>8, <2>1, <2>2 DEF WorldKept
<1>12. ASSUME NEW k \in Keys PROVE RecordKept(k)'
  <2>1. PICK v : v = players[k]
      OBVIOUS
  <2>2. CASE players[k] # NoRec
    <3>1. Saved(k, v)'
        BY <1>1, <1>2, <1>6, <1>7, <2>1, <2>2, SavedPush DEF JobOK
    <3>2. QED
        BY <1>8, <2>1, <3>1 DEF RecordKept
  <2>3. CASE players[k] = NoRec
    <3>1. Saved(k, v)
        BY <1>3, <2>1, <2>3, UnwrittenSaved DEF SaveInv, Unrecorded
    <3>2. Saved(k, v)'
        BY <1>6, <1>10, <2>3, <3>1 DEF Spares
    <3>3. QED
        BY <1>8, <2>1, <3>2 DEF RecordKept
  <2>4. QED
      BY <2>2, <2>3
<1>13. SaveInv'
  <2>1. DirtyRecs' /\ Unrecorded'
      BY <1>3, <1>6, <1>8, <1>10 DEF SaveInv, DirtyRecs, Unrecorded, Spares
  <2>2. RestKept'
      BY <1>11, <1>12 DEF RestKept, KeyKept
  <2>3. BansKept => BansKept'
      BY <1>6, <1>8, <1>10, BansSpared
  <2>4. (~jobLost' => ~jobLost) /\ (~ioError' => ~ioError)
    <3>1. jobLost' = jobLost
        BY <1>8
    <3>2. ioError' = ioError
        BY <1>1
    <3>3. QED
        BY <3>1, <3>2
  <2>5. QED
      BY <1>3, <2>1, <2>2, <2>3, <2>4 DEF SaveInv
<1>14. FinalInv'
    BY <1>11, <1>12 DEF FinalInv
<1>15. MainOK' /\ PhaseInv'
    BY <1>1, <1>3 DEF MainOK, PhaseInv, Phases
<1>16. QED
    BY <1>8, <1>9, <1>13, <1>14, <1>15 DEF StoreIInv, SimOK, DiskOK

(* What was kept is kept by a step that spares every file and leaves the   *)
(* session alone.                                                          *)
LEMMA KeptSame ==
    ASSUME Spares(AllFiles),
           UNCHANGED <<players, world, bannedKeys, clients, worldDirty, dirtyPlayers, jobLost>>
    PROVE  /\ RestKept => RestKept'
           /\ BansKept => BansKept'
           /\ WorldKept => WorldKept'
           /\ \A k \in Keys : RecordKept(k) => RecordKept(k)'
<1>1. BansKept => BansKept'
    BY BansSpared DEF AllFiles
<1>2. WorldKept => WorldKept'
    BY DEF WorldKept, Spares, AllFiles
<1>3. \A k \in Keys : RecordKept(k) => RecordKept(k)'
    BY DEF RecordKept, Spares, AllFiles
<1>4. worldDirty \/ WorldKept => worldDirty' \/ WorldKept'
  <2>1. worldDirty' = worldDirty
      OBVIOUS
  <2>2. QED
      BY <1>2, <2>1
<1>5. ASSUME NEW k \in Keys, KeyKept(k) PROVE KeyKept(k)'
  <2>1. CASE k \in dirtyPlayers
      BY <2>1 DEF KeyKept
  <2>2. CASE RecordKept(k)
      BY <1>3, <2>2 DEF KeyKept
  <2>3. CASE players[k] = Worker!Blank /\ Unwritten(k) /\ k \in LiveKeys
    <3>1. Unwritten(k)' /\ LiveKeys' = LiveKeys
        BY <2>3, SameLive DEF Spares, AllFiles
    <3>2. QED
        BY <2>3, <3>1 DEF KeyKept, Worker!Blank
  <2>4. QED
      BY <1>5, <2>1, <2>2, <2>3 DEF KeyKept
<1>6. QED
    BY <1>1, <1>2, <1>3, <1>4, <1>5 DEF RestKept

LEMMA StopWorkerInv == ASSUME StoreIInv, StopWorker PROVE StoreIInv'
<1> DEFINE job == [world |-> FALSE, worldSnap |-> NoData, players |-> <<>>,
                   writeBans |-> FALSE, banKeys |-> {}]
<1>1. /\ phase = "stop" /\ phase' = "join" /\ worker' = "stopping"
      /\ UNCHANGED <<inbound, outbound, nextConn, simVars, starts>>
      /\ UNCHANGED <<disk, cur, left, open, ioError>>
    BY DEF StopWorker
<1>2. jobs' = Push(jobs, JobCap, job)
    BY DEF StopWorker
<1>3. SimOK /\ DiskOK /\ MainOK /\ SaveInv /\ FinalInv /\ JobOK
    BY TypeParts DEF StoreIInv, SimOK, DiskOK
<1>4. job \in PersistJob
  <2>1. <<>> \in [{} -> PlayerRec]
      OBVIOUS
  <2>2. QED
      BY <2>1 DEF PersistJob, Clocks
<1>5. job.world = FALSE /\ job.writeBans = FALSE /\ DOMAIN job.players = {}
    OBVIOUS
<1>6. \A f \in AllFiles : ~Has(job, f)
    BY <1>4, <1>5, JobHas DEF AllFiles
<1> HIDE DEF job
<1>7. JobOK'
  <2>1. jobLost' = jobLost
      BY <1>1 DEF simVars
  <2>2. QED
      BY <1>2, <1>3, <1>4, <2>1, BoundsAssumption, PushType DEF JobOK
<1>8. /\ SimOK' /\ RecsStay
      /\ UNCHANGED <<players, world, bannedKeys, clients, worldDirty, dirtyPlayers, jobLost>>
    BY <1>1, <1>3, <1>7, SimSame
<1>9. DiskOK' /\ WorkSame
    BY <1>1, <1>3, DiskSame DEF WorkSame
<1>10. Spares(AllFiles)
    BY <1>2, <1>3, <1>6, <1>9, Offer, NothingPushed, Pushed
<1>11. (~jobLost' => ~jobLost) /\ (~ioError' => ~ioError)
  <2>1. jobLost' = jobLost
      BY <1>8
  <2>2. ioError' = ioError
      BY <1>1
  <2>3. QED
      BY <2>1, <2>2
<1>12. SaveInv'
  <2>1. DirtyRecs' /\ Unrecorded'
      BY <1>3, <1>8, <1>10 DEF SaveInv, DirtyRecs, Unrecorded, Spares, AllFiles
  <2>2. QED
      BY <1>3, <1>8, <1>10, <1>11, <2>1, KeptSame DEF SaveInv
<1>13. FinalInv'
    BY <1>1, <1>3, <1>8, <1>10, <1>11, KeptSame DEF FinalInv
<1>14. MainOK' /\ PhaseInv'
    BY <1>1, <1>3 DEF MainOK, PhaseInv, Phases
<1>15. QED
    BY <1>8, <1>9, <1>12, <1>13, <1>14 DEF StoreIInv, SimOK, DiskOK

LEMMA WorkerStepInv == ASSUME StoreIInv, WorkerStep PROVE StoreIInv'
<1>1. Worker!WorkerStep /\ UNCHANGED <<inbound, outbound, nextConn, simVars, phase, starts>>
    BY DEF WorkerStep
<1>2. SimOK /\ DiskOK /\ MainOK /\ SaveInv /\ FinalInv /\ PhaseInv /\ JobOK
    BY TypeParts DEF StoreIInv, SimOK, DiskOK
<1>3. Keeps
    BY <1>1, <1>2, WorkerKeeps DEF DiskOK
<1>4. DiskOK'
    BY <1>3 DEF Keeps, DiskOK
<1>5. jobs' = jobs \/ (jobs # <<>> /\ jobs' = Tail(jobs))
    BY <1>1 DEF Worker!WorkerStep, Worker!TakeJob, Worker!Write, Worker!JobDone,
                Worker!WorkerEnds, Worker!Truncate, Worker!OpenFails
<1>6. JobOK'
  <2>1. jobLost' = jobLost
      BY <1>1 DEF simVars
  <2>2. QED
      BY <1>2, <1>5, <2>1, TailType, BoundsAssumption DEF JobOK
<1>7. /\ SimOK' /\ RecsStay
      /\ UNCHANGED <<players, world, bannedKeys, clients, worldDirty, dirtyPlayers, jobLost>>
    BY <1>1, <1>2, <1>6, SimSame
<1>8. ioError' \in BOOLEAN /\ (~ioError' => ~ioError)
  <2>1. ioError' = ioError \/ ioError' = TRUE
      BY <1>1 DEF Worker!WorkerStep, Worker!TakeJob, Worker!Write, Worker!JobDone,
                  Worker!WorkerEnds, Worker!Truncate, Worker!OpenFails
  <2>2. QED
      BY <1>2, <2>1 DEF MainOK
<1>9. ASSUME ~ioError' PROVE Spares(AllFiles)
    BY <1>3, <1>9 DEF Keeps, Spares, AllFiles
<1>10. DirtyRecs' /\ Unrecorded'
    BY <1>2, <1>3, <1>7 DEF SaveInv, DirtyRecs, Unrecorded, Keeps
<1>11. ~jobLost' => ~jobLost
  <2>1. jobLost' = jobLost
      BY <1>7
  <2>2. QED
      BY <2>1
<1>12. SaveInv'
    BY <1>2, <1>7, <1>8, <1>9, <1>10, <1>11, KeptSame DEF SaveInv
<1>13. FinalInv'
    BY <1>1, <1>2, <1>7, <1>8, <1>9, KeptSame DEF FinalInv
<1>14. MainOK' /\ PhaseInv'
  <2>1. CASE Worker!WorkerEnds
    <3>1. /\ worker = "stopping" /\ worker' = "ended" /\ cur' = {} /\ jobs' = <<>>
        BY <2>1 DEF Worker!WorkerEnds
    <3>2. QED
        BY <1>1, <1>2, <1>8, <3>1 DEF MainOK, PhaseInv
  <2>2. CASE ~Worker!WorkerEnds
    <3>1. worker' = worker /\ (worker = "ended" => cur # {} \/ jobs # <<>>)
      <4>1. CASE Worker!TakeJob
          BY <4>1 DEF Worker!TakeJob
      <4>2. CASE Worker!Write
          BY <4>2 DEF Worker!Write
      <4>3. CASE Worker!JobDone
          BY <4>3 DEF Worker!JobDone
      <4>4. ASSUME NEW f, Worker!Truncate(f) \/ Worker!OpenFails(f)
            PROVE  worker' = worker /\ cur # {}
        <5>1. worker' = worker /\ f \in left
            BY <4>4 DEF Worker!Truncate, Worker!OpenFails, Worker!Turn
        <5>2. QED
            BY <1>2, <5>1 DEF DiskOK, WorkOK
      <4>5. QED
          BY <1>1, <2>2, <4>1, <4>2, <4>3, <4>4 DEF Worker!WorkerStep
    <3>2. QED
        BY <1>1, <1>2, <1>8, <3>1 DEF MainOK, PhaseInv
  <2>3. QED
      BY <2>1, <2>2
<1>15. QED
    BY <1>4, <1>7, <1>12, <1>13, <1>14 DEF StoreIInv, SimOK, DiskOK

-----------------------------------------------------------------------------
(* A start of the server, on any folder *)

Fresh ==
    /\ inbound = <<>> /\ outbound = <<>> /\ jobs = <<>> /\ nextConn = 1
    /\ clients = <<>> /\ pendingTcp = {} /\ udpPeerByAddr = <<>>
    /\ hostPeerId = 0 /\ hostLocation = Commonwealth
    /\ \E b \in BOOLEAN : world = [created |-> b, clock |-> Loaded("world")]
    /\ players = [k \in Keys |-> Loaded(k)]
    /\ bannedKeys = Loaded("bans")
    /\ cfg \in Configs /\ sessionModHash = cfg.modHash
    /\ nextPeer = 1 /\ nextToken = 1
    /\ worldDirty = FALSE /\ dirtyPlayers = {}
    /\ outLost = FALSE /\ jobLost = FALSE
    /\ cur = {} /\ left = {} /\ open = {}
    /\ worker = "running" /\ ioError = FALSE
    /\ phase = "loop" /\ starts \in 1..MaxStarts

(* The types of what is loaded; only a missing file gives no record. *)
LEMMA LoadedType ==
    ASSUME FolderOK
    PROVE  /\ Loaded("world") \in Clocks /\ Loaded("bans") \in SUBSET Keys
           /\ \A k \in Keys : /\ Loaded(k) \in PlayerRec \cup {NoRec}
                              /\ Loaded(k) = NoRec => disk.players[k] = Absent
<1>1. /\ disk.world \in Clocks \cup {Torn, Absent}
      /\ disk.bans \in (SUBSET Keys) \cup {Torn, Absent}
      /\ disk.players \in [Keys -> PlayerRec \cup {Torn, Absent}]
    BY SameTypes DEF FolderOK, Worker!Folder
<1>2. Loaded("world") \in Clocks
    BY <1>1, LoadedIs DEF Clocks
<1>3. Loaded("bans") \in SUBSET Keys
    BY <1>1, LoadedIs
<1>4. ASSUME NEW k \in Keys
      PROVE  /\ Loaded(k) \in PlayerRec \cup {NoRec}
             /\ Loaded(k) = NoRec => disk.players[k] = Absent
  <2>1. disk.players[k] \in PlayerRec \cup {Torn, Absent}
      BY <1>1
  <2>2. QED
      BY <2>1, LoadedIs, BlankIs, ValueAssumption
<1>5. QED
    BY <1>2, <1>3, <1>4

LEMMA FreshType == FolderOK /\ Fresh => TypeOK /\ LiveRecords /\ PeersFresh
<1> SUFFICES ASSUME FolderOK, Fresh PROVE TypeOK /\ LiveRecords /\ PeersFresh
    OBVIOUS
<1> USE BoundsAssumption
<1>1. InOK /\ OutOK /\ JobOK /\ ConnOK /\ DirtyOK
  <2>0. /\ inbound = <<>> /\ outbound = <<>> /\ jobs = <<>>
        /\ outLost \in BOOLEAN /\ jobLost \in BOOLEAN
      BY DEF Fresh
  <2>1. InOK
      BY <2>0 DEF InOK
  <2>2. OutOK
      BY <2>0 DEF OutOK
  <2>3. JobOK
      BY <2>0 DEF JobOK
  <2>4. nextConn = 1 /\ worldDirty \in BOOLEAN /\ dirtyPlayers = {}
      BY DEF Fresh
  <2>5. ConnOK
      BY <2>4 DEF ConnOK
  <2>6. DirtyOK
      BY <2>4 DEF DirtyOK
  <2>7. QED
      BY <2>1, <2>2, <2>3, <2>5, <2>6
<1>2. ClientOK /\ UdpOK
  <2>1. clients \in [{} -> Client] /\ udpPeerByAddr \in [{} -> PeerIds]
      BY DEF Fresh
  <2>2. QED
      BY <2>1 DEF ClientOK, UdpOK
<1>3. PendOK /\ HostOK /\ LocOK /\ PeerOK /\ TokenOK
  <2>1. /\ pendingTcp = {} /\ hostPeerId = 0 /\ hostLocation = Commonwealth
        /\ nextPeer = 1 /\ nextToken = 1
      BY DEF Fresh
  <2>2. QED
      BY <2>1, ValueAssumption DEF PendOK, HostOK, LocOK, PeerOK, TokenOK, Tokens
<1>4. WorldOK /\ PlayerOK
  <2>1. PICK b \in BOOLEAN : world = [created |-> b, clock |-> Loaded("world")]
      BY DEF Fresh
  <2>2. players = [k \in Keys |-> Loaded(k)]
      BY DEF Fresh
  <2>3. QED
      BY <2>1, <2>2, LoadedType DEF WorldOK, PlayerOK
<1>5. AdminOK /\ LockOK
  <2>1. bannedKeys = Loaded("bans") /\ cfg \in Configs /\ sessionModHash = cfg.modHash
      BY DEF Fresh
  <2>2. QED
      BY <2>1, LoadedType, MessageAssumption DEF AdminOK, LockOK, Config
<1>6. LiveRecords /\ PeersFresh
  <2>1. clients = <<>>
      BY DEF Fresh
  <2>2. DOMAIN clients = {}
      BY <2>1
  <2>3. QED
      BY <2>2 DEF LiveRecords, PeersFresh
<1>7. QED
    BY <1>1, <1>2, <1>3, <1>4, <1>5, <1>6, TypeParts

LEMMA FreshInv == FolderOK /\ Fresh => StoreIInv
<1> SUFFICES ASSUME FolderOK, Fresh PROVE StoreIInv
    OBVIOUS
<1>1. /\ jobs = <<>> /\ left = {} /\ open = {} /\ cur = {} /\ dirtyPlayers = {}
      /\ worker = "running" /\ phase = "loop" /\ starts \in 1..MaxStarts
      /\ \A k \in Keys : players[k] = Loaded(k)
      /\ world.clock = Loaded("world") /\ bannedKeys = Loaded("bans")
    BY DEF Fresh
<1>2. DOMAIN jobs = {}
    BY <1>1
<1>3. ASSUME NEW f PROVE ~Queued(f) /\ Saved(f, Loaded(f))
    BY <1>1, <1>2 DEF Queued, Saved
<1>4. DirtyRecs
    BY <1>1 DEF DirtyRecs
<1>5. Unrecorded
    BY <1>1, <1>3, LoadedType DEF Unrecorded, Unwritten
<1>6. WorldKept /\ BansKept /\ \A k \in Keys : RecordKept(k)
    BY <1>1, <1>3 DEF WorldKept, BansKept, RecordKept
<1>7. SaveInv
    BY <1>4, <1>5, <1>6 DEF SaveInv, RestKept, KeyKept
<1>8. WorkOK /\ FinalInv /\ PhaseInv
    BY <1>1 DEF WorkOK, FinalInv, PhaseInv
<1>9. MainOK
  <2>1. ioError \in BOOLEAN
      BY DEF Fresh
  <2>2. QED
      BY <1>1, <2>1 DEF MainOK, Phases
<1>10. QED
    BY <1>7, <1>8, <1>9, FreshType DEF StoreIInv

LEMMA FreshNext == FolderOK' /\ Fresh' => StoreIInv'
    BY FreshInv, PTL

LEMMA StartInv == ASSUME StoreIInv, Start PROVE StoreIInv'
<1>1. FolderOK /\ disk' = disk /\ FolderOK'
    BY DEF StoreIInv, Start, FolderOK, Worker!Folder
<1>2. /\ Loaded("world")' = Worker!LoadClock(disk) /\ Loaded("bans")' = Worker!LoadBans(disk)
      /\ \A k \in Keys : Loaded(k)' = Worker!LoadPlayer(disk, k)
    BY <1>1, KeyNames, LoadedSame DEF Loaded
<1>3. starts' \in 1..MaxStarts
    BY StartsAssumption DEF StoreIInv, MainOK, Start
<1>4. \E b \in BOOLEAN : world' = [created |-> b, clock |-> Loaded("world")']
  <2>1. world' = [created |-> disk.world # Absent, clock |-> Worker!LoadClock(disk)]
      BY DEF Start
  <2>2. (disk.world # Absent) \in BOOLEAN
      OBVIOUS
  <2>3. QED
      BY <1>2, <2>1, <2>2, Zenon
<1>5. players' = [k \in Keys |-> Loaded(k)'] /\ bannedKeys' = Loaded("bans")'
    BY <1>2 DEF Start
<1>6. Fresh'
  <2>1. /\ inbound' = <<>> /\ outbound' = <<>> /\ jobs' = <<>> /\ nextConn' = 1
        /\ clients' = <<>> /\ pendingTcp' = {} /\ udpPeerByAddr' = <<>>
        /\ hostPeerId' = 0 /\ hostLocation' = Commonwealth
        /\ cfg' \in Configs /\ sessionModHash' = cfg'.modHash
        /\ nextPeer' = 1 /\ nextToken' = 1
        /\ cur' = {} /\ left' = {} /\ open' = {}
        /\ worker' = "running" /\ phase' = "loop" /\ dirtyPlayers' = {}
      BY DEF Start
  <2>2. worldDirty' = FALSE /\ outLost' = FALSE /\ jobLost' = FALSE /\ ioError' = FALSE
      BY DEF Start
  <2>3. QED
      BY <1>3, <1>4, <1>5, <2>1, <2>2, Zenon DEF Fresh
<1>7. QED
    BY <1>1, <1>6, FreshNext

LEMMA StoreInitInv == StoreInit => StoreIInv
<1> SUFFICES ASSUME StoreInit PROVE StoreIInv
    OBVIOUS
<1>1. disk = [world |-> Absent, bans |-> Absent, players |-> [k \in Keys |-> Absent]]
    BY DEF StoreInit, Worker!WorkerInit
<1>2. FolderOK
    BY <1>1 DEF FolderOK, Worker!Folder
<1>3. /\ Loaded("world") = NoData /\ Loaded("bans") = {}
      /\ \A k \in Keys : Loaded(k) = NoRec
    BY <1>1, LoadedIs
<1>4. starts \in 1..MaxStarts
    BY StartsAssumption DEF StoreInit
<1>5. \E b \in BOOLEAN : world = [created |-> b, clock |-> Loaded("world")]
    BY <1>3 DEF StoreInit, Init
<1>6. players = [k \in Keys |-> Loaded(k)] /\ bannedKeys = Loaded("bans")
    BY <1>3 DEF StoreInit, Init
<1>7. Fresh
    BY <1>4, <1>5, <1>6 DEF Fresh, StoreInit, Init, Worker!WorkerInit
<1>8. QED
    BY <1>2, <1>7, FreshInv

LEMMA StoreStep == StoreIInv /\ [StoreNext]_storeVars => StoreIInv'
    BY MainStepInv, PhaseStep, LastFlushInv, FinalJobInv, StopWorkerInv, WorkerStepInv,
       StartInv DEF StoreNext

-----------------------------------------------------------------------------
(* What the invariant says of the folder *)

(* With nothing queued or in hand, what was on its way has arrived. *)
LEMMA Arrived ==
    ASSUME WorkOK, jobs = <<>>, cur = {}, NEW f, NEW v, Saved(f, v) PROVE Loaded(f) = v
<1>1. left = {} /\ open = {}
    BY DEF WorkOK
<1>2. DOMAIN jobs = {}
    OBVIOUS
<1>3. QED
    BY <1>1, <1>2 DEF Saved

LEMMA LoadedNames ==
    /\ Loaded("world") = Worker!LoadClock(disk) /\ Loaded("bans") = Worker!LoadBans(disk)
    /\ \A k \in Keys : Loaded(k) = Worker!LoadPlayer(disk, k)
    BY KeyNames DEF Loaded

LEMMA StoreTypes == StoreIInv => StoreTypeOK
<1> SUFFICES ASSUME StoreIInv PROVE StoreTypeOK
    OBVIOUS
<1>1. TypeOK /\ FolderOK /\ WorkOK /\ MainOK
    BY DEF StoreIInv
<1>2. cur \in SUBSET PersistJob /\ (cur = {} \/ \E job : cur = {job})
    BY <1>1 DEF WorkOK
<1>3. left \in SUBSET AllFiles /\ open \in SUBSET AllFiles /\ (open = {} \/ \E f : open = {f})
    BY <1>1 DEF WorkOK
<1>4. ASSUME NEW S, S = {} \/ \E x : S = {x} PROVE Worker!Cardinality(S) =< 1
    BY <1>4, SameCount, FS_EmptySet, FS_Singleton
<1>5. Worker!WorkerTypeOK
    BY <1>1, <1>2, <1>3, <1>4, SameTypes
       DEF Worker!WorkerTypeOK, Worker!Files, AllFiles, FolderOK, MainOK
<1>6. QED
    BY <1>1, <1>5 DEF StoreTypeOK, MainOK

LEMMA CaughtUp == StoreIInv => StoreCaughtUp
<1> SUFFICES ASSUME StoreIInv, Idle, ~jobLost, ~ioError PROVE RecordsOnDisk
    BY DEF StoreCaughtUp
<1>1. WorkOK /\ RestKept /\ jobs = <<>> /\ cur = {} /\ ~worldDirty /\ dirtyPlayers = {}
    BY DEF StoreIInv, SaveInv, Idle
<1>2. Worker!LoadClock(disk) = world.clock
    BY <1>1, Arrived, LoadedNames DEF RestKept, WorldKept
<1>3. ASSUME NEW k \in Keys PROVE Worker!LoadPlayer(disk, k) = players[k] \/ JustJoined(k)
  <2>1. CASE RecordKept(k)
      BY <1>1, <2>1, Arrived, LoadedNames DEF RecordKept
  <2>2. CASE players[k] = Worker!Blank /\ Unwritten(k) /\ k \in LiveKeys
    <3>1. Worker!LoadPlayer(disk, k) = NoRec
        BY <1>1, <2>2, UnwrittenSaved, Arrived, LoadedNames
    <3>2. QED
        BY <2>2, <3>1 DEF JustJoined, LiveKeys
  <2>3. QED
      BY <1>1, <2>1, <2>2 DEF RestKept, KeyKept
<1>4. QED
    BY <1>2, <1>3 DEF RecordsOnDisk

LEMMA BansArrived == HasPersist /\ StoreIInv => BansOnDisk
<1> SUFFICES ASSUME HasPersist, StoreIInv, jobs = <<>>, cur = {}, ~jobLost, ~ioError
             PROVE  Worker!LoadBans(disk) = bannedKeys
    BY DEF BansOnDisk
<1>1. WorkOK /\ BansKept
    BY DEF StoreIInv, SaveInv
<1>2. QED
    BY <1>1, Arrived, LoadedNames DEF BansKept

LEMMA AllArrived == StoreIInv => ShutdownSaves
<1> SUFFICES ASSUME StoreIInv, phase = "done", ~ioError
             PROVE  /\ Worker!LoadClock(disk) = world.clock
                    /\ \A k \in Keys : Worker!LoadPlayer(disk, k) = players[k]
    BY DEF ShutdownSaves
<1>1. WorkOK /\ jobs = <<>> /\ cur = {} /\ WorldKept /\ \A k \in Keys : RecordKept(k)
    BY DEF StoreIInv, PhaseInv, FinalInv
<1>2. QED
    BY <1>1, Arrived, LoadedNames DEF WorldKept, RecordKept

LEMMA StoreAlways == StoreSpec => []StoreIInv
    BY StoreInitInv, StoreStep, PTL DEF StoreSpec

-----------------------------------------------------------------------------
(* The theorems *)

(* Every handler marks what it changes, flush_dirty_async snapshots what   *)
(* is marked and PersistWorker::run writes the snapshots in order: once    *)
(* nothing is marked, queued or in hand, a restart finds the session that  *)
(* is in memory, through any number of crashes and starts, unless the      *)
(* queue refused a job or a file did not open.                             *)
THEOREM StoreSafe == StoreSpec => []StoreInv
    BY StoreAlways, StoreTypes, CaughtUp, PTL DEF StoreInv

(* persist_bans queues the whole list at every ban and pardon and no other *)
(* job writes bans.json: with the queue empty the file is the list, if the *)
(* runtime has a worker, which main() gives it.                            *)
THEOREM StoreBans == ASSUME HasPersist PROVE StoreSpec => []BansOnDisk
<1>1. StoreIInv => BansOnDisk
    BY BansArrived
<1>2. QED
    BY <1>1, StoreAlways, PTL

(* main() waits for room for finalJob and for the worker to drain its      *)
(* queue: after a clean stop the folder holds the clock and every record,  *)
(* even those whose jobs a full queue had refused.                         *)
THEOREM StoreShutdown == StoreSpec => []ShutdownSaves
    BY StoreAlways, AllArrived, PTL
=============================================================================
