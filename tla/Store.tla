------------------------------- MODULE Store -------------------------------
(***************************************************************************)
(* What survives the server: the simulation thread (Sim), the persist      *)
(* worker (PersistWorker), the end of main() and a new start of the        *)
(* process, after a clean stop or after a crash at any moment.             *)
(***************************************************************************)
EXTENDS Sim

CONSTANTS Torn, Absent,
    MaxStarts \* bound: how often the server is started

ASSUME StartsAssumption == MaxStarts \in Nat \ {0}

VARIABLES disk, cur, left, open, worker, ioError,
    phase,   \* where main() is
    starts   \* how often the server has been started

Worker == INSTANCE PersistWorker

(* The players' files have a folder of their own, and neither an empty nor *)
(* a missing file reads as one that has been written.                      *)
ASSUME FilesAssumption ==
    /\ {"world", "bans"} \cap Keys = {}
    /\ Torn # Absent
    /\ \A x \in Clocks \cup PlayerRec \cup SUBSET Keys : x \notin {Torn, Absent}

diskVars  == <<disk, cur, left, open, worker, ioError>>
storeVars == <<vars, diskVars, phase, starts>>

Phases == {"loop", "drain", "final", "stop", "join", "done"}

StoreTypeOK ==
    /\ TypeOK /\ Worker!WorkerTypeOK
    /\ phase \in Phases
    /\ starts \in 1..MaxStarts

StoreInit ==
    /\ Init /\ Worker!WorkerInit
    /\ phase = "loop" /\ starts = 1

-----------------------------------------------------------------------------
(* The main loop; once it has ended inbound is drained and nothing else. *)
MainStep ==
    /\ \/ phase \in {"loop", "drain"} /\ HandleEvent
       \/ phase = "loop" /\ (LoopTail \/ Admin \/ NetThread)
    /\ UNCHANGED <<diskVars, phase, starts>>

(* quit, a signal or a closed console: the loop ends and netIo.stop joins  *)
(* the net thread.                                                         *)
Quit ==
    /\ phase = "loop"
    /\ phase' = "drain"
    /\ UNCHANGED <<vars, diskVars, starts>>

(* Everything live is marked and flushed. *)
LastFlush ==
    /\ phase = "drain" /\ inbound = <<>>
    /\ FlushDirty(TRUE, dirtyPlayers
                          \cup {clients[p].key : p \in DOMAIN clients})
    /\ phase' = "final"
    /\ UNCHANGED <<inbound, outVars, nextConn, memberVars, hostLocation, idVars,
                   adminVars, recordVars, sessionModHash, diskVars, starts>>

(* finalJob, enqueue_blocking: the world and every record, not the bans. *)
FinalJob ==
    LET recs == {k \in Keys : players[k] # NoRec}
    IN  /\ phase = "final" /\ ~Full(jobs, JobCap)
        /\ jobs' = Append(jobs,
                     [world |-> TRUE, worldSnap |-> world.clock,
                      players |-> [k \in recs |-> players[k]],
                      writeBans |-> FALSE, banKeys |-> {}])
        /\ phase' = "stop"
        /\ UNCHANGED <<inbound, outbound, nextConn, simVars, diskVars, starts>>

(* persistWorker.stop: running_ is cleared and an empty job wakes the      *)
(* worker, which is then joined.                                           *)
StopWorker ==
    /\ phase = "stop"
    /\ worker' = "stopping"
    /\ jobs' = Push(jobs, JobCap,
                    [world |-> FALSE, worldSnap |-> NoData, players |-> <<>>,
                     writeBans |-> FALSE, banKeys |-> {}])
    /\ phase' = "join"
    /\ UNCHANGED <<inbound, outbound, nextConn, simVars, disk, cur, left, open,
                   ioError, starts>>

JoinWorker ==
    /\ phase = "join" /\ worker = "ended"
    /\ phase' = "done"
    /\ UNCHANGED <<vars, diskVars, starts>>

WorkerStep ==
    /\ Worker!WorkerStep
    /\ UNCHANGED <<inbound, outbound, nextConn, simVars, phase, starts>>

(* The process has ended, cleanly or not, and is started again: main()     *)
(* loads the session folder.  An empty world.json still means that the     *)
(* world was created.                                                      *)
Start ==
    /\ starts < MaxStarts                                \* bound: MaxStarts
    /\ starts' = starts + 1
    /\ phase' = "loop"
    /\ inbound' = <<>> /\ outbound' = <<>> /\ jobs' = <<>> /\ nextConn' = 1
    /\ clients' = <<>> /\ pendingTcp' = {} /\ udpPeerByAddr' = <<>>
    /\ hostPeerId' = 0 /\ hostLocation' = Commonwealth
    /\ world' = [created |-> disk.world # Absent,
                 clock |-> Worker!LoadClock(disk)]
    /\ players' = [k \in Keys |-> Worker!LoadPlayer(disk, k)]
    /\ bannedKeys' = Worker!LoadBans(disk)
    /\ cfg' \in Configs /\ sessionModHash' = cfg'.modHash
    /\ nextPeer' = 1 /\ nextToken' = 1
    /\ worldDirty' = FALSE /\ dirtyPlayers' = {}
    /\ outLost' = FALSE /\ jobLost' = FALSE
    /\ cur' = {} /\ left' = {} /\ open' = {}
    /\ worker' = "running" /\ ioError' = FALSE
    /\ UNCHANGED disk

Ended == phase = "done" /\ UNCHANGED storeVars

StoreNext ==
    \/ MainStep \/ Quit \/ LastFlush \/ FinalJob \/ StopWorker \/ JoinWorker
    \/ WorkerStep \/ Start \/ Ended

StoreSpec == StoreInit /\ [][StoreNext]_storeVars

(* The worker's thread runs, and main() gets on with a shutdown it began. *)
FairStoreSpec ==
    /\ StoreSpec
    /\ WF_storeVars(WorkerStep)
    /\ WF_storeVars(\/ phase = "drain" /\ MainStep
                    \/ LastFlush \/ FinalJob \/ StopWorker \/ JoinWorker)

-----------------------------------------------------------------------------
(* Nothing is marked, queued or being written. *)
Idle == jobs = <<>> /\ cur = {} /\ ~worldDirty /\ dirtyPlayers = {}

(* A record that a Hello has just made is not marked: it reaches the disk  *)
(* when the player's first pose or look does, or when he leaves.           *)
JustJoined(k) ==
    /\ players[k] = Worker!Blank /\ Worker!LoadPlayer(disk, k) = NoRec
    /\ \E p \in DOMAIN clients : clients[p].key = k

RecordsOnDisk ==
    /\ Worker!LoadClock(disk) = world.clock
    /\ \A k \in Keys : Worker!LoadPlayer(disk, k) = players[k] \/ JustJoined(k)

(* Every handler marks what it changes and the worker writes the snapshots *)
(* in order: once nothing is left to do, a restart would find the session  *)
(* as it is in memory, provided no full queue refused a job and no file    *)
(* failed to open.                                                         *)
StoreCaughtUp == (Idle /\ ~jobLost /\ ~ioError) => RecordsOnDisk

(* The session, the jobs and the files: their types (a file may be torn by *)
(* a crash, and is still loaded), and nothing forgotten once idle.         *)
StoreInv == StoreTypeOK /\ StoreCaughtUp

(* The bans, whose jobs are written by the same worker. *)
BansOnDisk ==
    (jobs = <<>> /\ cur = {} /\ ~jobLost /\ ~ioError)
      => Worker!LoadBans(disk) = bannedKeys

(* A clean stop saves the world and every record, even those whose jobs a  *)
(* full queue refused before: main() waits for the final job to fit and    *)
(* for the worker to drain the queue.                                      *)
ShutdownSaves ==
    (phase = "done" /\ ~ioError) =>
      /\ Worker!LoadClock(disk) = world.clock
      /\ \A k \in Keys : Worker!LoadPlayer(disk, k) = players[k]

(* A shutdown that has begun ends, however full the queue is, unless the   *)
(* process dies first.                                                     *)
ShutdownEnds == phase = "drain" ~> phase \in {"done", "loop"}
=============================================================================
