--------------------------- MODULE PersistWorker ---------------------------
(***************************************************************************)
(* The persist worker (server/src/persist_worker.cpp) and the session      *)
(* folder it writes (session_persist.cpp): world.json, bans.json and one   *)
(* file per player.  A file is opened with trunc and then written, two     *)
(* steps: a process that dies between them leaves it empty.                *)
(***************************************************************************)
EXTENDS ServerTypes

CONSTANTS
    Torn,   \* an empty file, truncated and not written
    Absent  \* no such file

VARIABLES
    jobs,    \* PersistWorker::queue_
    disk,    \* the session folder
    cur,     \* the jobs taken and not finished: none or one
    left,    \* the files of cur still to write
    open,    \* the file open for writing: none or one
    worker,  \* "running", "stopping" after stop(), "ended"
    ioError  \* history: a file could not be opened


Files  == {"world", "bans"} \cup Keys
Folder == [world : Clocks \cup {Torn, Absent},
           bans : (SUBSET Keys) \cup {Torn, Absent},
           players : [Keys -> PlayerRec \cup {Torn, Absent}]]

WorkerTypeOK ==
    /\ disk \in Folder
    /\ cur \in SUBSET PersistJob /\ Cardinality(cur) =< 1
    /\ left \in SUBSET Files
    /\ open \in SUBSET Files /\ Cardinality(open) =< 1
    /\ worker \in {"running", "stopping", "ended"}
    /\ ioError \in BOOLEAN

WorkerInit ==
    /\ disk = [world |-> Absent, bans |-> Absent,
               players |-> [k \in Keys |-> Absent]]
    /\ cur = {} /\ left = {} /\ open = {}
    /\ worker = "running" /\ ioError = FALSE

-----------------------------------------------------------------------------
(* What load_world and load_bans make of the folder. *)
Blank == [havePose |-> FALSE, data |-> NoData]

LoadClock(d)     == IF d.world \in {Torn, Absent} THEN NoData ELSE d.world
LoadPlayer(d, k) == CASE d.players[k] = Absent -> NoRec
                      [] d.players[k] = Torn -> Blank
                      [] OTHER -> d.players[k]
LoadBans(d)      == IF d.bans \in {Torn, Absent} THEN {} ELSE d.bans

-----------------------------------------------------------------------------
(* Mutant: a job with the world writes nothing else. *)
FilesOfWorldOnly(job) ==
    IF job.world THEN {"world"}
    ELSE DOMAIN job.players \cup {f \in {"bans"} : job.writeBans}

FilesOf(job) ==
    {f \in {"world"} : job.world} \cup DOMAIN job.players
      \cup {f \in {"bans"} : job.writeBans}

Store(d, f, v) ==
    CASE f = "world" -> [d EXCEPT !.world = v]
      [] f = "bans"  -> [d EXCEPT !.bans = v]
      [] OTHER       -> [d EXCEPT !.players[f] = v]

Contents(job, f) ==
    CASE f = "world" -> job.worldSnap
      [] f = "bans"  -> job.banKeys
      [] OTHER       -> job.players[f]

(* wait_pop, and after stop() the draining loop.  The empty job that wakes *)
(* the worker has no files.                                                *)
TakeJob ==
    /\ worker # "ended" /\ cur = {} /\ jobs # <<>>
    /\ jobs' = Tail(jobs)
    /\ cur' = {Head(jobs)} /\ left' = FilesOf(Head(jobs))
    /\ UNCHANGED <<disk, open, worker, ioError>>

(* The world is written first, then the players, then the bans. *)
Turn(f) ==
    /\ f \in left
    /\ f # "world" => "world" \notin left
    /\ f = "bans" => left = {"bans"}

Truncate(f) ==
    /\ open = {} /\ Turn(f)
    /\ open' = {f} /\ left' = left \ {f}
    /\ disk' = Store(disk, f, Torn)
    /\ UNCHANGED <<jobs, cur, worker, ioError>>

OpenFails(f) ==
    /\ open = {} /\ Turn(f)
    /\ left' = left \ {f}
    /\ ioError' = TRUE
    /\ UNCHANGED <<jobs, disk, cur, open, worker>>

Write ==
    /\ \E f \in open, job \in cur : disk' = Store(disk, f, Contents(job, f))
    /\ open' = {}
    /\ UNCHANGED <<jobs, cur, left, worker, ioError>>

(* Mutant: a job with a file that cannot be opened is tried again. *)
JobDoneRetries ==
    /\ cur # {} /\ left = {} /\ open = {}
    /\ \E job \in cur : left' = IF ioError THEN FilesOf(job) ELSE {}
    /\ cur' = IF ioError THEN cur ELSE {}
    /\ UNCHANGED <<jobs, disk, open, worker, ioError>>

JobDone ==
    /\ cur # {} /\ left = {} /\ open = {}
    /\ cur' = {}
    /\ UNCHANGED <<jobs, disk, left, open, worker, ioError>>

(* Mutant: the queue is not drained. *)
WorkerEndsAtOnce ==
    /\ worker = "stopping" /\ cur = {}
    /\ worker' = "ended"
    /\ UNCHANGED <<jobs, disk, cur, left, open, ioError>>

(* The loop has seen running_ false and has drained the queue. *)
WorkerEnds ==
    /\ worker = "stopping" /\ cur = {} /\ jobs = <<>>
    /\ worker' = "ended"
    /\ UNCHANGED <<jobs, disk, cur, left, open, ioError>>

WorkerStep ==
    \/ TakeJob \/ Write \/ JobDone \/ WorkerEnds
    \/ \E f \in Files : Truncate(f) \/ OpenFails(f)
=============================================================================
