-------------------------------- MODULE Menu --------------------------------
(***************************************************************************)
(* Joining from the game's menus: the forms, the query that comes before a *)
(* join, the steps from "new game" to the Hello, and the plugin's answers  *)
(* to the game's messages.  The game thread runs TickFlow and CMP_NetPoll  *)
(* once per frame and handles buttons, messages and console commands       *)
(* between two frames; the forms' own buttons run on the thread that draws *)
(* them (the Present hook), where a query is started in several steps.     *)
(* The query and the session use one socket.                               *)
(***************************************************************************)
EXTENDS Naturals

CONSTANTS
    AutoJoin, \* [Session] AutoJoin
    MaxActs   \* bound: games begun or loaded, and queries of the console

ASSUME MenuAssumption == AutoJoin \in BOOLEAN /\ MaxActs \in Nat

VARIABLES
    flow,        \* g_flow
    age,         \* time since g_flowAt: 0, 1 (a short limit is over), 2 (a long one)
    form,        \* g_menuForm, with g_hostContext; "stuck" is Join without its popup
    joinCtx,     \* g_joinContext
    pendingHost, \* g_pendingMenuHostJoin
    menuJoin,    \* menu.menuJoin
    query,       \* g_queryPending, g_queryResult, g_queryStart is over 2 s ago
    net,         \* the session and the socket, see NoNet
    pc,          \* where the Present thread is in CMP_QueryStart
    place,       \* where the player is
    looks,       \* g_looksOpen
    special,     \* g_specialOpen
    char,        \* "made" for a menu join, or the player's "own"
    over,        \* the game was loaded while a menu join was under way
    bare,        \* CMP_StripLocalGear took the character's items
    acts

menuVars == <<flow, age, form, joinCtx, pendingHost, menuJoin, query, net, pc,
              place, looks, special, char, over, bare, acts>>
gameVars == <<place, looks, special, char, over, bare, acts>>
formVars == <<form, joinCtx, pendingHost>>

Chargen == {"StartingGame", "WaitWorld", "SkipIntro", "WaitSkip", "Looks",
            "WaitLooks", "Special", "WaitSpecial", "Strip", "Joining"}
Flows   == Chargen \cup {"Idle", "Querying", "Done", "Failed"}

CMP_MenuJoinPending == flow \notin {"Idle", "Done", "Failed"}

InWorld == place \in {"vault", "commonwealth"}
CMP_PlayerInCommonwealth == place = "commonwealth"

(* No session and no socket.  "by" and "overlap" tell who joined, and      *)
(* whether the Present thread was in CMP_QueryStart at that time.          *)
NoNet == [joined |-> FALSE, welcomed |-> FALSE, sock |-> "none",
          inbox |-> "none", by |-> "none", overlap |-> FALSE]
NoQuery == [pending |-> FALSE, result |-> "none", late |-> FALSE]

MenuInit ==
    /\ flow = "Idle" /\ age = 0 /\ form = "none" /\ joinCtx = "title"
    /\ pendingHost = FALSE /\ menuJoin = FALSE /\ query = NoQuery
    /\ net = NoNet /\ pc = "idle" /\ place = "title"
    /\ looks = FALSE /\ special = FALSE /\ char = "own" /\ over = FALSE
    /\ bare = FALSE /\ acts = 0

-----------------------------------------------------------------------------
(* The socket and the session. *)
cmp_net_shutdown(n) == [n EXCEPT !.sock = "none", !.inbox = "none"]

(* What CMP_Join can come to: it leaves first; outside the world, or when  *)
(* the connection or the Hello fails, the socket is closed again.          *)
CMP_Join(by, inWorld) ==
    {NoNet} \cup
    {[NoNet EXCEPT !.joined = TRUE, !.sock = "session", !.by = by,
                   !.overlap = (pc # "idle")] : w \in {TRUE} \cap {inWorld}}

(* CMP_NetPoll leaves when the connection is lost or the server refuses,   *)
(* and reads what has come.  It does not look whose socket it is.          *)
Dropped(n) == n.joined /\ (n.sock = "none" \/ n.inbox = "reject")
CMP_NetPoll(n) ==
    IF ~n.joined THEN n
    ELSE IF Dropped(n) THEN NoNet
    ELSE [n EXCEPT !.welcomed = @ \/ n.inbox = "welcome", !.inbox = "none"]

SetFlow(f) == flow' = f /\ age' = 0

CMP_Leave == net' = NoNet /\ menuJoin' = FALSE

-----------------------------------------------------------------------------
(* The buttons of the title and the pause menu. *)
Context == IF place = "title" THEN "title" ELSE "game"

OpenJoinFlow ==
    /\ joinCtx' = Context
    /\ form' = IF flow = "Idle" THEN "join" ELSE form
    /\ UNCHANGED <<flow, age, pendingHost, menuJoin, query, net, pc, gameVars>>

OpenHostFlow ==
    /\ ~(Context = "game" /\ net.joined) /\ flow = "Idle"
    /\ form' = IF Context = "title" THEN "hostTitle" ELSE "hostGame"
    /\ UNCHANGED <<flow, age, joinCtx, pendingHost, menuJoin, query, net, pc,
                   gameVars>>

(* DISCONNECT, cmp_leave and the overlay's Leave. *)
DisconnectSession ==
    /\ net.joined
    /\ CMP_Leave
    /\ UNCHANGED <<flow, age, formVars, query, pc, gameVars>>

(* cmp_join of the console asks nothing of the menus. *)
ExecJoin ==
    /\ net' \in CMP_Join("console", InWorld)
    /\ menuJoin' = FALSE
    /\ UNCHANGED <<flow, age, formVars, query, pc, gameVars>>

(* cmp_query of the console starts a query, waits for two seconds without  *)
(* a frame in between, and may give up just before the query does.         *)
ExecQuery ==
    /\ acts < MaxActs /\ acts' = acts + 1
    /\ menuJoin' = (menuJoin /\ ~net.joined)
    /\ \/ /\ net' = NoNet
          /\ query' \in [pending : {FALSE}, result : {"ok", "err"}, late : {FALSE}]
       \/ /\ net' = [NoNet EXCEPT !.sock = "query"]
          /\ query' = [pending |-> TRUE, result |-> "none", late |-> FALSE]
    /\ UNCHANGED <<flow, age, formVars, pc, place, looks, special, char, over,
                   bare>>

-----------------------------------------------------------------------------
(* The Present thread: the buttons of a form. *)
CloseMenuForm ==
    /\ form \in {"join", "hostTitle", "hostGame"} /\ pc = "idle"
    /\ form' = "none"
    /\ UNCHANGED <<flow, age, joinCtx, pendingHost, menuJoin, query, net, pc,
                   gameVars>>

(* Join: the flow is Querying before there is a query. *)
ConfirmJoin ==
    /\ form = "join" /\ pc = "idle"
    /\ form' = "none" /\ SetFlow("Querying")
    /\ pc' = "leave"
    /\ UNCHANGED <<joinCtx, pendingHost, menuJoin, query, net, gameVars>>

(* Join with an address that does not parse: ConfirmJoin returns with the  *)
(* form open, but its caller closes the popup, so nothing is drawn of it.  *)
RefuseAddress ==
    /\ form = "join" /\ pc = "idle"
    /\ form' = "stuck"
    /\ UNCHANGED <<flow, age, joinCtx, pendingHost, menuJoin, query, net, pc,
                   gameVars>>

CMP_QueryStart ==
    /\ \/ /\ pc = "leave" /\ pc' = "connect"
          /\ IF net.joined THEN CMP_Leave
             ELSE net' = cmp_net_shutdown(net) /\ UNCHANGED menuJoin
          /\ query' = NoQuery
       \/ /\ pc = "connect" /\ pc' = "sent"
          /\ net' = [net EXCEPT !.sock = "query", !.inbox = "none"]
          /\ UNCHANGED <<menuJoin, query>>
       \/ /\ pc = "connect" /\ pc' = "idle"
          /\ net' = cmp_net_shutdown(net)
          /\ query' = [query EXCEPT !.result = "err"]
          /\ UNCHANGED menuJoin
       \/ /\ pc = "sent" /\ pc' = "idle"
          /\ query' = [query EXCEPT !.pending = TRUE, !.late = FALSE]
          /\ UNCHANGED <<net, menuJoin>>
    /\ UNCHANGED <<flow, age, formVars, gameVars>>

(* Host: the server runs or has been started; in the title menu the chosen *)
(* save is to be loaded first, in the game the plugin joins at once. A port *)
(* that does not parse, a server that does not start or no save selected   *)
(* leaves the form as it is: a stutter.                                    *)
ConfirmHost ==
    /\ pc = "idle" /\ ~net.joined
    /\ \/ /\ form = "hostTitle" /\ pendingHost' = TRUE
          /\ UNCHANGED <<net, menuJoin>>
       \/ /\ form = "hostGame"
          /\ net' \in CMP_Join("host", InWorld) /\ menuJoin' = FALSE
          /\ UNCHANGED pendingHost
    /\ form' = "none"
    /\ UNCHANGED <<flow, age, joinCtx, query, pc, gameVars>>

-----------------------------------------------------------------------------
(* The game thread, once per frame: TickFlow, then CMP_NetPoll. *)
Polled(n, mj) == net' = CMP_NetPoll(n) /\ menuJoin' = (mj /\ ~Dropped(n))

(* CMP_QueryPoll: a query that is not pending has its last result, or is   *)
(* an error; one that is pending takes frames off the socket until its     *)
(* answer, and closes the socket then or after two seconds.                *)
Answered == net.inbox \in {"info", "noHost"}
QueryOver == ~query.pending \/ Answered \/ query.late
QueryOk ==
    IF query.pending THEN net.inbox = "info" ELSE query.result = "ok"
AfterPoll ==
    IF ~query.pending THEN net
    ELSE IF QueryOver THEN cmp_net_shutdown(net)
    ELSE [net EXCEPT !.inbox = "none"]

(* The way through a new game sets menuJoin. *)
BeginChargen == SetFlow("StartingGame") /\ Polled(AfterPoll, TRUE)

TickQuerying ==
    /\ flow = "Querying"
    /\ query' = IF query.pending /\ QueryOver
                THEN [pending |-> FALSE, late |-> FALSE,
                      result |-> IF QueryOk THEN "ok" ELSE "err"]
                ELSE query
    /\ IF ~QueryOver THEN Polled(AfterPoll, menuJoin) /\ UNCHANGED <<flow, age>>
       ELSE IF ~QueryOk THEN SetFlow("Idle") /\ Polled(AfterPoll, FALSE)
       ELSE IF joinCtx = "game"
       THEN \E n \in CMP_Join("menu", InWorld) :
                /\ SetFlow(IF n.joined THEN "Done" ELSE "Failed")
                /\ Polled(n, FALSE)
       ELSE BeginChargen
    /\ UNCHANGED <<formVars, pc, gameVars>>

(* The waits for the new game, the player and the Commonwealth fail after  *)
(* their limit; those for the two menus go on.                             *)
GiveUp == SetFlow("Failed") /\ Polled(net, FALSE)
GoOn(f) == SetFlow(f) /\ Polled(net, menuJoin)
Stay == UNCHANGED <<flow, age>> /\ Polled(net, menuJoin)

(* The console command "coc" may or may not have moved the player yet. *)
CMP_EnsureCommonwealthExterior == place' \in {place, "commonwealth"}

TickWaitingEver ==
    /\ \/ flow = "StartingGame" /\ IF age = 2 THEN GiveUp ELSE Stay
       \/ flow = "WaitWorld" /\ IF InWorld THEN GoOn("SkipIntro") ELSE Stay
    /\ UNCHANGED <<formVars, query, pc, gameVars>>
TickWaiting ==
    /\ \/ flow = "StartingGame" /\ IF age = 2 THEN GiveUp ELSE Stay
       \/ /\ flow = "WaitWorld"
          /\ IF InWorld THEN GoOn("SkipIntro")
             ELSE IF age = 2 THEN GiveUp ELSE Stay
    /\ UNCHANGED <<formVars, query, pc, gameVars>>

SkipIntro ==
    /\ flow = "SkipIntro" /\ GoOn("WaitSkip")
    /\ CMP_EnsureCommonwealthExterior
    /\ UNCHANGED <<formVars, query, pc, looks, special, char, over, bare, acts>>

WaitSkip ==
    /\ flow = "WaitSkip"
    /\ IF CMP_PlayerInCommonwealth
       THEN GoOn(IF looks THEN "WaitLooks" ELSE "Looks") /\ UNCHANGED place
       ELSE /\ IF age = 2 THEN GiveUp ELSE Stay
            /\ IF age >= 1 THEN CMP_EnsureCommonwealthExterior
               ELSE UNCHANGED place
    /\ UNCHANGED <<formVars, query, pc, looks, special, char, over, bare, acts>>

TickMenus ==
    /\ \/ flow = "Looks" /\ GoOn("WaitLooks")
       \/ /\ flow = "WaitLooks"
          /\ IF (~looks /\ age >= 1) \/ age = 2 THEN GoOn("Special") ELSE Stay
       \/ flow = "Special" /\ GoOn("WaitSpecial")
       \/ /\ flow = "WaitSpecial"
          /\ IF (~special /\ age >= 1) \/ age = 2 THEN GoOn("Strip") ELSE Stay
    /\ UNCHANGED <<formVars, query, pc, gameVars>>

CMP_StripLocalGear ==
    /\ flow = "Strip" /\ GoOn("Joining")
    /\ bare' = InWorld
    /\ CMP_EnsureCommonwealthExterior
    /\ UNCHANGED <<formVars, query, pc, looks, special, char, over, acts>>

TickJoining ==
    /\ flow = "Joining"
    /\ IF CMP_PlayerInCommonwealth
       THEN \E n \in CMP_Join("menu", TRUE) :
                /\ SetFlow(IF n.joined THEN "Done" ELSE "Failed")
                /\ Polled(n, FALSE)
       ELSE IF age >= 1 THEN GiveUp ELSE Stay
    /\ UNCHANGED <<formVars, query, pc, gameVars>>

TickAtRest ==
    /\ ~CMP_MenuJoinPending /\ Stay
    /\ UNCHANGED <<formVars, query, pc, gameVars>>

Tick == \/ TickQuerying \/ TickWaiting \/ SkipIntro \/ WaitSkip \/ TickMenus
        \/ CMP_StripLocalGear \/ TickJoining \/ TickAtRest

-----------------------------------------------------------------------------
(* The game's messages. *)
CMP_MenuHostJoinAfterLoad(inWorld) == net' \in CMP_Join("host", inWorld)

CMP_OnGameReadyAlways(inWorld) ==
    /\ pendingHost' = FALSE
    /\ IF pendingHost THEN CMP_MenuHostJoinAfterLoad(inWorld)
       ELSE IF AutoJoin /\ ~net.joined THEN net' \in CMP_Join("auto", inWorld)
       ELSE UNCHANGED net
CMP_OnGameReady(inWorld) ==
    IF menuJoin \/ CMP_MenuJoinPending
    THEN UNCHANGED <<net, pendingHost>>
    ELSE /\ pendingHost' = FALSE
         /\ IF pendingHost THEN CMP_MenuHostJoinAfterLoad(inWorld)
            ELSE IF AutoJoin /\ ~net.joined THEN net' \in CMP_Join("auto", inWorld)
            ELSE UNCHANGED net

(* kNewGame.  Leaving the title closes the form. *)
CMP_MenuOnNewGameAlways == SetFlow("WaitWorld")
CMP_MenuOnNewGame ==
    IF flow = "StartingGame" \/ menuJoin THEN SetFlow("WaitWorld")
    ELSE UNCHANGED <<flow, age>>

NewGame ==
    /\ place = "title" /\ acts < MaxActs
    /\ acts' = acts + 1
    /\ CMP_OnGameReady(TRUE) /\ CMP_MenuOnNewGame
    /\ place' \in {"starting", "vault"}
    /\ char' = IF flow \in Chargen THEN "made" ELSE "own"
    /\ over' = FALSE /\ bare' = FALSE /\ form' = "none"
    /\ UNCHANGED <<joinCtx, menuJoin, query, pc, looks, special>>

(* kPreLoadGame, then kPostLoadGame. *)
CMP_OnPreLoad ==
    /\ place # "loading" /\ acts < MaxActs
    /\ acts' = acts + 1
    /\ CMP_Leave
    /\ place' = "loading" /\ char' = "own" /\ bare' = FALSE
    /\ over' = CMP_MenuJoinPending
    /\ form' = IF place = "title" THEN "none" ELSE form
    /\ looks' = FALSE /\ special' = FALSE
    /\ UNCHANGED <<flow, age, joinCtx, pendingHost, query, pc>>

PostLoadGame ==
    /\ place = "loading"
    /\ place' \in {"vault", "commonwealth"}
    /\ CMP_OnGameReady(TRUE)
    /\ over' = (over \/ CMP_MenuJoinPending)
    /\ UNCHANGED <<flow, age, form, joinCtx, menuJoin, query, pc, looks, special,
                   char, bare, acts>>

-----------------------------------------------------------------------------
(* The environment: the game, its player, the server and time. *)
EnterWorld ==
    /\ place = "starting" /\ place' = "vault"
    /\ UNCHANGED <<flow, age, formVars, menuJoin, query, net, pc, looks, special,
                   char, over, bare, acts>>

QuitToTitle ==
    /\ InWorld /\ acts < MaxActs
    /\ place' = "title" /\ form' = "none"
    /\ looks' = FALSE /\ special' = FALSE
    /\ UNCHANGED <<flow, age, joinCtx, pendingHost, menuJoin, query, net, pc,
                   char, over, bare, acts>>

(* The two menus open and close; g_looksOpen and g_specialOpen are read in *)
(* WaitSkip, WaitLooks and WaitSpecial only.                               *)
MenuSink ==
    /\ InWorld
    /\ \/ looks' = ~looks /\ UNCHANGED special
       \/ special' = ~special /\ UNCHANGED looks
    /\ flow \in {"WaitSkip", "WaitLooks", "WaitSpecial"}
    /\ UNCHANGED <<flow, age, formVars, menuJoin, query, net, pc, place, char,
                   over, bare, acts>>

ServerAnswers ==
    /\ net.inbox = "none"
    /\ \/ net.sock = "query" /\ \E m \in {"info", "noHost"} :
              net' = [net EXCEPT !.inbox = m]
       \/ net.sock = "session" /\ ~net.welcomed /\ \E m \in {"welcome", "reject"} :
              net' = [net EXCEPT !.inbox = m]
       \/ net.sock = "session" /\ net' = cmp_net_shutdown(net)
    /\ UNCHANGED <<flow, age, formVars, menuJoin, query, pc, gameVars>>

Wait ==
    /\ age < 2 \/ (query.pending /\ ~query.late)
    /\ age' = IF age < 2 THEN age + 1 ELSE age
    /\ query' = [query EXCEPT !.late = query.pending]
    /\ UNCHANGED <<flow, formVars, menuJoin, net, pc, gameVars>>

Buttons == OpenJoinFlow \/ OpenHostFlow \/ DisconnectSession
Console == ExecJoin \/ ExecQuery
Present == CloseMenuForm \/ ConfirmJoin \/ RefuseAddress \/ CMP_QueryStart
             \/ ConfirmHost
Game    == NewGame \/ CMP_OnPreLoad \/ PostLoadGame
             \/ EnterWorld \/ QuitToTitle \/ MenuSink

MenuNext == Tick \/ Buttons \/ Console \/ Present \/ Game \/ ServerAnswers \/ Wait

MenuSpec == MenuInit /\ [][MenuNext]_menuVars

(* Frames come and time passes. *)
FairMenuSpec == MenuSpec /\ WF_menuVars(Tick) /\ WF_menuVars(Wait)

-----------------------------------------------------------------------------
(* The variables have their types; the socket is never left half closed.   *)
MenuTypeOK ==
    /\ flow \in Flows /\ age \in 0..2
    /\ form \in {"none", "join", "hostTitle", "hostGame", "stuck"}
    /\ joinCtx \in {"title", "game"}
    /\ pendingHost \in BOOLEAN /\ menuJoin \in BOOLEAN
    /\ query \in [pending : BOOLEAN, result : {"none", "ok", "err"},
                  late : BOOLEAN]
    /\ net \in [joined : BOOLEAN, welcomed : BOOLEAN,
                sock : {"none", "query", "session"},
                inbox : {"none", "info", "noHost", "welcome", "reject"},
                by : {"none", "menu", "host", "auto", "console"},
                overlap : BOOLEAN]
    /\ pc \in {"idle", "leave", "connect", "sent"}
    /\ place \in {"title", "starting", "loading", "vault", "commonwealth"}
    /\ {looks, special, over, bare} \subseteq BOOLEAN
    /\ char \in {"own", "made"} /\ acts \in 0..MaxActs

(* menuJoin, which keeps CMP_OnGameReady from joining by itself, never     *)
(* outlives the way through the new game that set it: every early end of   *)
(* TickFlow, and every CMP_Leave on the way, clears it or leaves the way.  *)
MenuJoinLives == menuJoin => flow \in Chargen

(* A query and a session share the socket, and a pending query takes and   *)
(* drops the session's frames and closes its socket: no session that the   *)
(* menus or a loaded game began runs beside a query, unless it began while *)
(* the Present thread was inside CMP_QueryStart.  The console's cmp_join   *)
(* looks at no query, and its session does share the socket with one.      *)
QuerySparesSession ==
    net.joined /\ net.by # "console" /\ ~net.overlap /\ pc = "idle"
      => net.sock # "query" /\ ~(flow = "Querying" /\ query.pending)

(* CMP_StripLocalGear removes every item the player has: it only ever does *)
(* so to the character made for a menu join, or to one whose save was      *)
(* loaded while such a join was under way, which CMP_OnPreLoad leaves on.  *)
GearKept == bare => char = "made" \/ over

(* A menu join reaches no further than the new game it was begun for.      *)
MenuInv == MenuTypeOK /\ MenuJoinLives /\ GearKept

(* Every join from a menu comes to an end, whatever the server, the game   *)
(* and the player do or fail to do: no wait of TickFlow is for ever.       *)
FlowEnds == CMP_MenuJoinPending ~> ~CMP_MenuJoinPending
=============================================================================
