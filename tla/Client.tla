------------------------------- MODULE Client -------------------------------
(***************************************************************************)
(* The control plane of the client: main() launches groups of workers,     *)
(* each group obtains TURN credentials once and spawns its workers, each   *)
(* worker runs one session after another until the client is told to stop. *)
(*                                                                         *)
(* One pc value stands for one place where the code's task can be          *)
(* suspended (an await) or where another task can observe what it did.     *)
(* What travels through an established session is the subject of module    *)
(* Tunnel; here a session is only up or down.                              *)
(*                                                                         *)
(* A definition named Def_Fault is a plausible mistake in Def; it is not   *)
(* part of the model, and each property below is violated when one of them *)
(* takes the place of the definition it precedes.                           *)
(***************************************************************************)
EXTENDS Integers, FiniteSets

CONSTANTS
    NumGroups,        \* num_groups in main()
    WorkersPerGroup,  \* workersPerGroup (9 in the program)
    StreamStride,     \* stream_id = group_id * 100
    StreamsPerCache   \* STREAMS_PER_CACHE (10)

ASSUME ClientAssumption ==
    /\ NumGroups \in Nat \ {0}
    /\ WorkersPerGroup \in Nat \ {0}
    /\ StreamsPerCache \in Nat \ {0}
    /\ StreamStride \in Nat
    /\ StreamStride >= StreamsPerCache

Groups  == 0 .. NumGroups - 1
Slots   == 0 .. WorkersPerGroup - 1
Workers == Groups \X Slots

\* Fault: the workers of a group share one id.
ID_OfGroup(w) == w[1] * WorkersPerGroup

\* The id main() gives a worker, under which its session is registered.
ID(w) == w[1] * WorkersPerGroup + w[2]

\* Fault: the group id is used as the stream id, without the stride.
CacheKey_NoStride(g) == g \div StreamsPerCache

\* The key of a group's entry in the credentials cache.
CacheKey(g) == (g * StreamStride) \div StreamsPerCache

VARIABLES
    mainPc,      \* where main() is
    launched,    \* groups 0 .. launched-1 are spawned
    gpc,         \* gpc[g]: where the WorkerGroup task of g is
    spawned,     \* spawned[g]: how many workers of g are spawned
    wpc,         \* wpc[w]: where the task of worker w is
    configOnce,  \* the config_once flag of each group
    wantConfig,  \* wantConfig[w]: want_config of w's current attempt
    cancelled,   \* the CancellationToken
    paused,      \* the paused flag
    stdinOpen,   \* the stdin task is still reading
    credCache,   \* keys present in CACHES
    active,      \* stats.ActiveConnections
    registered,  \* workers that own a slot of dispatcher.workers
    configCh,    \* configs in the channel of capacity 1
    saves        \* configs taken out of it and written to the file

mainVars   == <<mainPc, launched>>
sessVars   == <<active, registered>>
configVars == <<configCh, saves>>
userVars   == <<paused, stdinOpen>>
vars == <<mainPc, launched, gpc, spawned, wpc, configOnce, wantConfig, cancelled,
          paused, stdinOpen, credCache, active, registered, configCh, saves>>

MainPcs  == {"launch", "wait", "join", "shutdown", "stopped"}
GroupPcs == {"unborn", "gate", "paused", "creds", "spawn", "join", "done"}
WorkerPcs == {"unborn", "top", "gate", "paused", "connect", "getconf", "sendcfg",
              "ready", "register", "loop", "leave", "unregister", "close",
              "backoff", "fatal", "done"}

TypeOK ==
    /\ mainPc \in MainPcs
    /\ launched \in 0 .. NumGroups
    /\ gpc \in [Groups -> GroupPcs]
    /\ spawned \in [Groups -> 0 .. WorkersPerGroup]
    /\ wpc \in [Workers -> WorkerPcs]
    /\ configOnce \in [Groups -> BOOLEAN]
    /\ wantConfig \in [Workers -> BOOLEAN]
    /\ cancelled \in BOOLEAN
    /\ paused \in BOOLEAN
    /\ stdinOpen \in BOOLEAN
    /\ credCache \subseteq {CacheKey(g) : g \in Groups}
    /\ active \in Int
    /\ registered \subseteq Workers
    /\ configCh \in 0 .. 1
    /\ saves \in Nat

Init ==
    /\ mainPc = "launch"
    /\ launched = 0
    /\ gpc = [g \in Groups |-> "unborn"]
    /\ spawned = [g \in Groups |-> 0]
    /\ wpc = [w \in Workers |-> "unborn"]
    /\ configOnce = [g \in Groups |-> FALSE]
    /\ wantConfig = [w \in Workers |-> FALSE]
    /\ cancelled = FALSE
    /\ paused = FALSE
    /\ stdinOpen = FALSE
    /\ credCache = {}
    /\ active = 0
    /\ registered = {}
    /\ configCh = 0
    /\ saves = 0

-----------------------------------------------------------------------------
(* main(). Every task of the client dies with main(): nothing moves once it *)
(* has returned.                                                            *)

Running == mainPc /= "stopped"

\* The token is not looked at while groups are being launched.
LaunchGroup ==
    /\ mainPc = "launch"
    /\ launched < NumGroups
    /\ launched' = launched + 1
    /\ gpc' = [gpc EXCEPT ![launched] = "gate"]
    /\ UNCHANGED <<mainPc, spawned, wpc, configOnce, wantConfig, cancelled,
                   userVars, credCache, sessVars, configVars>>

\* Only now are the config task and the stdin task spawned.
FinishLaunch ==
    /\ mainPc = "launch"
    /\ launched = NumGroups
    /\ mainPc' = "wait"
    /\ stdinOpen' = TRUE
    /\ UNCHANGED <<launched, gpc, spawned, wpc, configOnce, wantConfig, cancelled,
                   paused, credCache, sessVars, configVars>>

\* tokio::select! of ctrl_c() and cancelled().
CtrlC ==
    /\ mainPc = "wait"
    /\ cancelled' = TRUE
    /\ mainPc' = "join"
    /\ UNCHANGED <<launched, gpc, spawned, wpc, configOnce, wantConfig,
                   userVars, credCache, sessVars, configVars>>

\* Fault: main() does not wait for the groups.
SeeCancelled_SkipsJoin ==
    /\ mainPc = "wait"
    /\ cancelled
    /\ mainPc' = "shutdown"
    /\ UNCHANGED <<launched, gpc, spawned, wpc, configOnce, wantConfig, cancelled,
                   userVars, credCache, sessVars, configVars>>

SeeCancelled ==
    /\ mainPc = "wait"
    /\ cancelled
    /\ mainPc' = "join"
    /\ UNCHANGED <<launched, gpc, spawned, wpc, configOnce, wantConfig, cancelled,
                   userVars, credCache, sessVars, configVars>>

\* Fault: only the first group is joined.
JoinGroups_FirstOnly ==
    /\ mainPc = "join"
    /\ gpc[0] = "done"
    /\ mainPc' = "shutdown"
    /\ UNCHANGED <<launched, gpc, spawned, wpc, configOnce, wantConfig, cancelled,
                   userVars, credCache, sessVars, configVars>>

\* for handle in handles { handle.await }
JoinGroups ==
    /\ mainPc = "join"
    /\ \A g \in Groups : gpc[g] = "done"
    /\ mainPc' = "shutdown"
    /\ UNCHANGED <<launched, gpc, spawned, wpc, configOnce, wantConfig, cancelled,
                   userVars, credCache, sessVars, configVars>>

\* dispatcher.Shutdown(), the "stopped" event and the return of main().
Stop ==
    /\ mainPc = "shutdown"
    /\ mainPc' = "stopped"
    /\ UNCHANGED <<launched, gpc, spawned, wpc, configOnce, wantConfig, cancelled,
                   userVars, credCache, sessVars, configVars>>

\* The task that receives configs, started by FinishLaunch.
SaveConfig ==
    /\ mainPc \notin {"launch", "stopped"}
    /\ configCh > 0
    /\ configCh' = configCh - 1
    /\ saves' = saves + 1
    /\ UNCHANGED <<mainVars, gpc, spawned, wpc, configOnce, wantConfig, cancelled,
                   userVars, credCache, sessVars>>

-----------------------------------------------------------------------------
(* The lines the user types. *)

Pause ==
    /\ Running /\ stdinOpen
    /\ paused' = TRUE
    /\ UNCHANGED <<mainVars, gpc, spawned, wpc, configOnce, wantConfig, cancelled,
                   stdinOpen, credCache, sessVars, configVars>>

Resume ==
    /\ Running /\ stdinOpen
    /\ paused' = FALSE
    /\ UNCHANGED <<mainVars, gpc, spawned, wpc, configOnce, wantConfig, cancelled,
                   stdinOpen, credCache, sessVars, configVars>>

StopLine ==
    /\ Running /\ stdinOpen
    /\ cancelled' = TRUE
    /\ stdinOpen' = FALSE
    /\ UNCHANGED <<mainVars, gpc, spawned, wpc, configOnce, wantConfig, paused,
                   credCache, sessVars, configVars>>

EndOfInput ==
    /\ Running /\ stdinOpen
    /\ stdinOpen' = FALSE
    /\ UNCHANGED <<mainVars, gpc, spawned, wpc, configOnce, wantConfig, cancelled,
                   paused, credCache, sessVars, configVars>>

-----------------------------------------------------------------------------
(* WorkerGroup. *)

GroupAt(g, from, to) ==
    /\ Running
    /\ gpc[g] = from
    /\ gpc' = [gpc EXCEPT ![g] = to]

\* One evaluation of "while paused"; the select! behind it is at "paused".
GroupGate(g) ==
    /\ GroupAt(g, "gate", IF paused THEN "paused" ELSE "creds")
    /\ UNCHANGED <<mainVars, spawned, wpc, configOnce, wantConfig, cancelled,
                   userVars, credCache, sessVars, configVars>>

GroupPausedWake(g) ==
    /\ GroupAt(g, "paused", "gate")
    /\ UNCHANGED <<mainVars, spawned, wpc, configOnce, wantConfig, cancelled,
                   userVars, credCache, sessVars, configVars>>

GroupPausedCancelled(g) ==
    /\ cancelled
    /\ GroupAt(g, "paused", "done")
    /\ UNCHANGED <<mainVars, spawned, wpc, configOnce, wantConfig, cancelled,
                   userVars, credCache, sessVars, configVars>>

\* GetCreds succeeds and leaves an entry under the group's key; only group 0
\* is asked to fetch the config.
GroupGetsCreds(g) ==
    /\ GroupAt(g, "creds", "spawn")
    /\ credCache' = credCache \cup {CacheKey(g)}
    /\ configOnce' = [configOnce EXCEPT ![g] = (g = 0)]
    /\ UNCHANGED <<mainVars, spawned, wpc, wantConfig, cancelled, userVars,
                   sessVars, configVars>>

\* Fault: the group goes on to join workers it never spawned.
GroupNoCreds_Joins(g) ==
    /\ GroupAt(g, "creds", "join")
    /\ UNCHANGED <<mainVars, spawned, wpc, configOnce, wantConfig, cancelled,
                   userVars, credCache, sessVars, configVars>>

\* GetCreds fails: the group gives up for good.
GroupNoCreds(g) ==
    /\ GroupAt(g, "creds", "done")
    /\ UNCHANGED <<mainVars, spawned, wpc, configOnce, wantConfig, cancelled,
                   userVars, credCache, sessVars, configVars>>

\* Fault: an inclusive range.
GroupSpawn_OneTooMany(g) ==
    /\ spawned[g] <= WorkersPerGroup
    /\ GroupAt(g, "spawn", "spawn")
    /\ spawned' = [spawned EXCEPT ![g] = @ + 1]
    /\ wpc' = [w \in Workers |-> IF w = <<g, spawned[g]>> THEN "top" ELSE wpc[w]]
    /\ UNCHANGED <<mainVars, configOnce, wantConfig, cancelled, userVars,
                   credCache, sessVars, configVars>>

\* One iteration of "for worker_id in worker_ids"; the token is not looked at.
GroupSpawn(g) ==
    /\ spawned[g] < WorkersPerGroup
    /\ GroupAt(g, "spawn", "spawn")
    /\ spawned' = [spawned EXCEPT ![g] = @ + 1]
    /\ wpc' = [wpc EXCEPT ![<<g, spawned[g]>>] = "top"]
    /\ UNCHANGED <<mainVars, configOnce, wantConfig, cancelled, userVars,
                   credCache, sessVars, configVars>>

GroupSpawned(g) ==
    /\ spawned[g] = WorkersPerGroup
    /\ GroupAt(g, "spawn", "join")
    /\ UNCHANGED <<mainVars, spawned, wpc, configOnce, wantConfig, cancelled,
                   userVars, credCache, sessVars, configVars>>

GroupJoin(g) ==
    /\ \A n \in Slots : wpc[<<g, n>>] = "done"
    /\ GroupAt(g, "join", "done")
    /\ UNCHANGED <<mainVars, spawned, wpc, configOnce, wantConfig, cancelled,
                   userVars, credCache, sessVars, configVars>>

-----------------------------------------------------------------------------
(* The loop of one worker. *)

WorkerAt(w, from, to) ==
    /\ Running
    /\ wpc[w] = from
    /\ wpc' = [wpc EXCEPT ![w] = to]

\* if cancel.is_cancelled() { return }
WorkerTop(w) ==
    /\ WorkerAt(w, "top", IF cancelled THEN "done" ELSE "gate")
    /\ UNCHANGED <<mainVars, gpc, spawned, configOnce, wantConfig, cancelled,
                   userVars, credCache, sessVars, configVars>>

WorkerGatePaused(w) ==
    /\ paused
    /\ WorkerAt(w, "gate", "paused")
    /\ UNCHANGED <<mainVars, gpc, spawned, configOnce, wantConfig, cancelled,
                   userVars, credCache, sessVars, configVars>>

\* Fault: config_once is read, not swapped.
WorkerAttempt_KeepsFlag(w) ==
    /\ ~paused
    /\ WorkerAt(w, "gate", "connect")
    /\ wantConfig' = [wantConfig EXCEPT ![w] = configOnce[w[1]]]
    /\ UNCHANGED <<mainVars, gpc, spawned, configOnce, cancelled, userVars,
                   credCache, sessVars, configVars>>

\* The gate is open: config_once.swap(false), and RunSession begins.
WorkerAttempt(w) ==
    /\ ~paused
    /\ WorkerAt(w, "gate", "connect")
    /\ wantConfig' = [wantConfig EXCEPT ![w] = configOnce[w[1]]]
    /\ configOnce' = [configOnce EXCEPT ![w[1]] = FALSE]
    /\ UNCHANGED <<mainVars, gpc, spawned, cancelled, userVars, credCache,
                   sessVars, configVars>>

WorkerPausedWake(w) ==
    /\ WorkerAt(w, "paused", "gate")
    /\ UNCHANGED <<mainVars, gpc, spawned, configOnce, wantConfig, cancelled,
                   userVars, credCache, sessVars, configVars>>

\* Fault: a plain sleep at the closed gate, without the select!.
WorkerPausedCancelled_Sleeps(w) == WorkerPausedWake(w)

WorkerPausedCancelled(w) ==
    /\ cancelled
    /\ WorkerAt(w, "paused", "done")
    /\ UNCHANGED <<mainVars, gpc, spawned, configOnce, wantConfig, cancelled,
                   userVars, credCache, sessVars, configVars>>

\* Fault: the worker returns after a failed attempt.
WorkerRetry_GivesUp(w) ==
    /\ WorkerAt(w, "backoff", "done")
    /\ UNCHANGED <<mainVars, gpc, spawned, configOnce, wantConfig, cancelled,
                   userVars, credCache, sessVars, configVars>>

\* The delay between attempts is over.
WorkerRetry(w) ==
    /\ WorkerAt(w, "backoff", "top")
    /\ UNCHANGED <<mainVars, gpc, spawned, configOnce, wantConfig, cancelled,
                   userVars, credCache, sessVars, configVars>>

WorkerBackoffCancelled(w) ==
    /\ cancelled
    /\ WorkerAt(w, "backoff", "done")
    /\ UNCHANGED <<mainVars, gpc, spawned, configOnce, wantConfig, cancelled,
                   userVars, credCache, sessVars, configVars>>

\* RunSession returned FATAL_AUTH.
WorkerFatal(w) ==
    /\ WorkerAt(w, "fatal", "done")
    /\ cancelled' = TRUE
    /\ UNCHANGED <<mainVars, gpc, spawned, configOnce, wantConfig, userVars,
                   credCache, sessVars, configVars>>

-----------------------------------------------------------------------------
(* RunSession. *)

\* Resolving the peer, the TURN allocation and the DTLS handshake succeed.
SessionConnected(w) ==
    /\ WorkerAt(w, "connect", IF wantConfig[w] THEN "getconf" ELSE "ready")
    /\ UNCHANGED <<mainVars, gpc, spawned, configOnce, wantConfig, cancelled,
                   userVars, credCache, sessVars, configVars>>

\* Any of them fails or times out. wantConfig[w] is not given back.
SessionNotConnected(w) ==
    /\ WorkerAt(w, "connect", "backoff")
    /\ UNCHANGED <<mainVars, gpc, spawned, configOnce, wantConfig, cancelled,
                   userVars, credCache, sessVars, configVars>>

\* Fault: the whole cache is cleared.
handleAuthError_ClearsAll(w) == credCache' = {} /\ w \in Workers

handleAuthError(w) == credCache' = credCache \ {CacheKey(w[1])}

\* GETCONF is answered with a config, which goes into the channel next.
GetconfAnswered(w) ==
    /\ WorkerAt(w, "getconf", "sendcfg")
    /\ UNCHANGED <<mainVars, gpc, spawned, configOnce, wantConfig, cancelled,
                   userVars, credCache, sessVars, configVars>>

GetconfNoconf(w) ==
    /\ WorkerAt(w, "getconf", "ready")
    /\ UNCHANGED <<mainVars, gpc, spawned, configOnce, wantConfig, cancelled,
                   userVars, credCache, sessVars, configVars>>

\* DENIED, or a write or read error that isAuthError recognises.
GetconfDenied(w) ==
    /\ WorkerAt(w, "getconf", "fatal")
    /\ handleAuthError(w)
    /\ UNCHANGED <<mainVars, gpc, spawned, configOnce, wantConfig, cancelled,
                   userVars, sessVars, configVars>>

\* Any other write or read error, a timeout included.
GetconfFailed(w) ==
    /\ WorkerAt(w, "getconf", "backoff")
    /\ UNCHANGED <<mainVars, gpc, spawned, configOnce, wantConfig, cancelled,
                   userVars, credCache, sessVars, configVars>>

\* tx.send(response).await waits for room in the channel.
SendConfig(w) ==
    /\ configCh < 1
    /\ WorkerAt(w, "sendcfg", "ready")
    /\ configCh' = configCh + 1
    /\ UNCHANGED <<mainVars, gpc, spawned, configOnce, wantConfig, cancelled,
                   userVars, credCache, sessVars, saves>>

SessionReady(w) ==
    /\ WorkerAt(w, "ready", "register")
    /\ active' = active + 1
    /\ UNCHANGED <<mainVars, gpc, spawned, configOnce, wantConfig, cancelled,
                   userVars, credCache, registered, configVars>>

Register(w) ==
    /\ WorkerAt(w, "register", "loop")
    /\ registered' = registered \cup {w}
    /\ UNCHANGED <<mainVars, gpc, spawned, configOnce, wantConfig, cancelled,
                   userVars, credCache, active, configVars>>

\* Fault: an error in the loop returns at once, past the clean-up.
SessionBreaks_EarlyReturn(w) ==
    /\ WorkerAt(w, "loop", "backoff")
    /\ handleAuthError(w) \/ UNCHANGED credCache
    /\ UNCHANGED <<mainVars, gpc, spawned, configOnce, wantConfig, cancelled,
                   userVars, sessVars, configVars>>

\* A write, read or keepalive error ends the select loop. Only the peer or
\* the network can cause one: the loop never looks at the token.
SessionBreaks(w) ==
    /\ WorkerAt(w, "loop", "leave")
    /\ handleAuthError(w) \/ UNCHANGED credCache
    /\ UNCHANGED <<mainVars, gpc, spawned, configOnce, wantConfig, cancelled,
                   userVars, sessVars, configVars>>

SessionLeaves(w) ==
    /\ WorkerAt(w, "leave", "unregister")
    /\ active' = active - 1
    /\ UNCHANGED <<mainVars, gpc, spawned, configOnce, wantConfig, cancelled,
                   userVars, credCache, registered, configVars>>

\* retain(|s| s.ID != id) removes every slot of that id.
Unregister(w) ==
    /\ WorkerAt(w, "unregister", "close")
    /\ registered' = {v \in registered : ID(v) /= ID(w)}
    /\ UNCHANGED <<mainVars, gpc, spawned, configOnce, wantConfig, cancelled,
                   userVars, credCache, active, configVars>>

\* dtls.close(), turn.close(); RunSession returns Ok.
SessionClosed(w) ==
    /\ WorkerAt(w, "close", "backoff")
    /\ UNCHANGED <<mainVars, gpc, spawned, configOnce, wantConfig, cancelled,
                   userVars, credCache, sessVars, configVars>>

-----------------------------------------------------------------------------
MainStep == LaunchGroup \/ FinishLaunch \/ SeeCancelled \/ JoinGroups \/ Stop

UserStep == CtrlC \/ Pause \/ Resume \/ StopLine \/ EndOfInput

GroupStep(g) ==
    \/ GroupGate(g) \/ GroupPausedWake(g) \/ GroupPausedCancelled(g)
    \/ GroupGetsCreds(g) \/ GroupNoCreds(g)
    \/ GroupSpawn(g) \/ GroupSpawned(g) \/ GroupJoin(g)

\* What the worker's own code does next, timeouts included.
WorkerStep(w) ==
    \/ WorkerTop(w) \/ WorkerGatePaused(w) \/ WorkerAttempt(w)
    \/ WorkerPausedWake(w) \/ WorkerPausedCancelled(w)
    \/ WorkerRetry(w) \/ WorkerBackoffCancelled(w) \/ WorkerFatal(w)
    \/ SessionConnected(w) \/ SessionNotConnected(w)
    \/ GetconfAnswered(w) \/ GetconfNoconf(w) \/ GetconfDenied(w) \/ GetconfFailed(w)
    \/ SendConfig(w) \/ SessionReady(w) \/ Register(w)
    \/ SessionLeaves(w) \/ Unregister(w) \/ SessionClosed(w)

\* The last action of the program.
Exited == mainPc = "stopped" /\ UNCHANGED vars

Next ==
    \/ MainStep \/ UserStep \/ SaveConfig \/ Exited
    \/ \E g \in Groups : GroupStep(g)
    \/ \E w \in Workers : WorkerStep(w) \/ SessionBreaks(w)

Spec == Init /\ [][Next]_vars

\* tokio runs every ready task, and each await of these tasks is bounded by a
\* timeout or a sleep, so a task that can move moves. Nothing makes a user type
\* or an established session break. A select! is entered anew every second at a
\* closed gate and finds the cancelled token ready.
Fairness ==
    /\ WF_vars(MainStep)
    /\ WF_vars(SaveConfig)
    /\ \A g \in Groups : WF_vars(GroupStep(g)) /\ SF_vars(GroupPausedCancelled(g))
    /\ \A w \in Workers : WF_vars(WorkerStep(w)) /\ SF_vars(WorkerPausedCancelled(w))

FairSpec == Spec /\ Fairness

-----------------------------------------------------------------------------
(* Properties. *)

\* Where a worker is while its session is counted, and while it has a slot.
CountedPcs    == {"register", "loop", "leave"}
RegisteredPcs == {"loop", "leave", "unregister"}

\* stats.ActiveConnections is the number of sessions between "ready" and the
\* end of their select loop, whatever the interleaving and however they ended.
ActiveMatchesSessions ==
    active = Cardinality({w \in Workers : wpc[w] \in CountedPcs})

\* The dispatcher holds the slots of exactly the sessions whose receiver is
\* alive and that have not unregistered: one session's Unregister, which goes
\* by id, never takes away another's slot, and no failure path leaves one behind.
RegisteredExactly ==
    registered = {w \in Workers : wpc[w] \in RegisteredPcs}

\* When main() returns every worker that was ever spawned has returned, so the
\* exit of the process cuts no session short: nothing is registered or counted.
StoppedIsQuiet ==
    mainPc = "stopped" =>
        /\ cancelled
        /\ \A w \in Workers : wpc[w] \in {"unborn", "done"}
        /\ registered = {} /\ active = 0

\* The right to fetch the config is a token that is in config_once, with one
\* worker, in the channel or spent, never in two places: however often workers
\* retry, no two of them ask the server, a config that is there is not asked for
\* again, and SendConfig never finds the channel full.
Asking(w) == wantConfig[w] /\ wpc[w] \in {"connect", "getconf", "sendcfg"}
ConfigAskedOnce ==
    /\ Cardinality({g \in Groups : configOnce[g]})
         + Cardinality({w \in Workers : Asking(w)}) + configCh + saves <= 1
    /\ \A w \in Workers : wpc[w] \in {"getconf", "sendcfg"} => wantConfig[w]

\* No two groups share an entry of the credentials cache: a group that is about
\* to call GetCreds finds no entry of its own, so no group ever runs on the
\* credentials that another group's sessions may have found to be invalid.
OwnCredentials ==
    \A g \in Groups :
        CacheKey(g) \in credCache => gpc[g] \in {"spawn", "join", "done"}

\* A step that drops a group's entry from the cache is a step of a session of
\* that very group which was refused, and a new session of another group never
\* pays for it.
EvictsOwnGroup ==
    [][\A g \in Groups :
          CacheKey(g) \in credCache \ credCache' =>
             \E n \in Slots : /\ wpc[<<g, n>>] \in {"getconf", "loop"}
                              /\ wpc'[<<g, n>>] \in {"fatal", "leave"}]_vars

\* Stopping reaches every task: from then on each worker ends or is in an
\* established session, whatever it was doing (waiting at a closed gate, backing
\* off, connecting, fetching the config) when the token was cancelled.
CancelDrains ==
    cancelled ~> \A w \in Workers : wpc[w] \in {"unborn", "done", "loop"}

\* If every established session is broken in the end by its peer, a cancelled
\* client stops.
StopOncePeersGone ==
    (\A w \in Workers : []<>(wpc[w] /= "loop"))
        => (cancelled ~> mainPc = "stopped")

\* A worker whose attempt failed, or whose session ended, tries again unless
\* the client is being stopped or was paused in the meantime.
RetryAfterFailure ==
    \A w \in Workers :
        wpc[w] = "backoff" ~> (wpc[w] = "connect" \/ cancelled \/ paused)

\* The client does what Lifecycle promises. A session is up from the moment it
\* is counted to the moment its slot is gone.
Lifecycle == INSTANCE Lifecycle WITH
    Sessions <- Workers,
    up       <- {w \in Workers : wpc[w] \in CountedPcs \cup RegisteredPcs},
    stopping <- cancelled,
    stopped  <- (mainPc = "stopped")

LifecycleKept == Lifecycle!Spec

\* "Получен Ctrl+C, завершаю...": a stop that was asked for is carried out.
StopCompletes == cancelled ~> mainPc = "stopped"

=============================================================================
