------------------------------ MODULE Lifecycle ------------------------------
(***************************************************************************)
(* The life of an lfsd process (cmd/lfsd/main.go): it starts, three        *)
(* goroutines run (the HTTP server, the one that waits to shut it down,    *)
(* and the janitor's loop), and after a signal or a failure of the server  *)
(* main waits for all three and returns.                                   *)
(***************************************************************************)
CONSTANT Conn   \* client connections

VARIABLES
    proc,       \* the process, up to its exit
    notified,   \* signal.NotifyContext's ctx is done
    caught,     \* signals are caught: stop has not been called
    http,       \* the goroutine of srv.ListenAndServe
    shutdown,   \* the goroutine of srv.Shutdown
    janitor,    \* the goroutine of Janitor.Run
    conn        \* the connections of the HTTP server

vars == <<proc, notified, caught, http, shutdown, janitor, conn>>

Exit == {"exited", "failed", "killed"}

TypeOK ==
    /\ proc \in {"config", "database", "running"} \cup Exit
    /\ notified \in BOOLEAN
    /\ caught \in BOOLEAN
    /\ http \in {"binding", "serving", "returned"}
    /\ shutdown \in {"waiting", "closing", "returned"}
    /\ janitor \in {"select", "orphan", "unreferenced", "returned", "panicked"}
    /\ conn \in [Conn -> {"none", "new", "active", "idle"}]

Init ==
    /\ proc = "config"
    /\ notified = FALSE
    /\ caught = FALSE
    /\ http = "binding"
    /\ shutdown = "waiting"
    /\ janitor = "select"
    /\ conn = [c \in Conn |-> "none"]

Ended == proc \in Exit

routines == <<http, shutdown, janitor>>

-----------------------------------------------------------------------------
\* loadConfig, then database.New; a failure of either is fatal.
Start ==
    /\ \/ /\ proc = "config"
          /\ proc' \in {"database", "failed"}
          /\ UNCHANGED caught
       \/ /\ proc = "database"
          /\ \/ proc' = "running" /\ caught' = TRUE
             \/ proc' = "failed" /\ UNCHANGED caught
    /\ UNCHANGED <<notified, routines, conn>>

\* SIGINT or SIGTERM while NotifyContext catches them.
Signal ==
    /\ ~Ended /\ caught
    /\ notified' = TRUE
    /\ UNCHANGED <<proc, caught, routines, conn>>

\* A signal before NotifyContext or after stop.
SignalKills ==
    /\ ~Ended /\ ~caught
    /\ proc' = "killed"
    /\ UNCHANGED <<notified, caught, routines, conn>>

-----------------------------------------------------------------------------
(***************************************************************************)
(* The goroutine of ListenAndServe.                                        *)
(***************************************************************************)
Listen ==
    /\ proc = "running"
    /\ http = "binding" /\ shutdown = "waiting"
    /\ http' = "serving"
    /\ UNCHANGED <<proc, notified, caught, shutdown, janitor, conn>>

\* Faulty variant of ServerReturns: only main's return calls stop.
ReturnsWithoutStop ==
    /\ proc = "running"
    /\ http # "returned"
    /\ http' = "returned"
    /\ notified' = TRUE
    /\ UNCHANGED <<proc, caught, shutdown, janitor, conn>>

\* It could not listen, its listener failed, or Shutdown was called.
ServerReturns ==
    /\ proc = "running"
    /\ http # "returned"
    /\ http' = "returned"
    /\ notified' = TRUE /\ caught' = FALSE
    /\ UNCHANGED <<proc, shutdown, janitor, conn>>

-----------------------------------------------------------------------------
(***************************************************************************)
(* The goroutine of Shutdown, which has no time limit.                     *)
(***************************************************************************)
ShutdownBegins ==
    /\ proc = "running"
    /\ shutdown = "waiting" /\ notified
    /\ shutdown' = "closing"
    /\ UNCHANGED <<proc, notified, caught, http, janitor, conn>>

\* Faulty variant of ShutdownReturns: Close in place of Shutdown.
ShutdownClosesAll ==
    /\ proc = "running"
    /\ shutdown = "closing"
    /\ shutdown' = "returned"
    /\ UNCHANGED <<proc, notified, caught, http, janitor, conn>>

ShutdownReturns ==
    /\ proc = "running"
    /\ shutdown = "closing"
    /\ \A c \in Conn : conn[c] = "none"
    /\ shutdown' = "returned"
    /\ UNCHANGED <<proc, notified, caught, http, janitor, conn>>

-----------------------------------------------------------------------------
(***************************************************************************)
(* The connections, as net/http handles them: Shutdown closes the listener *)
(* at once, an idle connection when it finds one, and one that has not     *)
(* sent anything after five seconds.                                       *)
(***************************************************************************)
Moves(c, to) ==
    /\ proc = "running"
    /\ conn' = [conn EXCEPT ![c] = to]
    /\ UNCHANGED <<proc, notified, caught, routines>>

Accept(c) == http = "serving" /\ shutdown = "waiting" /\ conn[c] = "none" /\ Moves(c, "new")

RequestBegins(c) == conn[c] \in {"new", "idle"} /\ Moves(c, "active")

\* The handler returns; the connection is kept unless the server shuts down.
RequestEnds(c) ==
    /\ conn[c] = "active"
    /\ Moves(c, IF shutdown = "waiting" THEN "idle" ELSE "none")

ConnCloses(c) == conn[c] \in {"new", "idle"} /\ Moves(c, "none")

-----------------------------------------------------------------------------
(***************************************************************************)
(* Janitor.Run.  With a tick and the end of ctx both ready, select takes   *)
(* either.  A sweep whose ctx is done fails at its next call.              *)
(***************************************************************************)
JanitorMoves(from, to) ==
    /\ proc = "running"
    /\ janitor = from /\ janitor' = to
    /\ UNCHANGED <<proc, notified, caught, http, shutdown, conn>>

JanitorTicks == JanitorMoves("select", "orphan")

\* Faulty variant of SweepPass: Run returns after a sweep.
SweepPassDies == JanitorMoves("orphan", "unreferenced") \/ JanitorMoves("unreferenced", "returned")

\* Faulty variant of SweepPass: the janitor stays in a sweep that fails.
SweepPassRetries ==
    \/ JanitorMoves("orphan", IF notified THEN "orphan" ELSE "unreferenced")
    \/ JanitorMoves("unreferenced", "select")

SweepPass == JanitorMoves("orphan", "unreferenced") \/ JanitorMoves("unreferenced", "select")

JanitorStops == notified /\ JanitorMoves("select", "returned")

\* The WaitGroup recovers the panic of a goroutine and keeps it until the end.
JanitorPanics == \E pass \in {"orphan", "unreferenced"} : JanitorMoves(pass, "panicked")

-----------------------------------------------------------------------------
\* Faulty variant of MainReturns: main waits for ListenAndServe alone.
MainWaitsForServer ==
    /\ proc = "running"
    /\ http = "returned"
    /\ proc' = IF janitor = "panicked" THEN "failed" ELSE "exited"
    /\ UNCHANGED <<notified, caught, routines, conn>>

\* WaitAndRecover returns.
MainReturns ==
    /\ proc = "running"
    /\ http = "returned" /\ shutdown = "returned" /\ janitor \in {"returned", "panicked"}
    /\ proc' = IF janitor = "panicked" THEN "failed" ELSE "exited"
    /\ UNCHANGED <<notified, caught, routines, conn>>

Next ==
    \/ Start \/ Signal \/ SignalKills
    \/ Listen \/ ServerReturns
    \/ ShutdownBegins \/ ShutdownReturns
    \/ \E c \in Conn : Accept(c) \/ RequestBegins(c) \/ RequestEnds(c) \/ ConnCloses(c)
    \/ JanitorTicks \/ SweepPass \/ JanitorStops \/ JanitorPanics
    \/ MainReturns

Spec == Init /\ [][Next]_vars

(***************************************************************************)
(* A goroutine that can go on does; the timer of the janitor fires; select *)
(* is fair to its branches, so a branch that is ready again and again is   *)
(* taken.  Shutdown closes the connections that it may close.  Nothing is  *)
(* asked of the clients: a request may last for ever.                      *)
(***************************************************************************)
Fairness ==
    /\ WF_vars(proc = "running" /\ shutdown # "waiting" /\ ServerReturns)
    /\ WF_vars(ShutdownBegins) /\ WF_vars(ShutdownReturns)
    /\ \A c \in Conn : WF_vars(shutdown # "waiting" /\ ConnCloses(c))
    /\ WF_vars(JanitorTicks) /\ WF_vars(SweepPass) /\ SF_vars(JanitorStops)
    /\ WF_vars(MainReturns)

FairSpec == Spec /\ Fairness

-----------------------------------------------------------------------------
(***************************************************************************)
(* Properties.                                                             *)
(***************************************************************************)

(***************************************************************************)
(* Once Shutdown has returned there is no connection, and none is accepted *)
(* any more although the goroutine of ListenAndServe may not have noticed. *)
(***************************************************************************)
QuietAfterShutdown ==
    /\ TypeOK
    /\ shutdown # "waiting" => notified
    /\ shutdown = "returned" => \A c \in Conn : conn[c] = "none"

(***************************************************************************)
(* When main returns no request is cut off and no sweep is under way.      *)
(***************************************************************************)
GracefulExit ==
    [][proc = "running" /\ proc' \in {"exited", "failed"} =>
            /\ \A c \in Conn : conn[c] = "none"
            /\ janitor \notin {"orphan", "unreferenced"}]_vars

(***************************************************************************)
(* After a signal, or a failure of the server, the process ends; the only  *)
(* thing that can keep it is a client whose requests do not end.           *)
(***************************************************************************)
ExitsUnlessClientsStay ==
    <>notified => <>Ended \/ <>[](\E c \in Conn : conn[c] = "active")

(***************************************************************************)
(* A process that was asked to end, and that the operator signals again    *)
(* until it is gone, ends whatever its clients do: stop has given the      *)
(* signals their default effect back.                                      *)
(***************************************************************************)
ImpatienceHelps == WF_vars(SignalKills) => (notified ~> Ended)

\* The janitor goes on sweeping for as long as nobody asks the process to end,
\* unless a sweep has panicked.
SweepsGoOn ==
    proc = "running" ~>
        ([]<>(janitor = "orphan") \/ notified \/ Ended \/ janitor = "panicked")
=============================================================================
