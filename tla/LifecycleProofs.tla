--------------------------- MODULE LifecycleProofs ---------------------------
(***************************************************************************)
(* lfsd shuts down gracefully, for any number of connections.              *)
(***************************************************************************)
EXTENDS Lifecycle, TLAPS

\* Once Shutdown has returned, no connection is left and none is accepted.
THEOREM ShutdownInvariant == Spec => []QuietAfterShutdown
<1>1. Init => QuietAfterShutdown
  BY DEF Init, QuietAfterShutdown, TypeOK
<1>2. QuietAfterShutdown /\ [Next]_vars => QuietAfterShutdown'
  <2> SUFFICES ASSUME QuietAfterShutdown, [Next]_vars PROVE QuietAfterShutdown'
    OBVIOUS
  <2> USE DEF QuietAfterShutdown, TypeOK, Exit, routines
  <2>1. CASE Start \/ Signal \/ SignalKills
    BY <2>1 DEF Start, Signal, SignalKills
  <2>2. CASE Listen \/ ServerReturns
    BY <2>2 DEF Listen, ServerReturns
  <2>3. CASE ShutdownBegins \/ ShutdownReturns
    BY <2>3 DEF ShutdownBegins, ShutdownReturns
  <2>4. ASSUME NEW c \in Conn, Accept(c) \/ RequestBegins(c) \/ RequestEnds(c) \/ ConnCloses(c)
        PROVE  QuietAfterShutdown'
    BY <2>4 DEF Accept, RequestBegins, RequestEnds, ConnCloses, Moves
  <2>5. CASE JanitorTicks \/ SweepPass \/ JanitorStops \/ JanitorPanics
    BY <2>5 DEF JanitorTicks, SweepPass, JanitorStops, JanitorPanics, JanitorMoves
  <2>6. CASE MainReturns
    BY <2>6 DEF MainReturns
  <2>7. CASE UNCHANGED vars
    BY <2>7 DEF vars
  <2> QED
    BY <2>1, <2>2, <2>3, <2>4, <2>5, <2>6, <2>7 DEF Next
<1> QED
  BY <1>1, <1>2, PTL DEF Spec

\* main returns only when no request is in progress and no sweep is under way
\* (main.go:70-103): Shutdown has returned, and so has the janitor.
THEOREM ExitIsGraceful == Spec => GracefulExit
<1>1. QuietAfterShutdown /\ [Next]_vars =>
        [proc = "running" /\ proc' \in {"exited", "failed"} =>
            /\ \A c \in Conn : conn[c] = "none"
            /\ janitor \notin {"orphan", "unreferenced"}]_vars
  <2> SUFFICES ASSUME QuietAfterShutdown, Next, proc = "running",
                      proc' \in {"exited", "failed"}
               PROVE  /\ \A c \in Conn : conn[c] = "none"
                      /\ janitor \notin {"orphan", "unreferenced"}
    OBVIOUS
  <2>1. MainReturns
    BY DEF Next, Start, Signal, SignalKills, Listen, ServerReturns, ShutdownBegins,
           ShutdownReturns, Accept, RequestBegins, RequestEnds, ConnCloses, Moves,
           JanitorTicks, SweepPass, JanitorStops, JanitorPanics, JanitorMoves
  <2> QED
    BY <2>1 DEF MainReturns, QuietAfterShutdown
<1> QED
  BY <1>1, ShutdownInvariant, PTL DEF Spec, GracefulExit
=============================================================================
