SPECIFICATION FairSpec
CONSTANT Conn = {c1, c2}
INVARIANT QuietAfterShutdown
PROPERTIES GracefulExit ExitsUnlessClientsStay ImpatienceHelps SweepsGoOn
CHECK_DEADLOCK FALSE
