--------------------------- MODULE MCThreadPools ---------------------------
(***************************************************************************)
(* A FixedThreadPool of three threads that is given four jobs, and is      *)
(* initialized and shut down again and again.                              *)
(***************************************************************************)
EXTENDS FixedThreadPool

-----------------------------------------------------------------------------
\* Every job that is appended to a pool that has threads is run, purged or killed, and
\* Shutdown() returns, whatever its threads do when it is called.
PoolsLive == JobsEnd /\ ShutdownReturns

=============================================================================
