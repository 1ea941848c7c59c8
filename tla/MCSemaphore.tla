---------------------------- MODULE MCSemaphore ----------------------------
(* Two processes, either of them killed at any time.                        *)
EXTENDS Semaphore
=============================================================================
