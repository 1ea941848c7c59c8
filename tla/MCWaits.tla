------------------------------ MODULE MCWaits -------------------------------
(* What waits: semaphores, the SD card's set-up and the queue of the SD     *)
(* driver.  One part per behaviour, chosen at the start: the states of the  *)
(* parts add up and do not multiply.                                        *)
EXTENDS Semaphore, SdCard, SdQueue

VARIABLE part

waitsVars == <<part, vars, sdCardVars, sdQueueVars>>

WaitsInit ==
    /\ part \in {"sem", "card", "queue"}
    /\ Init /\ SdCardInit /\ SdQueueInit
    /\ part # "card" => card.kind = "HC" /\ emmc.ver = 2

\* Calls are bounded, and the card's set-up ends: these parts may stop.
Stopped == part # "sem" /\ UNCHANGED waitsVars

WaitsNext ==
    \/ part = "sem" /\ Next /\ UNCHANGED <<part, sdCardVars, sdQueueVars>>
    \/ part = "card" /\ SdCardNext /\ UNCHANGED <<part, vars, sdQueueVars>>
    \/ part = "queue" /\ SdQueueNext /\ UNCHANGED <<part, vars, sdCardVars>>
    \/ Stopped

WaitsSpec ==
    /\ WaitsInit /\ [][WaitsNext]_waitsVars
    /\ \A p \in Procs : /\ SF_vars(part = "sem" /\ (Sleep(p) \/ Run(p) \/ Recheck(p)))
                        /\ SF_vars(part = "sem" /\ Alert(p))
    /\ WF_sdCardVars(part = "card" /\ SdDriverStep)
    /\ WF_sdQueueVars(part = "queue" /\ SdDevice)
    /\ WF_sdQueueVars(part = "queue" /\ SdqHandler)
    /\ \A t \in SdThreads : WF_sdQueueVars(part = "queue" /\ SdqThread(t))
=============================================================================
