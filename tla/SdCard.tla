------------------------------- MODULE SdCard -------------------------------
(***************************************************************************)
(* driver/sddef.h: the identification of the SD card, sdInit(), which      *)
(* sd_init() calls once at boot.  The driver talks to the EMMC controller  *)
(* through its registers: it issues one command after another, polls the   *)
(* interrupt register for the end of each, and reads the response.  The    *)
(* controller and the card are external: a command may be lost, the card   *)
(* may ignore it, the response may be damaged, may arrive after the driver *)
(* has stopped polling, or the command line may stay busy.                 *)
(*                                                                         *)
(* An interrupt or response bit is a member of a set; the clock registers  *)
(* keep their numbers.                                                     *)
(***************************************************************************)
EXTENDS Integers, FiniteSets, FiniteSetsExt

CONSTANTS Kinds,       \* kinds of card that may be in the slot: "HC", "SC", "V1"
          HostVers,    \* controller versions: 0, 1, 2 (HOST_SPEC_V1 .. V3)
          OpCondTries  \* the retries of ACMD41 (6 in the code)

VARIABLES card,     \* external: the card
          emmc,     \* the controller: its registers
          sdCard,   \* the driver's descriptor
          at,       \* the step of sdInit
          sub,      \* where the command of that step is
          tries,    \* retries left in sdAppSendOpCond
          old       \* sdInit treats the card as an old one

sdCardVars == <<card, emmc, sdCard, at, sub, tries, old>>

(***************************************************************************)
(* The entries of sdCommandTable that sdInit uses, by step: the response   *)
(* type and whether the argument is the card's relative address.           *)
(***************************************************************************)
sdCommandTable ==
    [goidle   |-> [resp |-> "NO",  rca |-> FALSE],
     ifcond   |-> [resp |-> "R7",  rca |-> FALSE],
     opcond   |-> [resp |-> "R3",  rca |-> FALSE],
     cid      |-> [resp |-> "R2",  rca |-> FALSE],
     reladdr  |-> [resp |-> "R6",  rca |-> FALSE],
     csd      |-> [resp |-> "R2",  rca |-> TRUE],
     select   |-> [resp |-> "R1",  rca |-> TRUE],
     scr      |-> [resp |-> "R1",  rca |-> FALSE],
     width    |-> [resp |-> "R1",  rca |-> FALSE],
     blocklen |-> [resp |-> "R1",  rca |-> FALSE],
     app      |-> [resp |-> "NO",  rca |-> FALSE],   \* IX_APP_CMD
     app_rca  |-> [resp |-> "R1",  rca |-> TRUE]]    \* IX_APP_CMD_RCA

AppSteps == {"opcond", "scr", "width"}      \* index >= IX_APP_CMD_START
Steps == DOMAIN sdCommandTable \ {"app", "app_rca"}
Over == {"done", "failed"}

(***************************************************************************)
(* The clock.  A word is the set of its bits.                              *)
(***************************************************************************)
Bits(n) == {i \in 0 .. 30 : (n \div 2^i) % 2 = 1}
Shl(x, k) == {i + k : i \in x}

\* One test of the ladder: no bit of x within lo .. 31 shifts x left by k.
FlsTest(xr, lo, k) ==
    IF xr[1] \cap (lo .. 31) = {} THEN <<Shl(xr[1], k), xr[2] - k>> ELSE xr

fls_long(x) ==
    IF x = {} THEN 0
    ELSE FlsTest(FlsTest(FlsTest(FlsTest(FlsTest(<<x, 32>>,
             16, 16), 24, 8), 28, 4), 30, 2), 31, 1)[2]

sdGetClockDivider(freq, ver) ==
    LET closest    == 41666666 \div freq
        raw        == fls_long(Bits(closest - 1))
        shiftcount == Min({IF raw > 0 THEN raw - 1 ELSE 0, 7})
        divisor    == Max({2, IF ver > 1 THEN closest ELSE 2^shiftcount})
        hi         == IF ver > 1 THEN ((divisor \div 256) % 4) * 64 ELSE 0
    IN  (divisor % 256) * 256 + hi

FREQ_SETUP == 400000
FREQ_NORMAL == 25000000

\* External: the frequency the controller makes of CONTROL1's divider bits.
BusFreq(cdiv) ==
    LET n == ((cdiv \div 256) % 256) + ((cdiv \div 64) % 4) * 256
    IN  41666666 \div (2 * n)

-----------------------------------------------------------------------------
Stuck == [ix |-> "stuck", hcs |-> FALSE, arg |-> 0]   \* SR_CMD_INHIBIT stays set
NoResp == [ix |-> "none", bits |-> {}, rca |-> 0]

SdCardInit ==
    /\ \E k \in Kinds :
           card = [kind |-> k, state |-> "idle", rca |-> 0, app |-> FALSE,
                   bits4 |-> FALSE]
    /\ \E v \in HostVers :
           emmc = [ver |-> v, intr |-> {}, inflight |-> {}, resp |-> NoResp,
                   cdiv |-> 0, clock |-> FALSE, bits4 |-> FALSE]
    /\ sdCard = [rca |-> 0, ocr |-> {}, type |-> "none", status |-> {},
                 support4 |-> FALSE, init |-> FALSE]
    /\ at = "start" /\ sub = "cmd" /\ tries = 0 /\ old = FALSE

(***************************************************************************)
(* External: what the card makes of a command.  Legal: the state in which  *)
(* the SD standard has the card obey it (it is silent otherwise).          *)
(***************************************************************************)
Legal(c) ==
    CASE c.ix = "goidle"                -> TRUE
      [] c.ix = "ifcond"                -> card.state = "idle" /\ card.kind # "V1"
      [] c.ix \in {"app", "app_rca"}    -> c.arg = card.rca
      [] c.ix = "opcond"                -> card.state = "idle" /\ card.app
      [] c.ix = "cid"                   -> card.state = "ready"
      [] c.ix = "reladdr"               -> card.state \in {"ident", "stby"}
      [] c.ix \in {"csd", "select"}     -> card.state = "stby" /\ c.arg = card.rca
      [] c.ix \in {"scr", "width"}      -> card.state = "tran" /\ card.app
      [] c.ix = "blocklen"              -> card.state = "tran"

\* A high capacity card completes ACMD41 only for a host that announces HCS.
MayComplete(c) == c.hcs \/ card.kind # "HC"

Obeyed(c, complete) ==
    CASE c.ix = "goidle"             -> [card EXCEPT !.state = "idle", !.rca = 0,
                                                     !.app = FALSE, !.bits4 = FALSE]
      [] c.ix \in {"app", "app_rca"} -> [card EXCEPT !.app = TRUE]
      [] c.ix = "opcond"  -> [card EXCEPT !.app = FALSE,
                                          !.state = IF complete THEN "ready" ELSE @]
      [] c.ix = "cid"     -> [card EXCEPT !.app = FALSE, !.state = "ident"]
      [] c.ix = "reladdr" -> [card EXCEPT !.app = FALSE, !.state = "stby",
                                          !.rca = 1 + (@ % 2)]
      [] c.ix = "select"  -> [card EXCEPT !.app = FALSE, !.state = "tran"]
      [] c.ix = "width"   -> [card EXCEPT !.app = FALSE, !.bits4 = TRUE]
      [] OTHER            -> [card EXCEPT !.app = FALSE]

Reply(c, complete, k) ==
    [ix |-> c.ix, rca |-> k.rca,
     bits |-> IF c.ix = "opcond"
              THEN (IF complete THEN {"COMPLETE"} ELSE {})
                   \cup (IF complete /\ card.kind = "HC" THEN {"CCS"} ELSE {})
              ELSE IF c.ix \in {"app_rca"} \cup AppSteps THEN {"APP_CMD"} ELSE {}]

\* External: the command in progress ends.
CardAnswer ==
    \E c \in emmc.inflight \ {Stuck} :
        \/ \E complete \in IF c.ix = "opcond" /\ MayComplete(c) THEN BOOLEAN ELSE {FALSE},
              damaged \in BOOLEAN :
              /\ Legal(c)
              /\ card' = Obeyed(c, complete)
              /\ emmc' = [emmc EXCEPT
                     !.inflight = @ \ {c},
                     !.resp = Reply(c, complete, card'),
                     !.intr = @ \cup {"CMD_DONE"}
                              \cup IF damaged /\ sdCommandTable[c.ix].resp # "NO"
                                   THEN {"ERR"} ELSE {}]
        \/ \* lost on its way, or ignored: no response
           /\ IF sdCommandTable[c.ix].resp = "NO"
              THEN emmc' = [emmc EXCEPT !.inflight = @ \ {c}, !.intr = @ \cup {"CMD_DONE"}]
              ELSE \E left \in {{}, {Stuck}} :
                       emmc' = [emmc EXCEPT !.inflight = (@ \ {c}) \cup left,
                                            !.intr = @ \cup {"CMD_TIMEOUT", "ERR"}]
           /\ UNCHANGED card
        \/ \* the card refuses with an error bit in its status
           /\ Legal(c) /\ sdCommandTable[c.ix].resp \in {"R1", "R6"}
           /\ emmc' = [emmc EXCEPT !.inflight = @ \ {c}, !.intr = @ \cup {"CMD_DONE"},
                                   !.resp = [ix |-> c.ix, rca |-> card.rca,
                                             bits |-> {"STATUS_ERROR"}]]
           /\ UNCHANGED card
    /\ UNCHANGED <<sdCard, at, sub, tries, old>>

-----------------------------------------------------------------------------
SdGoto(step) == at' = step /\ sub' = IF step \in AppSteps THEN "app" ELSE "cmd"
Fail == SdGoto("failed") /\ UNCHANGED <<tries, old>>

\* sdSetClock at a moment when nothing is in progress: the clock may stay
\* unstable, which is SD_ERROR_CLOCK.
SetClock(e, freq) == [e EXCEPT !.cdiv = sdGetClockDivider(freq, e.ver), !.clock = TRUE]

\* sdResetCard up to GO_IDLE_STATE; s is the descriptor it starts from.
sdResetCard(s) ==
    LET e == [emmc EXCEPT !.intr = {}, !.inflight = {}, !.bits4 = FALSE, !.clock = FALSE]
    IN  \/ emmc' = e /\ SdGoto("failed") /\ sdCard' = s                \* SD_ERROR_RESET
        \/ emmc' = SetClock(e, FREQ_SETUP) /\ SdGoto("failed") /\ sdCard' = s
        \/ /\ emmc' = SetClock(e, FREQ_SETUP)
           /\ sdCard' = [s EXCEPT !.rca = 0, !.ocr = {}, !.type = "none", !.status = {}]
           /\ SdGoto("goidle")

\* sdInit: first call, card never seen; the mailbox may not know the clock.
SdStart ==
    /\ at = "start"
    /\ \/ sdResetCard(sdCard)
       \/ SdGoto("failed") /\ UNCHANGED <<emmc, sdCard>>
    /\ UNCHANGED <<card, tries, old>>

(***************************************************************************)
(* The end of the command of step `at', with result r and descriptor s:    *)
(* what sdInit does next.                                                  *)
(***************************************************************************)
\* Mutant: the retries are not counted.
OpCondNext_Forever(s, r) ==
    IF r \notin {"OK", "TIMEOUT"}
    THEN SdGoto("failed") /\ sdCard' = s /\ UNCHANGED tries
    ELSE /\ SdGoto(IF "COMPLETE" \in s.ocr THEN "cid" ELSE "opcond")
         /\ sdCard' = s /\ UNCHANGED tries

\* sdAppSendOpCond after a response: complete, again, or give up.
OpCondNext(s, r) ==
    IF r \notin {"OK", "TIMEOUT"} \/ ("COMPLETE" \notin s.ocr /\ tries = 0)
    THEN SdGoto("failed") /\ sdCard' = s /\ UNCHANGED tries
    ELSE IF "COMPLETE" \notin s.ocr
    THEN SdGoto("opcond") /\ sdCard' = s /\ tries' = tries - 1
    ELSE \/ SdGoto("failed") /\ sdCard' = s /\ UNCHANGED tries   \* SD_ERROR_VOLTAGE
         \/ /\ SdGoto("cid") /\ UNCHANGED tries
            /\ sdCard' = [s EXCEPT !.type = IF old THEN "V1"
                                            ELSE IF "CCS" \in s.ocr THEN "HC" ELSE "SC"]

Follow == [cid |-> "reladdr", reladdr |-> "csd", select |-> "scr",
           scr |-> "scrdata", width |-> "blocklen"]

CommandDone(e, s, r) ==
    \/ /\ at = "ifcond" /\ r = "OK" /\ SdGoto("opcond") /\ tries' = OpCondTries
       /\ emmc' = e /\ sdCard' = s /\ UNCHANGED old
    \/ /\ at = "ifcond" /\ r \notin {"OK", "BUSY"} /\ old' = TRUE
       /\ IF e.inflight # {} THEN sdResetCard(s) /\ UNCHANGED tries
          ELSE SdGoto("opcond") /\ tries' = OpCondTries /\ emmc' = e /\ sdCard' = s
    \/ /\ at = "opcond" /\ OpCondNext(s, r) /\ emmc' = e /\ UNCHANGED old
    \/ /\ at = "goidle" /\ r = "OK" /\ emmc' = e /\ sdCard' = s /\ UNCHANGED old
       /\ IF old THEN SdGoto("opcond") /\ tries' = OpCondTries
          ELSE SdGoto("ifcond") /\ UNCHANGED tries
    \/ /\ at \in DOMAIN Follow /\ r = "OK" /\ SdGoto(Follow[at])
       /\ IF at = "width" THEN emmc' = [e EXCEPT !.bits4 = TRUE] ELSE emmc' = e
       /\ sdCard' = s /\ UNCHANGED <<tries, old>>
    \/ \* sdParseCSD; the file format may be refused; full speed; CARD_SELECT
       /\ at = "csd" /\ r = "OK" /\ sdCard' = s /\ UNCHANGED <<tries, old>>
       /\ \/ emmc' = e /\ SdGoto("failed")
          \/ emmc' = SetClock(e, FREQ_NORMAL) /\ SdGoto("failed")
          \/ emmc' = SetClock(e, FREQ_NORMAL) /\ SdGoto("select")
    \/ /\ at = "blocklen" /\ r = "OK" /\ SdGoto("done")
       /\ sdCard' = [s EXCEPT !.init = TRUE] /\ emmc' = e /\ UNCHANGED <<tries, old>>
    \/ /\ r # "OK" /\ at # "opcond" /\ ~(at = "ifcond" /\ r # "BUSY")
       /\ Fail /\ emmc' = e /\ sdCard' = s

\* The end of sdSendCommandP: APP_CMD leads to the command itself, whose end is
\* the end of sdSendCommand(A).
Ended(e, s, r) ==
    LET accepted == s.rca = 0 \/ "APP_CMD" \in s.status
    IN  IF sub \in {"app", "app_wait"}
        THEN IF s.rca = 0 \/ (r = "OK" /\ accepted)
             THEN sub' = "cmd" /\ emmc' = e /\ sdCard' = s /\ UNCHANGED <<at, tries, old>>
             ELSE CommandDone(e, s, IF r = "OK" THEN "ERROR" ELSE r)
        ELSE CommandDone(e, s, IF r = "OK" /\ at \in AppSteps /\ ~accepted
                               THEN "ERROR_APP_CMD" ELSE r)

-----------------------------------------------------------------------------
\* The command sdSendCommandP is given in this phase of step `at'.
Ix == IF sub \in {"app", "app_wait"}
      THEN IF sdCard.rca = 0 THEN "app" ELSE "app_rca"
      ELSE at

\* Mutant: a command line that is still busy is not waited for.
CommandIdle_ErrorOnly == "ERR" \notin emmc.intr

CommandIdle == emmc.inflight = {} /\ "ERR" \notin emmc.intr

SendWith(hcs) ==
    /\ at \in Steps /\ sub \in {"app", "cmd"}
    /\ CommandIdle
    /\ emmc' = [emmc EXCEPT !.intr = {},
           !.inflight = @ \cup {[ix |-> Ix, hcs |-> hcs,
                                 arg |-> IF sdCommandTable[Ix].rca THEN sdCard.rca ELSE 0]}]
    /\ sub' = IF sub = "app" THEN "app_wait" ELSE "wait"
    /\ UNCHANGED <<card, sdCard, at, tries, old>>

\* Mutant: HCS is announced to a card taken for an old one.
SdSend_AlwaysHCS == SendWith(TRUE)

\* sdSendCommandP up to the write of EMMC_CMDTM: every flag is cleared first;
\* ACMD41 announces high capacity support unless the card is an old one.
SdSend == SendWith(~old)

\* sdWaitForCommand gives up.
SdBusy ==
    /\ at \in Steps /\ sub \in {"app", "cmd"}
    /\ ~CommandIdle
    /\ Ended(emmc, sdCard, "BUSY")
    /\ UNCHANGED card

\* What sdSendCommandP makes of the response.
Received(resp) ==
    CASE sdCommandTable[Ix].resp = "R3" -> [sdCard EXCEPT !.ocr = resp.bits, !.status = {}]
      [] sdCommandTable[Ix].resp = "R6" -> [sdCard EXCEPT !.rca = resp.rca,
                                                          !.status = resp.bits]
      [] sdCommandTable[Ix].resp = "R1" -> [sdCard EXCEPT !.status = resp.bits]
      [] sdCommandTable[Ix].resp = "NO" -> sdCard
      [] OTHER                          -> [sdCard EXCEPT !.status = {}]

Errors(resp) ==
    IF sdCommandTable[Ix].resp \in {"R1", "R6"} /\ "STATUS_ERROR" \in resp.bits
    THEN "STATUS" ELSE "OK"

\* sdWaitForInterrupt(INT_CMD_DONE) and the response; the one second it polls
\* may end at any moment.
SdWaited ==
    /\ sub \in {"app_wait", "wait"} /\ at \in Steps
    /\ \/ Ended([emmc EXCEPT !.intr = {}], sdCard, "TIMEOUT")
       \/ /\ "ERR" \in emmc.intr
          /\ Ended([emmc EXCEPT !.intr = {}], sdCard,
                   IF "CMD_TIMEOUT" \in emmc.intr THEN "TIMEOUT" ELSE "ERROR")
       \/ /\ "CMD_DONE" \in emmc.intr /\ "ERR" \notin emmc.intr
          /\ Ended([emmc EXCEPT !.intr = @ \ {"CMD_DONE"}],
                   Received(emmc.resp), Errors(emmc.resp))
    /\ UNCHANGED card

\* sdReadSCR after SEND_SCR: READ_RDY, the two words, the bus widths; the
\* transfer leaves DATA_DONE behind.
SdReadSCR ==
    /\ at = "scrdata"
    /\ \/ Fail /\ UNCHANGED <<emmc, sdCard>>                        \* time-out
       \/ \E four \in BOOLEAN :
             /\ sdCard' = [sdCard EXCEPT !.support4 = four]
             /\ emmc' = [emmc EXCEPT !.intr = @ \cup {"DATA_DONE"}]
             /\ SdGoto(IF four THEN "width" ELSE "blocklen")
             /\ UNCHANGED <<tries, old>>
    /\ UNCHANGED card

SdCardNext == SdStart \/ SdSend \/ SdBusy \/ SdWaited \/ SdReadSCR \/ CardAnswer

SdDriverStep == SdStart \/ SdSend \/ SdBusy \/ SdWaited \/ SdReadSCR

-----------------------------------------------------------------------------
SdCardTypeOK ==
    /\ card \in [kind : Kinds, state : {"idle", "ready", "ident", "stby", "tran"},
                 rca : 0 .. 2, app : BOOLEAN, bits4 : BOOLEAN]
    /\ emmc.intr \subseteq {"CMD_DONE", "CMD_TIMEOUT", "ERR", "DATA_DONE"}
    /\ \A c \in emmc.inflight : c.ix \in DOMAIN sdCommandTable \cup {"stuck"}
    /\ emmc.clock \in BOOLEAN /\ emmc.bits4 \in BOOLEAN /\ emmc.cdiv \in 0 .. 2^16 - 1
    /\ sdCard.rca \in 0 .. 2 /\ sdCard.type \in {"none", "V1", "SC", "HC"}
    /\ at \in Steps \cup Over \cup {"start", "scrdata"}
    /\ sub \in {"app", "app_wait", "cmd", "wait"}
    /\ tries \in 0 .. OpCondTries /\ old \in BOOLEAN

\* A response the driver takes is the response to the command it is waiting
\* for, never the late answer to a command whose polling had timed out
\* (sdWaitForCommand before, clearing EMMC_INTERRUPT after).
SdResponseIsOurs ==
    (/\ sub \in {"app_wait", "wait"} /\ at \in Steps
     /\ "CMD_DONE" \in emmc.intr /\ sdCommandTable[Ix].resp # "NO")
    => emmc.resp.ix = Ix

\* sd_init ignores the result of sdInit and goes on to read block 0.  However
\* sdInit ended, a card that would accept that read is addressed in its own
\* unit: blocks exactly for a high capacity card (sd_start's bno).
SdAddressing ==
    at \in Over /\ card.state = "tran" => (sdCard.type = "HC" <=> card.kind = "HC")

\* When sdInit succeeds the card is selected under the address the driver has
\* for it, both ends of the data lines use the same width, and no interrupt is
\* pending, which sd_start panics on.
SdReady ==
    sdCard.init =>
        /\ card.state = "tran" /\ sdCard.rca = card.rca /\ emmc.clock
        /\ emmc.bits4 = card.bits4
        /\ emmc.intr = {} /\ emmc.inflight = {}

\* While the card identifies itself no command reaches it faster than
\* FREQ_SETUP, whatever divider the controller's version takes.
SdIdentClock ==
    card.state \in {"idle", "ready", "ident"} /\ emmc.inflight # {}
    => emmc.clock /\ BusFreq(emmc.cdiv) <= FREQ_SETUP

\* sdInit returns whatever the card does: every wait and every retry of it is
\* counted.
SdInitReturns == at # "start" ~> at \in Over

\* sdInit leaves a card that sd_start can use: identified at a speed it allows,
\* addressed in its own unit, and, when it reports success, selected and idle.
SdSetUp == SdCardTypeOK /\ SdReady /\ SdAddressing /\ SdIdentClock
=============================================================================
