--------------------------- MODULE IspController ----------------------------
(***************************************************************************)
(* In-system programming of a panel: programPanel and verifyPanel of       *)
(* IspController.cpp, the commands around them (handleProgramPanel,        *)
(* handleVerifyPanel and handleSetFirmwareFile of CommandProcessor.cpp),   *)
(* and a panel, which is not in this repository: it is what IspController  *)
(* relies on and no more.                                                  *)
(*                                                                         *)
(* A command is one SPI transaction that the panel may miss; its reply is  *)
(* another one, which may come too early, or spoil the reply.  A panel     *)
(* works on one command at a time, deaf meanwhile, then holds its reply    *)
(* until the next transaction, whatever that is.  It may reset at any      *)
(* time, and so may the controller.  The panel checks the session nonce    *)
(* and nothing else: it would commit whatever it holds staged.             *)
(***************************************************************************)
EXTENDS Integers

CONSTANTS
  Pages,      \* pages in an image
  Images,     \* the firmware images there are
  Corrupt,    \* content that is no image's
  Clocks,     \* what SET_SPI_CLOCK may ask for, MHz
  BootClock   \* the clock after a reset

kIspClockAMhz == 25
kIspClockBMhz == 2

ASSUME IspAssumption ==
  /\ Pages \in Nat \ {0} /\ Corrupt \notin Images /\ Images # {}
  /\ Clocks \subseteq Nat /\ BootClock \in Clocks

VARIABLES
  card,     \* /firmware/panel.bin: is it there whole, its content, and the
            \* image its footer's size and CRC are those of
  asked,    \* the clock the host asked for
  mhz,      \* spi_clock_hz_
  op,       \* the ISP command in progress, or "idle"
  phase,    \* "send" (phase A) or "read" (phase B)
  job,      \* "program" or "verify"
  attempt,  \* of ISP_ENTER
  page,     \* the page of ISP_WRITE_PAGE
  saved,    \* saved_mhz
  fresh,    \* session_nonce_ is the nonce of the panel's session
  panel,    \* the panel: external
  result,   \* what the last command answered
  mine,     \* history: the COMMIT the panel works on is of this command
  took      \* history: the panel carried out the COMMIT of this command

vars == <<card, asked, mhz, op, phase, job, attempt, page, saved, fresh, panel, result, mine, took>>
ctl  == <<op, phase, job, attempt, page, saved>>

Ops      == {"ISP_ENTER", "ISP_WRITE_PAGE", "ISP_VERIFY_STAGED", "ISP_COMMIT",
             "ISP_VERIFY_CRC", "COMM_CHECK"}
Contents == Images \cup {Corrupt}
Whole(i) == [p \in 1 .. Pages |-> i]

Files    == [whole : BOOLEAN, body : Contents, crc : Images]
Intact   == {f \in Files : f.whole /\ f.body = f.crc}
Damaged  == {f \in Files : f.whole /\ f.body = Corrupt}
Results  == {"none", "done", "failed", "unsure", "match", "differs"}
Panels   == [st : {"listen", "busy", "armed", "off"}, op : Ops, page : 1 .. Pages,
             body : Contents, crc : Contents, ok : BOOLEAN, checked : BOOLEAN,
             staged : [1 .. Pages -> Contents], app : [1 .. Pages -> Contents],
             ota : [1 .. Pages -> Contents]]

Init ==
  /\ card \in Intact
  /\ asked = BootClock /\ mhz = BootClock /\ saved = BootClock
  /\ op = "idle" /\ phase = "send" /\ job = "verify" /\ attempt = 1 /\ page = 1
  /\ fresh = FALSE /\ result = "none" /\ mine = FALSE /\ took = FALSE
  /\ panel = [st |-> "listen", op |-> "COMM_CHECK", page |-> 1, body |-> Corrupt,
              crc |-> Corrupt, ok |-> FALSE, checked |-> FALSE, staged |-> Whole(Corrupt),
              app |-> Whole(card.crc), ota |-> Whole(card.crc)]

-----------------------------------------------------------------------------
(***************************************************************************)
(* Between the ISP commands.                                               *)
(***************************************************************************)
\* SET_FIRMWARE_FILE: a file, damaged or not; none, when it fails, or a part of
\* one, when the controller is reset meanwhile: neither has a footer.
SetFirmwareFile ==
  /\ op = "idle"
  /\ card' \in Intact \cup Damaged \cup {[card EXCEPT !.whole = FALSE, !.body = Corrupt]}
  /\ result' = "none" /\ mine' = FALSE /\ took' = FALSE
  /\ UNCHANGED <<asked, mhz, ctl, fresh, panel>>

SetSpiClock ==
  /\ op = "idle"
  /\ \E c \in Clocks : mhz' = c /\ asked' = c
  /\ UNCHANGED <<card, ctl, fresh, panel, result, mine, took>>

\* A watchdog or power reset.
Reset ==
  /\ mhz' = BootClock /\ asked' = BootClock
  /\ op' = "idle" /\ fresh' = FALSE /\ result' = "none" /\ mine' = FALSE /\ took' = FALSE
  /\ job' = "verify" /\ phase' = "send" /\ attempt' = 1 /\ page' = 1
  /\ UNCHANGED <<card, saved, panel>>

\* What a transaction does to a panel that holds a reply: it is gone.
Clocked(p) ==
  IF p.st = "armed" THEN [p EXCEPT !.st = "listen", !.op = "COMM_CHECK", !.ok = FALSE] ELSE p

DisplayFrame ==
  /\ op = "idle" /\ panel' = Clocked(panel)
  /\ UNCHANGED <<card, asked, mhz, ctl, fresh, result, mine, took>>

-----------------------------------------------------------------------------
(***************************************************************************)
(* The steps of programPanel and verifyPanel.                              *)
(***************************************************************************)
\* A file that does not open, is too small or has no footer is refused before
\* anything else is touched, and so is a panel that is not in the map.
Refused ==
  /\ op = "idle"
  /\ result' = "failed" /\ mine' = FALSE /\ took' = FALSE
  /\ UNCHANGED <<card, asked, mhz, ctl, fresh, panel>>

Begin(j) ==
  /\ op = "idle" /\ card.whole
  /\ job' = j /\ saved' = mhz /\ mhz' = kIspClockBMhz
  /\ op' = "ISP_ENTER" /\ phase' = "send" /\ attempt' = 1 /\ page' = 1
  /\ result' = "none" /\ mine' = FALSE /\ took' = FALSE
  /\ UNCHANGED <<card, asked, fresh, panel>>

programPanel == Begin("program")
verifyPanel  == Begin("verify")

\* Mutant: the clock is not restored.
finishKeepsClock(r) ==
  /\ op' = "idle" /\ phase' = "send" /\ result' = r
  /\ mhz' = (IF r = "failed" THEN kIspClockBMhz ELSE saved)
  /\ job' = "verify" /\ attempt' = 1 /\ page' = 1 /\ UNCHANGED saved

\* Every break of the do-while(false) restores the clock; the locals are gone.
finish(r) ==
  /\ op' = "idle" /\ phase' = "send" /\ result' = r /\ mhz' = saved
  /\ job' = "verify" /\ attempt' = 1 /\ page' = 1 /\ UNCHANGED saved

goto(o) ==
  /\ op' = o /\ phase' = "send" /\ mhz' = kIspClockBMhz
  /\ UNCHANGED <<job, attempt, saved, result>>

\* Phase A: the panel takes the command if it listens, or misses it.
sendCmd ==
  /\ op \notin {"idle", "COMM_CHECK"} /\ phase = "send"
  /\ mhz' = kIspClockAMhz /\ phase' = "read"
  /\ \/ panel' = Clocked(panel) /\ UNCHANGED mine
     \/ /\ panel.st = "listen"
        /\ panel' = [panel EXCEPT !.st = "busy", !.op = op, !.page = page,
                                  !.body = card.body, !.crc = card.crc, !.checked = FALSE]
        /\ mine' = (op = "ISP_COMMIT")
  /\ UNCHANGED <<card, asked, op, job, attempt, page, saved, fresh, result, took>>

SdReadError ==
  /\ op = "ISP_WRITE_PAGE" /\ phase = "send" /\ finish("failed")
  /\ UNCHANGED <<card, asked, fresh, panel, mine, took>>

\* The replies of one length: a reply to another command can be taken for this
\* one's only if they are as long.
ReplyLen(o) ==
  CASE o = "ISP_ENTER" -> 19 [] o \in {"ISP_WRITE_PAGE", "ISP_COMMIT"} -> 2
    [] o \in {"ISP_VERIFY_STAGED", "ISP_VERIFY_CRC"} -> 6 [] OTHER -> 3

\* Phase B: a reply whose CRC-8 validates, or none.
readResp(got) ==
  /\ op \notin {"idle", "COMM_CHECK"} /\ phase = "read"
  /\ got => panel.st = "armed" /\ ReplyLen(panel.op) = ReplyLen(op)
  /\ panel' = Clocked(panel)

\* The reply of ISP_ENTER brings the nonce.
EnterReply ==
  /\ op = "ISP_ENTER" /\ readResp(TRUE)
  /\ IF panel.ok
     THEN /\ fresh' = TRUE /\ page' = 1
          /\ goto(IF job = "program" THEN "ISP_WRITE_PAGE" ELSE "ISP_VERIFY_CRC")
     ELSE finish("failed") /\ UNCHANGED fresh
  /\ UNCHANGED <<card, asked, mine, took>>

\* Mutant: ISP_ENTER is retried for ever.
EnterSilentForever ==
  /\ op = "ISP_ENTER" /\ readResp(FALSE)
  /\ goto("ISP_ENTER") /\ UNCHANGED page
  /\ UNCHANGED <<card, asked, fresh, mine, took>>

\* One retry.
EnterSilent ==
  /\ op = "ISP_ENTER" /\ readResp(FALSE)
  /\ IF attempt = 1
     THEN /\ attempt' = 2 /\ phase' = "send" /\ mhz' = kIspClockBMhz
          /\ UNCHANGED <<op, job, page, saved, result>>
     ELSE finish("failed")
  /\ UNCHANGED <<card, asked, fresh, mine, took>>

PageReply ==
  /\ op = "ISP_WRITE_PAGE" /\ readResp(TRUE) /\ panel.ok
  /\ IF page < Pages THEN page' = page + 1 /\ goto("ISP_WRITE_PAGE")
     ELSE UNCHANGED page /\ goto("ISP_VERIFY_STAGED")
  /\ UNCHANGED <<card, asked, fresh, mine, took>>

\* A page is never sent twice.
PageFailed ==
  /\ op = "ISP_WRITE_PAGE" /\ (readResp(FALSE) \/ (readResp(TRUE) /\ ~panel.ok))
  /\ finish("failed")
  /\ UNCHANGED <<card, asked, fresh, mine, took>>

\* Mutant: the status of ISP_VERIFY_STAGED is not looked at.
StagedReplyUnchecked ==
  /\ op = "ISP_VERIFY_STAGED" /\ readResp(TRUE)
  /\ goto("ISP_COMMIT") /\ UNCHANGED page
  /\ UNCHANGED <<card, asked, fresh, mine, took>>

StagedReply ==
  /\ op = "ISP_VERIFY_STAGED" /\ readResp(TRUE)
  /\ IF panel.ok THEN goto("ISP_COMMIT") /\ UNCHANGED page ELSE finish("failed")
  /\ UNCHANGED <<card, asked, fresh, mine, took>>

CommitReply ==
  /\ op = "ISP_COMMIT" /\ readResp(TRUE)
  /\ IF panel.ok THEN goto("COMM_CHECK") /\ UNCHANGED page ELSE finish("failed")
  /\ UNCHANGED <<card, asked, fresh, mine, took>>

CrcReply ==
  /\ op = "ISP_VERIFY_CRC" /\ readResp(TRUE)
  /\ finish(IF panel.ok THEN "match" ELSE "differs")
  /\ UNCHANGED <<card, asked, fresh, mine, took>>

\* pollResp: a poll that brings nothing, and the one that is the last.
Polled == {"ISP_VERIFY_STAGED", "ISP_COMMIT", "ISP_VERIFY_CRC"}

Poll ==
  /\ op \in Polled /\ readResp(FALSE) /\ mhz' = kIspClockBMhz
  /\ UNCHANGED <<card, asked, ctl, fresh, result, mine, took>>

\* Mutant: a COMMIT without a receipt is a failure.
PollTimeoutFails ==
  /\ op \in Polled /\ readResp(FALSE) /\ finish("failed")
  /\ UNCHANGED <<card, asked, fresh, mine, took>>

PollTimeout ==
  /\ op \in Polled /\ readResp(FALSE)
  /\ finish(IF op = "ISP_COMMIT" THEN "unsure" ELSE "failed")
  /\ UNCHANGED <<card, asked, fresh, mine, took>>

\* pollPanelAlive: a COMM_CHECK that the panel takes is confirmed in the next.
AlivePoll ==
  /\ op = "COMM_CHECK" /\ mhz' = kIspClockBMhz
  /\ panel' = [Clocked(panel) EXCEPT !.checked = @ \/ panel.st = "listen"]
  /\ UNCHANGED <<card, asked, ctl, fresh, result, mine, took>>

AliveReply ==
  /\ op = "COMM_CHECK" /\ panel.st = "listen" /\ panel.checked
  /\ finish("done")
  /\ UNCHANGED <<card, asked, fresh, panel, mine, took>>

AliveTimeout ==
  /\ op = "COMM_CHECK" /\ finish("unsure")
  /\ UNCHANGED <<card, asked, fresh, panel, mine, took>>

-----------------------------------------------------------------------------
(***************************************************************************)
(* The panel.                                                              *)
(***************************************************************************)
Armed(ok) ==
  [panel EXCEPT !.st = "armed", !.ok = ok, !.page = 1, !.body = Corrupt, !.crc = Corrupt]

\* A command may be refused whatever it is; one of another session always is.
Decline ==
  /\ panel.st = "busy" /\ panel' = Armed(FALSE) /\ mine' = FALSE
  /\ UNCHANGED <<card, asked, mhz, ctl, fresh, result, took>>

\* ISP_ENTER begins a session under a new nonce.
Enter ==
  /\ panel.st = "busy" /\ panel.op = "ISP_ENTER"
  /\ panel' = Armed(TRUE) /\ fresh' = FALSE
  /\ UNCHANGED <<card, asked, mhz, ctl, result, mine, took>>

Stage ==
  /\ panel.st = "busy" /\ panel.op = "ISP_WRITE_PAGE" /\ fresh
  /\ panel' = [Armed(TRUE) EXCEPT !.staged[panel.page] = panel.body]
  /\ UNCHANGED <<card, asked, mhz, ctl, fresh, result, mine, took>>

VerifyStaged ==
  /\ panel.st = "busy" /\ panel.op = "ISP_VERIFY_STAGED" /\ fresh
  /\ panel.staged = Whole(panel.crc) /\ panel' = Armed(TRUE)
  /\ UNCHANGED <<card, asked, mhz, ctl, fresh, result, mine, took>>

Commit ==
  /\ panel.st = "busy" /\ panel.op = "ISP_COMMIT" /\ fresh
  /\ panel' = [Armed(TRUE) EXCEPT !.ota = panel.staged]
  /\ took' = (took \/ mine) /\ mine' = FALSE
  /\ UNCHANGED <<card, asked, mhz, ctl, fresh, result>>

VerifyCrc ==
  /\ panel.st = "busy" /\ panel.op = "ISP_VERIFY_CRC" /\ fresh
  /\ panel.app = Whole(panel.crc) /\ panel' = Armed(TRUE)
  /\ UNCHANGED <<card, asked, mhz, ctl, fresh, result, mine, took>>

\* A reset, after a commit or of itself; what was staged is lost.
PanelOff ==
  /\ panel.st # "off"
  /\ panel' = [Armed(FALSE) EXCEPT !.st = "off", !.op = "COMM_CHECK", !.checked = FALSE,
                                   !.staged = Whole(Corrupt)]
  /\ fresh' = FALSE /\ mine' = FALSE
  /\ UNCHANGED <<card, asked, mhz, ctl, result, took>>

\* The stub at boot installs what was committed.
PanelBoot ==
  /\ panel.st = "off"
  /\ panel' = [panel EXCEPT !.st = "listen", !.app = panel.ota]
  /\ UNCHANGED <<card, asked, mhz, ctl, fresh, result, mine, took>>

-----------------------------------------------------------------------------
Controller ==
  \/ sendCmd \/ SdReadError \/ EnterReply \/ EnterSilent \/ PageReply \/ PageFailed
  \/ StagedReply \/ CommitReply \/ CrcReply \/ Poll \/ PollTimeout
  \/ AlivePoll \/ AliveReply \/ AliveTimeout

Panel == Decline \/ Enter \/ Stage \/ VerifyStaged \/ Commit \/ VerifyCrc \/ PanelOff \/ PanelBoot

Next ==
  \/ SetFirmwareFile \/ SetSpiClock \/ Reset \/ DisplayFrame
  \/ Refused \/ programPanel \/ verifyPanel
  \/ Controller \/ Panel

\* The controller goes on and its clock ticks; nothing is assumed of the panel.
Fairness == WF_vars(Controller) /\ WF_vars(PollTimeout) /\ WF_vars(AliveTimeout)

Spec == Init /\ [][Next]_vars /\ Fairness

-----------------------------------------------------------------------------
(***************************************************************************)
(* Properties.                                                             *)
(***************************************************************************)
\* Every variable has its type; a page number never leaves the image (the page
\* loop of programPanel).
TypeOK ==
  /\ card \in Files /\ {asked, saved} \subseteq Clocks
  /\ mhz \in Clocks \cup {kIspClockAMhz, kIspClockBMhz}
  /\ op \in Ops \cup {"idle"} /\ phase \in {"send", "read"} /\ job \in {"program", "verify"}
  /\ attempt \in {1, 2} /\ page \in 1 .. Pages
  /\ fresh \in BOOLEAN /\ panel \in Panels /\ result \in Results
  /\ mine \in BOOLEAN /\ took \in BOOLEAN

\* A panel is never made to run, nor left to boot, anything but a whole image
\* whose CRC a footer gave: not a part of one, not one damaged on the card or on
\* the way, not a mixture of two, although the panel would commit any of them
\* (ISP_VERIFY_STAGED and its status before ISP_COMMIT, one session throughout).
NeverBricked ==
  \E i, j \in Images : panel.app = Whole(i) /\ panel.ota = Whole(j)

\* Outside of an ISP command the bus runs at the clock the host asked for, after
\* whatever error path (the restore at the end of programPanel and verifyPanel).
ClockRestored == op = "idle" => mhz = asked

\* What the answer says is true of the panel when it is given: "flashed" only
\* if it took the image of the card, a plain failure only if it did not and has
\* no COMMIT left to carry out, a match only if it runs the image of the card.
ReportIsTrue ==
  [][op # "idle" /\ op' = "idle" =>
       CASE result' = "done"    -> took /\ Whole(card.crc) \in {panel.app, panel.ota}
         [] result' = "failed"  -> ~took /\ ~mine
         [] result' = "match"   -> panel.app = Whole(card.crc)
         [] OTHER               -> TRUE]_vars

\* Every ISP command ends, whatever the panel does (the one retry of ISP_ENTER,
\* the deadlines of pollResp and pollPanelAlive).
CommandEnds == op # "idle" ~> op = "idle"

\* After whichever error path, the state an ISP command leaves is a legal one and
\* the bus is back at the clock the host asked for.
IspSound == TypeOK /\ ClockRestored
=============================================================================
