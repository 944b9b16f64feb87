------------------------ MODULE IspControllerProofs -------------------------
(***************************************************************************)
(* The safety of IspController for every number of pages, every set of     *)
(* images and clocks, and every panel that behaves as the module says: the *)
(* type invariant, then what ties the controller's place in its sequence   *)
(* to what the panel works on, holds staged and has committed.             *)
(***************************************************************************)
EXTENDS IspController, TLAPS

Session == {"ISP_WRITE_PAGE", "ISP_VERIFY_STAGED", "ISP_COMMIT", "ISP_VERIFY_CRC"}
Wholes  == {Whole(i) : i \in Images}

\* Where the clock to be restored is kept.
ClockInv == (op = "idle" => mhz = asked) /\ (op # "idle" => saved = asked)

\* Within a session the panel works on the controller's command, or on none.
TalkInv ==
  /\ op = "COMM_CHECK" => panel.st \in {"listen", "off"}
  /\ op \in Session /\ phase = "send" => panel.st \in {"listen", "off"}
  /\ op \in Session /\ phase = "read" /\ panel.st \notin {"listen", "off"} =>
       panel.op = op /\ (panel.st = "busy" => panel.crc = card.crc)

\* What is verified stays as it was until it is committed.
StagedInv ==
  /\ op = "ISP_VERIFY_STAGED" /\ phase = "read" /\ panel.st = "armed" /\ panel.ok =>
       panel.staged = Whole(card.crc)
  /\ op = "ISP_COMMIT" /\ fresh => panel.staged = Whole(card.crc)
  /\ panel.st = "busy" /\ panel.op = "ISP_COMMIT" /\ fresh => panel.staged \in Wholes
  /\ panel.app \in Wholes /\ panel.ota \in Wholes

\* What the controller may conclude from a reply.
ReplyInv ==
  /\ took => op \in {"idle", "ISP_COMMIT", "COMM_CHECK"} /\ (op = "ISP_COMMIT" => phase = "read")
  /\ mine => op \in {"idle", "ISP_COMMIT"} /\ panel.st = "busy" /\ panel.op = "ISP_COMMIT"
  /\ op = "ISP_COMMIT" /\ phase = "read" /\ panel.st = "busy" => mine /\ ~took
  /\ op = "ISP_COMMIT" /\ phase = "read" /\ panel.st = "armed" =>
       IF panel.ok THEN took /\ panel.ota = Whole(card.crc) ELSE ~took
  /\ op = "COMM_CHECK" => took /\ panel.ota = Whole(card.crc)
  /\ op = "ISP_VERIFY_CRC" /\ phase = "read" /\ panel.st = "armed" /\ panel.ok =>
       panel.app = Whole(card.crc)

-----------------------------------------------------------------------------
(***************************************************************************)
(* What the operators on a panel leave of it.                              *)
(***************************************************************************)
LEMMA WholeType == \A c \in Contents : Whole(c) \in [1 .. Pages -> Contents]
  BY DEF Whole

LEMMA ClockedResult ==
  ASSUME NEW p \in Panels
  PROVE  /\ Clocked(p) \in Panels
         /\ Clocked(p).st = IF p.st = "armed" THEN "listen" ELSE p.st
         /\ p.st # "armed" => Clocked(p) = p
         /\ Clocked(p).staged = p.staged /\ Clocked(p).app = p.app /\ Clocked(p).ota = p.ota
<1>1. CASE p.st = "armed"
  BY <1>1 DEF Clocked, Panels, Ops
<1>2. CASE p.st # "armed"
  BY <1>2 DEF Clocked
<1>. QED
  BY <1>1, <1>2

LEMMA ArmedResult ==
  ASSUME panel \in Panels, NEW ok \in BOOLEAN
  PROVE  /\ Armed(ok) \in Panels
         /\ Armed(ok).st = "armed" /\ Armed(ok).ok = ok /\ Armed(ok).op = panel.op
         /\ Armed(ok).staged = panel.staged /\ Armed(ok).app = panel.app /\ Armed(ok).ota = panel.ota
<1>1. Corrupt \in Contents /\ 1 \in 1 .. Pages
  BY IspAssumption DEF Contents
<1>. QED
  BY <1>1 DEF Armed, Panels

LEMMA FinishResult ==
  ASSUME NEW r \in Results, finish(r), TypeOK
  PROVE  /\ op' = "idle" /\ phase' = "send" /\ result' = r /\ mhz' = saved /\ saved' = saved
         /\ job' \in {"program", "verify"} /\ attempt' \in {1, 2} /\ page' \in 1 .. Pages
  BY IspAssumption DEF finish, TypeOK

LEMMA GotoResult ==
  ASSUME NEW o, goto(o)
  PROVE  /\ op' = o /\ phase' = "send" /\ mhz' = kIspClockBMhz
         /\ UNCHANGED <<job, attempt, saved, result>>
  BY DEF goto

LEMMA ReadResult ==
  ASSUME TypeOK, NEW got \in BOOLEAN, readResp(got)
  PROVE  /\ op \in Ops \ {"COMM_CHECK"} /\ phase = "read"
         /\ panel' \in Panels
         /\ got => panel.st = "armed" /\ ReplyLen(panel.op) = ReplyLen(op)
         /\ panel'.st = IF panel.st = "armed" THEN "listen" ELSE panel.st
         /\ panel.st # "armed" => panel' = panel
         /\ panel'.staged = panel.staged /\ panel'.app = panel.app /\ panel'.ota = panel.ota
  BY ClockedResult DEF readResp, TypeOK

-----------------------------------------------------------------------------
(***************************************************************************)
(* The type invariant.                                                     *)
(***************************************************************************)
LEMMA TypeStep == TypeOK /\ ClockInv /\ [Next]_vars => TypeOK' /\ ClockInv'
<1>. SUFFICES ASSUME TypeOK, ClockInv, [Next]_vars PROVE TypeOK' /\ ClockInv'
  OBVIOUS
<1>. USE IspAssumption
<1>1. CASE SetFirmwareFile
  <2>1. card' \in Files
    <3>1. CASE card' \in Intact \cup Damaged
      BY <3>1 DEF Intact, Damaged
    <3>2. CASE card' = [card EXCEPT !.whole = FALSE, !.body = Corrupt]
      BY <3>2 DEF TypeOK, Files, Contents
    <3>. QED
      BY <1>1, <3>1, <3>2 DEF SetFirmwareFile
  <2>. QED
    BY <1>1, <2>1 DEF SetFirmwareFile, TypeOK, ClockInv, Results, ctl
<1>2. CASE SetSpiClock
  <2>1. PICK c \in Clocks : mhz' = c /\ asked' = c
    BY <1>2 DEF SetSpiClock
  <2>. QED
    BY <1>2, <2>1 DEF SetSpiClock, TypeOK, ClockInv, ctl
<1>3. CASE Reset
  <2>1. page' \in 1 .. Pages
    BY <1>3 DEF Reset
  <2>. QED
    BY <1>3, <2>1 DEF Reset, TypeOK, ClockInv, Results
<1>4. CASE DisplayFrame
  <2>1. panel' \in Panels
    BY <1>4, ClockedResult DEF DisplayFrame, TypeOK
  <2>. QED
    BY <1>4, <2>1 DEF DisplayFrame, TypeOK, ClockInv, ctl
<1>5. CASE Refused
  BY <1>5 DEF Refused, TypeOK, ClockInv, Results, ctl
<1>6. CASE programPanel \/ verifyPanel
  <2>1. page' \in 1 .. Pages /\ saved' \in Clocks
    BY <1>6 DEF programPanel, verifyPanel, Begin, TypeOK, ClockInv
  <2>. QED
    BY <1>6, <2>1 DEF programPanel, verifyPanel, Begin, TypeOK, ClockInv, Results, Ops
<1>7. CASE sendCmd
  <2>1. panel' \in Panels
    <3>1. CASE panel' = Clocked(panel)
      BY <3>1, ClockedResult DEF TypeOK
    <3>2. CASE panel' = [panel EXCEPT !.st = "busy", !.op = op, !.page = page,
                             !.body = card.body, !.crc = card.crc, !.checked = FALSE]
      BY <3>2, <1>7 DEF sendCmd, TypeOK, Panels, Files, Contents
    <3>. QED
      BY <1>7, <3>1, <3>2 DEF sendCmd
  <2>2. mine' \in BOOLEAN
    BY <1>7 DEF sendCmd, TypeOK
  <2>. QED
    BY <1>7, <2>1, <2>2 DEF sendCmd, TypeOK, ClockInv
<1>8. CASE SdReadError
  <2>1. finish("failed")
    BY <1>8 DEF SdReadError
  <2>. QED
    BY <1>8, <2>1, FinishResult DEF SdReadError, TypeOK, ClockInv, Results
<1>9. CASE EnterReply
  <2>1. readResp(TRUE)
    BY <1>9 DEF EnterReply
  <2>2. panel' \in Panels
    BY <2>1, ReadResult
  <2>3. CASE panel.ok
    <3>1. goto("ISP_WRITE_PAGE") \/ goto("ISP_VERIFY_CRC")
      BY <1>9, <2>3 DEF EnterReply
    <3>. QED
      BY <1>9, <2>2, <2>3, <3>1, GotoResult DEF EnterReply, TypeOK, ClockInv, Ops
  <2>4. CASE ~panel.ok
    <3>1. finish("failed")
      BY <1>9, <2>4 DEF EnterReply
    <3>. QED
      BY <1>9, <2>2, <2>4, <3>1, FinishResult DEF EnterReply, TypeOK, ClockInv, Results
  <2>. QED
    BY <2>3, <2>4
<1>10. CASE EnterSilent
  <2>1. readResp(FALSE)
    BY <1>10 DEF EnterSilent
  <2>2. panel' \in Panels
    BY <2>1, ReadResult
  <2>3. CASE attempt = 1
    BY <1>10, <2>2, <2>3 DEF EnterSilent, TypeOK, ClockInv
  <2>4. CASE attempt # 1
    <3>1. finish("failed")
      BY <1>10, <2>4 DEF EnterSilent
    <3>. QED
      BY <1>10, <2>2, <2>4, <3>1, FinishResult DEF EnterSilent, TypeOK, ClockInv, Results
  <2>. QED
    BY <2>3, <2>4
<1>11. CASE PageReply
  <2>1. readResp(TRUE)
    BY <1>11 DEF PageReply
  <2>2. panel' \in Panels
    BY <2>1, ReadResult
  <2>3. CASE page < Pages
    BY <1>11, <2>2, <2>3, GotoResult DEF PageReply, TypeOK, ClockInv, Ops
  <2>4. CASE ~(page < Pages)
    BY <1>11, <2>2, <2>4, GotoResult DEF PageReply, TypeOK, ClockInv, Ops
  <2>. QED
    BY <2>3, <2>4
<1>12. CASE PageFailed
  <2>1. (readResp(FALSE) \/ readResp(TRUE)) /\ finish("failed")
    BY <1>12 DEF PageFailed
  <2>2. panel' \in Panels
    BY <2>1, ReadResult
  <2>. QED
    BY <1>12, <2>1, <2>2, FinishResult DEF PageFailed, TypeOK, ClockInv, Results
<1>13. CASE StagedReply
  <2>1. readResp(TRUE)
    BY <1>13 DEF StagedReply
  <2>2. panel' \in Panels
    BY <2>1, ReadResult
  <2>3. CASE panel.ok
    BY <1>13, <2>2, <2>3, GotoResult DEF StagedReply, TypeOK, ClockInv, Ops
  <2>4. CASE ~panel.ok
    <3>1. finish("failed")
      BY <1>13, <2>4 DEF StagedReply
    <3>. QED
      BY <1>13, <2>2, <2>4, <3>1, FinishResult DEF StagedReply, TypeOK, ClockInv, Results
  <2>. QED
    BY <2>3, <2>4
<1>14. CASE CommitReply
  <2>1. readResp(TRUE)
    BY <1>14 DEF CommitReply
  <2>2. panel' \in Panels
    BY <2>1, ReadResult
  <2>3. CASE panel.ok
    BY <1>14, <2>2, <2>3, GotoResult DEF CommitReply, TypeOK, ClockInv, Ops
  <2>4. CASE ~panel.ok
    <3>1. finish("failed")
      BY <1>14, <2>4 DEF CommitReply
    <3>. QED
      BY <1>14, <2>2, <2>4, <3>1, FinishResult DEF CommitReply, TypeOK, ClockInv, Results
  <2>. QED
    BY <2>3, <2>4
<1>15. CASE CrcReply
  <2>1. /\ readResp(TRUE) /\ (finish("match") \/ finish("differs"))
        /\ UNCHANGED <<card, asked, fresh, mine, took>>
    BY <1>15 DEF CrcReply
  <2>2. panel' \in Panels /\ op # "idle"
    BY <2>1, ReadResult DEF Ops
  <2>3. /\ op' = "idle" /\ phase' = "send" /\ result' \in Results /\ mhz' = saved /\ saved' = saved
        /\ job' \in {"program", "verify"} /\ attempt' \in {1, 2} /\ page' \in 1 .. Pages
    BY <2>1, FinishResult DEF Results
  <2>. QED
    BY <2>1, <2>2, <2>3 DEF TypeOK, ClockInv, Results
<1>16. CASE Poll
  <2>1. readResp(FALSE)
    BY <1>16 DEF Poll
  <2>2. panel' \in Panels /\ op # "idle"
    BY <2>1, ReadResult DEF Ops
  <2>. QED
    BY <1>16, <2>2 DEF Poll, TypeOK, ClockInv, ctl
<1>17. CASE PollTimeout
  <2>1. /\ readResp(FALSE) /\ (finish("unsure") \/ finish("failed"))
        /\ UNCHANGED <<card, asked, fresh, mine, took>>
    BY <1>17 DEF PollTimeout
  <2>2. panel' \in Panels /\ op # "idle"
    BY <2>1, ReadResult DEF Ops
  <2>3. /\ op' = "idle" /\ phase' = "send" /\ result' \in Results /\ mhz' = saved /\ saved' = saved
        /\ job' \in {"program", "verify"} /\ attempt' \in {1, 2} /\ page' \in 1 .. Pages
    BY <2>1, FinishResult DEF Results
  <2>. QED
    BY <2>1, <2>2, <2>3 DEF TypeOK, ClockInv, Results
<1>18. CASE AlivePoll
  <2>1. panel' \in Panels
    <3>1. Clocked(panel) \in Panels
      BY ClockedResult DEF TypeOK
    <3>2. panel' = [Clocked(panel) EXCEPT !.checked = Clocked(panel).checked \/ panel.st = "listen"]
      BY <1>18 DEF AlivePoll
    <3>3. (Clocked(panel).checked \/ panel.st = "listen") \in BOOLEAN
      OBVIOUS
    <3>. QED
      BY <3>1, <3>2, <3>3 DEF Panels
  <2>. QED
    BY <1>18, <2>1 DEF AlivePoll, TypeOK, ClockInv, ctl
<1>19. CASE AliveReply
  <2>1. finish("done")
    BY <1>19 DEF AliveReply
  <2>. QED
    BY <1>19, <2>1, FinishResult DEF AliveReply, TypeOK, ClockInv, Results
<1>20. CASE AliveTimeout
  <2>1. finish("unsure")
    BY <1>20 DEF AliveTimeout
  <2>. QED
    BY <1>20, <2>1, FinishResult DEF AliveTimeout, TypeOK, ClockInv, Results
<1>21. CASE Decline
  BY <1>21, ArmedResult DEF Decline, TypeOK, ClockInv, ctl
<1>22. CASE Enter
  BY <1>22, ArmedResult DEF Enter, TypeOK, ClockInv, ctl
<1>23. CASE Stage
  <2>1. panel' = [Armed(TRUE) EXCEPT !.staged[panel.page] = panel.body]
    BY <1>23 DEF Stage
  <2>2. Armed(TRUE) \in Panels /\ panel.page \in 1 .. Pages /\ panel.body \in Contents
    BY ArmedResult DEF TypeOK, Panels
  <2>3. panel' \in Panels
    BY <2>1, <2>2 DEF Panels
  <2>. QED
    BY <1>23, <2>3 DEF Stage, TypeOK, ClockInv, ctl
<1>24. CASE VerifyStaged
  BY <1>24, ArmedResult DEF VerifyStaged, TypeOK, ClockInv, ctl
<1>25. CASE Commit
  <2>1. panel' = [Armed(TRUE) EXCEPT !.ota = panel.staged]
    BY <1>25 DEF Commit
  <2>2. Armed(TRUE) \in Panels /\ panel.staged \in [1 .. Pages -> Contents]
    BY ArmedResult DEF TypeOK, Panels
  <2>3. panel' \in Panels
    BY <2>1, <2>2 DEF Panels
  <2>4. took' \in BOOLEAN /\ mine' \in BOOLEAN
    BY <1>25 DEF Commit, TypeOK
  <2>. QED
    BY <1>25, <2>3, <2>4 DEF Commit, TypeOK, ClockInv, ctl
<1>26. CASE VerifyCrc
  BY <1>26, ArmedResult DEF VerifyCrc, TypeOK, ClockInv, ctl
<1>27. CASE PanelOff
  <2>1. panel' = [Armed(FALSE) EXCEPT !.st = "off", !.op = "COMM_CHECK", !.checked = FALSE,
                                      !.staged = Whole(Corrupt)]
    BY <1>27 DEF PanelOff
  <2>2. Armed(FALSE) \in Panels /\ Whole(Corrupt) \in [1 .. Pages -> Contents]
    BY ArmedResult, WholeType DEF TypeOK, Contents
  <2>3. panel' \in Panels
    BY <2>1, <2>2 DEF Panels, Ops
  <2>. QED
    BY <1>27, <2>3 DEF PanelOff, TypeOK, ClockInv, ctl
<1>28. CASE PanelBoot
  <2>1. panel' \in Panels
    BY <1>28 DEF PanelBoot, TypeOK, Panels
  <2>. QED
    BY <1>28, <2>1 DEF PanelBoot, TypeOK, ClockInv, ctl
<1>29. CASE UNCHANGED vars
  BY <1>29 DEF vars, TypeOK, ClockInv
<1>. QED
  BY <1>1, <1>2, <1>3, <1>4, <1>5, <1>6, <1>7, <1>8, <1>9, <1>10, <1>11, <1>12, <1>13, <1>14, <1>15, <1>16, <1>17, <1>18, <1>19, <1>20, <1>21, <1>22, <1>23, <1>24, <1>25, <1>26, <1>27, <1>28, <1>29, Zenon DEF Next, Controller, Panel

-----------------------------------------------------------------------------
(***************************************************************************)
(* The controller and the panel together.                                  *)
(***************************************************************************)
\* A step that sets no command going at the panel and takes none away.
Calm ==
  \/ panel' = panel
  \/ /\ panel.st # "busy" /\ panel'.st # "busy"
     /\ panel'.staged = panel.staged /\ panel'.app = panel.app /\ panel'.ota = panel.ota

SafeInv == TalkInv /\ StagedInv /\ ReplyInv

LEMMA ReadCalm ==
  ASSUME TypeOK, NEW got \in BOOLEAN, readResp(got)
  PROVE  Calm
<1>1. CASE panel.st = "armed"
  BY <1>1, ReadResult DEF Calm
<1>2. CASE panel.st # "armed"
  BY <1>2, ReadResult DEF Calm
<1>. QED
  BY <1>1, <1>2

\* Every way out of a command, and whatever happens between commands.
LEMMA EndKeepsSafe ==
  ASSUME SafeInv, op' = "idle", Calm, fresh' => fresh, mine' => mine
  PROVE  SafeInv'
<1>1. TalkInv'
  BY DEF TalkInv, Session
<1>2. StagedInv'
  <2>1. panel'.app \in Wholes /\ panel'.ota \in Wholes
    BY DEF SafeInv, StagedInv, Calm
  <2>2. panel'.st = "busy" => panel' = panel
    BY DEF Calm
  <2>. QED
    BY <2>1, <2>2 DEF SafeInv, StagedInv
<1>3. ReplyInv'
  <2>1. mine' => panel' = panel
    BY DEF SafeInv, ReplyInv, Calm
  <2>. QED
    BY <2>1 DEF SafeInv, ReplyInv
<1>. QED
  BY <1>1, <1>2, <1>3 DEF SafeInv

\* The way into one, and its retry.
LEMMA EnterKeepsSafe ==
  ASSUME SafeInv, op' = "ISP_ENTER", Calm, fresh' => fresh, ~mine', ~took'
  PROVE  SafeInv'
<1>1. panel'.app \in Wholes /\ panel'.ota \in Wholes
  BY DEF SafeInv, StagedInv, Calm
<1>2. panel'.st = "busy" => panel' = panel
  BY DEF Calm
<1>. QED
  BY <1>1, <1>2 DEF SafeInv, TalkInv, StagedInv, ReplyInv, Session

LEMMA SendKeepsSafe == TypeOK /\ SafeInv /\ sendCmd => SafeInv'
<1>. SUFFICES ASSUME TypeOK, SafeInv, sendCmd PROVE SafeInv'
  OBVIOUS
<1>1. /\ op \in Session \cup {"ISP_ENTER"} /\ phase = "send" /\ phase' = "read"
      /\ UNCHANGED <<card, op, fresh, took>>
  BY DEF sendCmd, TypeOK, Ops, Session
<1>2. CASE panel' = Clocked(panel) /\ mine' = mine
  <2>1. /\ panel'.staged = panel.staged /\ panel'.app = panel.app /\ panel'.ota = panel.ota
        /\ panel'.st = IF panel.st = "armed" THEN "listen" ELSE panel.st
        /\ panel.st # "armed" => panel' = panel
    BY <1>2, ClockedResult DEF TypeOK
  <2>. QED
    BY <1>1, <1>2, <2>1 DEF SafeInv, TalkInv, StagedInv, ReplyInv, Session
<1>3. CASE /\ panel.st = "listen"
           /\ panel' = [panel EXCEPT !.st = "busy", !.op = op, !.page = page,
                                     !.body = card.body, !.crc = card.crc, !.checked = FALSE]
           /\ mine' = (op = "ISP_COMMIT")
  <2>1. /\ panel'.st = "busy" /\ panel'.op = op /\ panel'.crc = card.crc
        /\ panel'.staged = panel.staged /\ panel'.app = panel.app /\ panel'.ota = panel.ota
    BY <1>3 DEF TypeOK, Panels
  <2>2. mine' <=> op = "ISP_COMMIT"
    BY <1>3
  <2>3. card.crc \in Images
    BY DEF TypeOK, Files
  <2>4. TalkInv'
    BY <1>1, <2>1 DEF TalkInv, Session
  <2>5. StagedInv'
    BY <1>1, <2>1, <2>3 DEF SafeInv, StagedInv, Wholes
  <2>6. ReplyInv'
    BY <1>1, <2>1, <2>2 DEF SafeInv, ReplyInv, Session
  <2>. QED
    BY <2>4, <2>5, <2>6 DEF SafeInv
<1>. QED
  BY <1>2, <1>3 DEF sendCmd

\* A reply that the controller takes, before it goes on to the next command.
LEMMA GoOnKeepsSafe ==
  ASSUME TypeOK, SafeInv, readResp(TRUE), UNCHANGED <<card, mine, took>>, phase' = "send",
         NEW o \in Session \cup {"COMM_CHECK"}, op' = o,
         o = "ISP_COMMIT" => ~took /\ (fresh' => panel.staged = Whole(card.crc)),
         o = "COMM_CHECK" => took /\ panel.ota = Whole(card.crc),
         took => o = "COMM_CHECK"
  PROVE  SafeInv'
<1>1. /\ panel.st = "armed" /\ panel'.st = "listen"
      /\ panel'.staged = panel.staged /\ panel'.app = panel.app /\ panel'.ota = panel.ota
  BY ReadResult
<1>2. ~mine
  BY <1>1 DEF SafeInv, ReplyInv
<1>3. TalkInv'
  BY <1>1 DEF TalkInv
<1>4. StagedInv'
  BY <1>1 DEF SafeInv, StagedInv, Session
<1>5. ReplyInv'
  BY <1>1, <1>2 DEF SafeInv, ReplyInv, Session
<1>. QED
  BY <1>3, <1>4, <1>5 DEF SafeInv

\* A command the panel gives up, or carries out: the reply it then holds.
LEMMA PanelKeepsSafe ==
  ASSUME TypeOK, SafeInv, Decline \/ Enter \/ Stage \/ VerifyStaged \/ Commit \/ VerifyCrc
  PROVE  SafeInv'
<1>. USE DEF SafeInv, TalkInv, StagedInv, ReplyInv, Session
<1>0. /\ UNCHANGED <<card, op, phase>> /\ panel.st = "busy" /\ panel.op \in Ops
      /\ phase \in {"send", "read"}
  BY DEF Decline, Enter, Stage, VerifyStaged, Commit, VerifyCrc, ctl, TypeOK, Panels
<1>1. CASE Decline
  <2>1. /\ panel'.st = "armed" /\ ~panel'.ok /\ panel'.op = panel.op
        /\ panel'.staged = panel.staged /\ panel'.app = panel.app /\ panel'.ota = panel.ota
    BY <1>1, ArmedResult DEF Decline, TypeOK
  <2>2. mine' = FALSE /\ took' = took /\ fresh' = fresh
    BY <1>1 DEF Decline
  <2>. QED
    BY <1>0, <2>1, <2>2
<1>2. CASE Enter
  <2>1. /\ panel'.st = "armed" /\ panel'.op = panel.op /\ panel.op = "ISP_ENTER"
        /\ panel'.staged = panel.staged /\ panel'.app = panel.app /\ panel'.ota = panel.ota
    BY <1>2, ArmedResult DEF Enter, TypeOK
  <2>2. mine' = mine /\ took' = took /\ fresh' = FALSE
    BY <1>2 DEF Enter
  <2>. QED
    BY <1>0, <2>1, <2>2
<1>3. CASE Stage
  <2>1. panel' = [Armed(TRUE) EXCEPT !.staged[panel.page] = panel.body]
    BY <1>3 DEF Stage
  <2>2. /\ panel'.st = "armed" /\ panel'.op = panel.op
        /\ panel'.app = panel.app /\ panel'.ota = panel.ota
    BY <2>1, ArmedResult DEF TypeOK, Panels
  <2>3. mine' = mine /\ took' = took /\ fresh' = fresh /\ panel.op = "ISP_WRITE_PAGE"
    BY <1>3 DEF Stage
  <2>. QED
    BY <1>0, <2>2, <2>3
<1>4. CASE VerifyStaged
  <2>1. /\ panel'.st = "armed" /\ panel'.op = panel.op /\ panel.op = "ISP_VERIFY_STAGED"
        /\ panel'.staged = panel.staged /\ panel'.app = panel.app /\ panel'.ota = panel.ota
        /\ panel.staged = Whole(panel.crc)
    BY <1>4, ArmedResult DEF VerifyStaged, TypeOK
  <2>2. mine' = mine /\ took' = took /\ fresh' = fresh
    BY <1>4 DEF VerifyStaged
  <2>3. TalkInv'
    BY <1>0, <2>1
  <2>4. op \in Session /\ phase = "read" => op = panel.op /\ panel.crc = card.crc
    BY <1>0
  <2>5. StagedInv'
    BY <1>0, <2>1, <2>2, <2>4
  <2>6. ReplyInv'
    BY <1>0, <2>1, <2>2, <2>4
  <2>. QED
    BY <2>3, <2>5, <2>6
<1>5. CASE Commit
  <2>1. panel' = [Armed(TRUE) EXCEPT !.ota = panel.staged]
    BY <1>5 DEF Commit
  <2>2. /\ panel'.st = "armed" /\ panel'.ok /\ panel'.op = panel.op
        /\ panel'.staged = panel.staged /\ panel'.app = panel.app /\ panel'.ota = panel.staged
    BY <2>1, ArmedResult DEF TypeOK, Panels
  <2>3. /\ mine' = FALSE /\ (took' <=> took \/ mine) /\ fresh' = fresh
        /\ panel.op = "ISP_COMMIT" /\ fresh
    BY <1>5 DEF Commit
  <2>4. TalkInv'
    BY <1>0, <2>2, <2>3
  <2>5. StagedInv'
    BY <1>0, <2>2, <2>3
  <2>6. ReplyInv'
    BY <1>0, <2>2, <2>3
  <2>. QED
    BY <2>4, <2>5, <2>6
<1>6. CASE VerifyCrc
  <2>1. /\ panel'.st = "armed" /\ panel'.op = panel.op /\ panel.op = "ISP_VERIFY_CRC"
        /\ panel'.staged = panel.staged /\ panel'.app = panel.app /\ panel'.ota = panel.ota
        /\ panel.app = Whole(panel.crc)
    BY <1>6, ArmedResult DEF VerifyCrc, TypeOK
  <2>2. mine' = mine /\ took' = took /\ fresh' = fresh
    BY <1>6 DEF VerifyCrc
  <2>3. TalkInv'
    BY <1>0, <2>1
  <2>4. op \in Session /\ phase = "read" => op = panel.op /\ panel.crc = card.crc
    BY <1>0
  <2>5. StagedInv'
    BY <1>0, <2>1, <2>2, <2>4
  <2>6. ReplyInv'
    BY <1>0, <2>1, <2>2, <2>4
  <2>. QED
    BY <2>3, <2>5, <2>6
<1>. QED
  BY <1>1, <1>2, <1>3, <1>4, <1>5, <1>6

LEMMA PanelResetKeepsSafe ==
  ASSUME TypeOK, SafeInv, PanelOff \/ PanelBoot
  PROVE  SafeInv'
<1>. USE DEF SafeInv, TalkInv, StagedInv, ReplyInv, Session
<1>1. CASE PanelOff
  <2>1. panel' = [Armed(FALSE) EXCEPT !.st = "off", !.op = "COMM_CHECK", !.checked = FALSE,
                                      !.staged = Whole(Corrupt)]
    BY <1>1 DEF PanelOff
  <2>2. panel'.st = "off" /\ panel'.app = panel.app /\ panel'.ota = panel.ota
    BY <2>1, ArmedResult DEF TypeOK, Panels
  <2>3. UNCHANGED <<card, op, phase, took>> /\ fresh' = FALSE /\ mine' = FALSE
    BY <1>1 DEF PanelOff, ctl
  <2>. QED
    BY <2>2, <2>3
<1>2. CASE PanelBoot
  <2>1. panel.st = "off" /\ panel'.st = "listen" /\ panel'.app = panel.ota
        /\ panel'.ota = panel.ota /\ panel'.staged = panel.staged
    BY <1>2 DEF PanelBoot, TypeOK, Panels
  <2>2. UNCHANGED <<card, op, phase, took, fresh, mine>>
    BY <1>2 DEF PanelBoot, ctl
  <2>. QED
    BY <2>1, <2>2
<1>. QED
  BY <1>1, <1>2

LEMMA SafeStep == TypeOK /\ SafeInv /\ [Next]_vars => SafeInv'
<1>. SUFFICES ASSUME TypeOK, SafeInv, [Next]_vars PROVE SafeInv'
  OBVIOUS
<1>1. CASE SetFirmwareFile \/ SetSpiClock \/ Reset \/ Refused
  <2>1. op' = "idle" /\ panel' = panel /\ (fresh' => fresh) /\ (mine' => mine)
    BY <1>1 DEF SetFirmwareFile, SetSpiClock, Reset, Refused, ctl
  <2>. QED
    BY <2>1, EndKeepsSafe DEF Calm
<1>2. CASE DisplayFrame
  <2>1. op' = "idle" /\ panel' = Clocked(panel) /\ fresh' = fresh /\ mine' = mine
    BY <1>2 DEF DisplayFrame, ctl
  <2>2. CASE panel.st = "armed"
    BY <2>1, <2>2, ClockedResult, EndKeepsSafe DEF Calm, TypeOK
  <2>3. CASE panel.st # "armed"
    BY <2>1, <2>3, ClockedResult, EndKeepsSafe DEF Calm, TypeOK
  <2>. QED
    BY <2>2, <2>3
<1>3. CASE programPanel \/ verifyPanel
  <2>1. op' = "ISP_ENTER" /\ panel' = panel /\ fresh' = fresh /\ ~mine' /\ ~took'
    BY <1>3 DEF programPanel, verifyPanel, Begin
  <2>. QED
    BY <2>1, EnterKeepsSafe DEF Calm
<1>4. CASE sendCmd
  BY <1>4, SendKeepsSafe
<1>5. CASE SdReadError \/ AliveReply \/ AliveTimeout
  <2>1. op' = "idle" /\ panel' = panel /\ fresh' = fresh /\ mine' = mine
    BY <1>5 DEF SdReadError, AliveReply, AliveTimeout, finish
  <2>. QED
    BY <2>1, EndKeepsSafe DEF Calm
<1>6. ASSUME NEW got \in BOOLEAN, readResp(got), NEW r, finish(r), UNCHANGED <<fresh, mine>>
      PROVE  SafeInv'
  <2>1. op' = "idle"
    BY <1>6 DEF finish
  <2>. QED
    BY <1>6, <2>1, ReadCalm, EndKeepsSafe
<1>7. CASE EnterReply
  <2>1. readResp(TRUE) /\ op = "ISP_ENTER" /\ UNCHANGED <<card, mine, took>>
    BY <1>7 DEF EnterReply
  <2>2. CASE panel.ok
    <3>1. ~took
      BY <2>1 DEF SafeInv, ReplyInv
    <3>2. PICK o \in {"ISP_WRITE_PAGE", "ISP_VERIFY_CRC"} : goto(o)
      BY <1>7, <2>2 DEF EnterReply
    <3>3. op' = o /\ phase' = "send"
      BY <3>2, GotoResult
    <3>. QED
      BY <2>1, <3>1, <3>2, <3>3, GoOnKeepsSafe DEF Session
  <2>3. CASE ~panel.ok
    <3>1. finish("failed") /\ fresh' = fresh
      BY <1>7, <2>3 DEF EnterReply
    <3>. QED
      BY <2>1, <3>1, <1>6
  <2>. QED
    BY <2>2, <2>3
<1>8. CASE EnterSilent
  <2>1. readResp(FALSE) /\ op = "ISP_ENTER" /\ UNCHANGED <<fresh, mine, took>>
    BY <1>8 DEF EnterSilent
  <2>2. CASE attempt = 1
    <3>1. op' = "ISP_ENTER"
      BY <1>8, <2>1, <2>2 DEF EnterSilent
    <3>2. ~mine /\ ~took
      BY <2>1 DEF SafeInv, ReplyInv
    <3>. QED
      BY <2>1, <3>1, <3>2, ReadCalm, EnterKeepsSafe
  <2>3. CASE attempt # 1
    <3>1. finish("failed")
      BY <1>8, <2>3 DEF EnterSilent
    <3>. QED
      BY <2>1, <3>1, <1>6
  <2>. QED
    BY <2>2, <2>3
<1>9. CASE PageReply
  <2>1. readResp(TRUE) /\ op = "ISP_WRITE_PAGE" /\ UNCHANGED <<card, mine, took>>
    BY <1>9 DEF PageReply
  <2>2. PICK o \in {"ISP_WRITE_PAGE", "ISP_VERIFY_STAGED"} : goto(o)
    BY <1>9 DEF PageReply
  <2>3. op' = o /\ phase' = "send"
    BY <2>2, GotoResult
  <2>4. ~took
    BY <2>1 DEF SafeInv, ReplyInv
  <2>. QED
    BY <2>1, <2>2, <2>3, <2>4, GoOnKeepsSafe DEF Session
<1>10. CASE PageFailed
  BY <1>10, <1>6 DEF PageFailed
<1>11. CASE StagedReply
  <2>1. readResp(TRUE) /\ op = "ISP_VERIFY_STAGED" /\ UNCHANGED <<card, fresh, mine, took>>
    BY <1>11 DEF StagedReply
  <2>2. CASE panel.ok
    <3>1. op' = "ISP_COMMIT" /\ phase' = "send"
      BY <1>11, <2>2, GotoResult DEF StagedReply
    <3>2. phase = "read" /\ panel.st = "armed"
      BY <2>1 DEF readResp
    <3>3. ~took /\ panel.staged = Whole(card.crc)
      BY <2>1, <2>2, <3>2 DEF SafeInv, ReplyInv, StagedInv
    <3>. QED
      BY <2>1, <3>1, <3>3, GoOnKeepsSafe DEF Session
  <2>3. CASE ~panel.ok
    BY <1>11, <2>1, <2>3, <1>6 DEF StagedReply
  <2>. QED
    BY <2>2, <2>3
<1>12. CASE CommitReply
  <2>1. readResp(TRUE) /\ op = "ISP_COMMIT" /\ UNCHANGED <<card, fresh, mine, took>>
    BY <1>12 DEF CommitReply
  <2>2. CASE panel.ok
    <3>1. op' = "COMM_CHECK" /\ phase' = "send"
      BY <1>12, <2>2, GotoResult DEF CommitReply
    <3>2. phase = "read" /\ panel.st = "armed"
      BY <2>1 DEF readResp
    <3>3. took /\ panel.ota = Whole(card.crc)
      BY <2>1, <2>2, <3>2 DEF SafeInv, ReplyInv
    <3>. QED
      BY <2>1, <3>1, <3>3, GoOnKeepsSafe DEF Session
  <2>3. CASE ~panel.ok
    BY <1>12, <2>1, <2>3, <1>6 DEF CommitReply
  <2>. QED
    BY <2>2, <2>3
<1>13. CASE CrcReply
  BY <1>13, <1>6 DEF CrcReply
<1>14. CASE PollTimeout
  BY <1>14, <1>6 DEF PollTimeout
<1>15. CASE Poll
  <2>1. readResp(FALSE) /\ op \in Polled /\ UNCHANGED <<card, op, phase, fresh, mine, took>>
    BY <1>15 DEF Poll, ctl
  <2>2. /\ phase = "read"
        /\ panel'.st = IF panel.st = "armed" THEN "listen" ELSE panel.st
        /\ panel.st # "armed" => panel' = panel
        /\ panel'.staged = panel.staged /\ panel'.app = panel.app /\ panel'.ota = panel.ota
    BY <2>1, ReadResult
  <2>3. CASE panel.st = "armed"
    BY <2>1, <2>2, <2>3 DEF SafeInv, TalkInv, StagedInv, ReplyInv, Session
  <2>4. CASE panel.st # "armed"
    BY <2>1, <2>2, <2>4 DEF SafeInv, TalkInv, StagedInv, ReplyInv
  <2>. QED
    BY <2>3, <2>4
<1>16. CASE AlivePoll
  <2>1. /\ op = "COMM_CHECK" /\ panel.st # "armed" /\ UNCHANGED <<card, op, phase, fresh, mine, took>>
        /\ panel' = [Clocked(panel) EXCEPT !.checked = Clocked(panel).checked \/ panel.st = "listen"]
    BY <1>16 DEF AlivePoll, ctl, SafeInv, TalkInv
  <2>2. Clocked(panel) = panel
    BY <2>1, ClockedResult DEF TypeOK
  <2>3. /\ panel'.st = panel.st /\ panel'.op = panel.op
        /\ panel'.staged = panel.staged /\ panel'.app = panel.app /\ panel'.ota = panel.ota
    BY <2>1, <2>2 DEF TypeOK, Panels
  <2>4. UNCHANGED <<card, op, phase, fresh, mine, took>> /\ op = "COMM_CHECK"
    BY <2>1
  <2>. QED
    BY <2>3, <2>4 DEF SafeInv, TalkInv, StagedInv, ReplyInv, Session
<1>17. CASE Decline \/ Enter \/ Stage \/ VerifyStaged \/ Commit \/ VerifyCrc
  BY <1>17, PanelKeepsSafe
<1>18. CASE PanelOff \/ PanelBoot
  BY <1>18, PanelResetKeepsSafe
<1>19. CASE UNCHANGED vars
  BY <1>19 DEF vars, SafeInv, TalkInv, StagedInv, ReplyInv
<1>. QED
  BY <1>1, <1>2, <1>3, <1>4, <1>5, <1>7, <1>8, <1>9, <1>10, <1>11, <1>12, <1>13, <1>14, <1>15,
     <1>16, <1>17, <1>18, <1>19, Zenon DEF Next, Controller, Panel

LEMMA InvHolds == Spec => [](TypeOK /\ ClockInv /\ SafeInv)
<1>1. Init => TypeOK /\ ClockInv /\ SafeInv
  <2>. SUFFICES ASSUME Init PROVE TypeOK /\ ClockInv /\ SafeInv
    OBVIOUS
  <2>1. card \in Files /\ card.crc \in Images
    BY DEF Init, Intact, Files
  <2>2. Whole(card.crc) \in Wholes /\ Whole(card.crc) \in [1 .. Pages -> Contents]
        /\ Whole(Corrupt) \in [1 .. Pages -> Contents]
    BY <2>1, WholeType DEF Wholes, Contents
  <2>3. /\ panel \in Panels /\ panel.st = "listen"
        /\ panel.app = Whole(card.crc) /\ panel.ota = Whole(card.crc)
    <3>1. 1 \in 1 .. Pages /\ Corrupt \in Contents
      BY IspAssumption DEF Contents
    <3>. QED
      BY <2>2, <3>1 DEF Init, Panels, Ops
  <2>4. page \in 1 .. Pages
    BY IspAssumption DEF Init
  <2>5. TypeOK
    BY <2>1, <2>3, <2>4, IspAssumption DEF Init, TypeOK, Results
  <2>6. SafeInv
    BY <2>2, <2>3 DEF Init, SafeInv, TalkInv, StagedInv, ReplyInv, Session
  <2>. QED
    BY <2>5, <2>6 DEF Init, ClockInv
<1>. QED
  BY <1>1, TypeStep, SafeStep, PTL DEF Spec

\* Every variable keeps its type; no page number leaves the image.
THEOREM IspTypeOK == Spec => []TypeOK
  BY InvHolds, PTL

\* Between ISP commands the bus runs at the clock the host asked for.
THEOREM IspClockRestored == Spec => []ClockRestored
<1>1. ClockInv => ClockRestored
  BY DEF ClockInv, ClockRestored
<1>. QED
  BY <1>1, InvHolds, PTL

\* Every way out of an ISP command leaves a legal state and the host's clock.
THEOREM IspIsSound == Spec => []IspSound
<1>1. TypeOK /\ ClockRestored => IspSound
  BY DEF IspSound
<1>. QED
  BY <1>1, IspTypeOK, IspClockRestored, PTL

\* No reply lost or late, no reset of either side and no damaged file ever makes
\* a panel run, or keep for its next boot, anything but a whole image.
THEOREM IspNeverBricked == Spec => []NeverBricked
<1>1. SafeInv => NeverBricked
  BY DEF SafeInv, StagedInv, Wholes, NeverBricked
<1>. QED
  BY <1>1, InvHolds, PTL

\* What a command answers is true of the panel: flashed only if it took the image,
\* failed only if it did not and will not, a match only if it runs the image.
THEOREM IspReportIsTrue == Spec => ReportIsTrue
<1>. DEFINE Report ==
       CASE result' = "done"    -> took /\ Whole(card.crc) \in {panel.app, panel.ota}
         [] result' = "failed"  -> ~took /\ ~mine
         [] result' = "match"   -> panel.app = Whole(card.crc)
         [] OTHER               -> TRUE
<1>1. TypeOK /\ SafeInv /\ [Next]_vars => [op # "idle" /\ op' = "idle" => Report]_vars
  <2>. SUFFICES ASSUME TypeOK, SafeInv, Next, op # "idle", op' = "idle" PROVE Report
    OBVIOUS
  <2>0. op \in {"ISP_ENTER", "ISP_WRITE_PAGE", "ISP_VERIFY_STAGED", "ISP_VERIFY_CRC"} => ~took /\ ~mine
    BY DEF SafeInv, ReplyInv
  <2>1. CASE SetFirmwareFile \/ SetSpiClock \/ DisplayFrame \/ Refused \/ programPanel \/ verifyPanel
    BY <2>1 DEF SetFirmwareFile, SetSpiClock, DisplayFrame, Refused, programPanel, verifyPanel, Begin
  <2>2. CASE Reset
    BY <2>2 DEF Reset
  <2>3. CASE sendCmd \/ Poll \/ AlivePoll
    BY <2>3 DEF sendCmd, Poll, AlivePoll, ctl
  <2>4. CASE SdReadError \/ PageFailed
    <3>1. op = "ISP_WRITE_PAGE" /\ result' = "failed"
      BY <2>4 DEF SdReadError, PageFailed, finish
    <3>. QED
      BY <3>1, <2>0
  <2>5. CASE EnterReply \/ EnterSilent
    <3>1. op = "ISP_ENTER"
      BY <2>5 DEF EnterReply, EnterSilent
    <3>2. result' = "failed"
      BY <2>5, <3>1 DEF EnterReply, EnterSilent, finish, goto
    <3>. QED
      BY <3>1, <3>2, <2>0
  <2>6. CASE PageReply
    BY <2>6 DEF PageReply, goto
  <2>7. CASE StagedReply
    <3>1. op = "ISP_VERIFY_STAGED" /\ result' = "failed"
      BY <2>7 DEF StagedReply, finish, goto
    <3>. QED
      BY <3>1, <2>0
  <2>8. CASE CommitReply
    <3>1. op = "ISP_COMMIT" /\ phase = "read" /\ panel.st = "armed"
      BY <2>8 DEF CommitReply, readResp
    <3>2. ~panel.ok /\ result' = "failed"
      BY <2>8 DEF CommitReply, finish, goto
    <3>. QED
      BY <3>1, <3>2 DEF SafeInv, ReplyInv
  <2>9. CASE CrcReply
    <3>1. op = "ISP_VERIFY_CRC" /\ phase = "read" /\ panel.st = "armed"
      BY <2>9 DEF CrcReply, readResp
    <3>2. result' = IF panel.ok THEN "match" ELSE "differs"
      BY <2>9 DEF CrcReply, finish
    <3>. QED
      BY <3>1, <3>2 DEF SafeInv, ReplyInv
  <2>10. CASE PollTimeout
    <3>1. op \in Polled /\ result' = IF op = "ISP_COMMIT" THEN "unsure" ELSE "failed"
      BY <2>10 DEF PollTimeout, finish
    <3>. QED
      BY <3>1, <2>0 DEF Polled
  <2>11. CASE AliveReply \/ AliveTimeout
    <3>1. op = "COMM_CHECK" /\ result' \in {"done", "unsure"}
      BY <2>11 DEF AliveReply, AliveTimeout, finish
    <3>. QED
      BY <3>1 DEF SafeInv, ReplyInv
  <2>12. CASE Panel
    BY <2>12 DEF Panel, Decline, Enter, Stage, VerifyStaged, Commit, VerifyCrc, PanelOff, PanelBoot, ctl
  <2>. QED
    BY <2>1, <2>2, <2>3, <2>4, <2>5, <2>6, <2>7, <2>8, <2>9, <2>10, <2>11, <2>12, Zenon
       DEF Next, Controller
<1>. QED
  BY <1>1, InvHolds, PTL DEF Spec, ReportIsTrue
=============================================================================
