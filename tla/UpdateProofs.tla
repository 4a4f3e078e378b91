---------------------------- MODULE UpdateProofs ----------------------------
(***************************************************************************)
(* Proofs about Update: for any image and flash layout, and whatever the   *)
(* network and the power do, pages the tool has loaded stay in flash, and  *)
(* the tool crashes only when the update is complete.  The steps of an     *)
(* update are steps of its parts, so that the invariants of Bootloader and *)
(* HostCommand carry over.                                                 *)
(***************************************************************************)
EXTENDS Update, TLAPS

LP == INSTANCE BootloaderProofs
HP == INSTANCE HostCommandProofs WITH
  Client <- {tool}, Node <- {node}, Printing <- {},
  Target <- [c \in {tool} |-> node],
  Cmd <- {<<"reboot">>, <<"erase">>} \cup {WritePage(p) : p \in Lst!Page},
  Re <- {Lst!NACK} \cup {Lst!ACK(n) : n \in Lst!Page \cup {Lst!ERASED}},
  RetryLimit <- [c \in {tool} |-> {0, 1, NoLimit}],
  phase <- call

-----------------------------------------------------------------------------
(***************************************************************************)
(* The parts' invariants, as proved in their modules.                      *)
(***************************************************************************)

\* BootloaderProofs speaks of the same constants,
LEMMA SameConstants ==
  /\ Lst!Page = LP!Page /\ Lst!AppPage = LP!AppPage /\ Lst!Flash = LP!Flash
  /\ Lst!NothingAcked = LP!NothingAcked
  /\ \A p : /\ Lst!Address(p) = LP!Address(p)
           /\ Lst!FlashWriteResult(p) = LP!FlashWriteResult(p)
           /\ Lst!FlashPage(p) = LP!FlashPage(p)
           /\ Lst!ACK(p) = LP!ACK(p)
  BY DEF Lst!Page, LP!Page, Lst!AppPage, LP!AppPage, Lst!Flash, LP!Flash,
         Lst!NothingAcked, LP!NothingAcked, Lst!Address, LP!Address,
         Lst!FlashWriteResult, LP!FlashWriteResult, Lst!FlashPage,
         LP!FlashPage, Lst!ACK, LP!ACK

\* the assumptions of this module,
LEMMA LstAssumptions ==
  LP!LayoutAssumption /\ LP!DelayAssumption /\ LP!ContentAssumption
  BY PartsAssumption, SameConstants
  DEF Lst!LayoutAssumption, Lst!DelayAssumption, Lst!ContentAssumption,
      LP!LayoutAssumption, LP!DelayAssumption, LP!ContentAssumption

\* the same invariant
LEMMA SameLstInvariant == Lst!IInv <=> LP!IInv
<1>1. Lst!TypeOK <=> LP!TypeOK
  BY SameConstants
     DEF Lst!TypeOK, LP!TypeOK, Lst!Phase, LP!Phase, Lst!NACK, LP!NACK, Lst!PONG,
      LP!PONG, Lst!ERASED, LP!ERASED, Lst!ACK, LP!ACK
<1>2. Lst!PhaseInv <=> LP!PhaseInv
  BY SameConstants DEF Lst!PhaseInv, LP!PhaseInv
<1>3. Lst!PassedPagesErased <=> LP!PassedPagesErased
  BY SameConstants DEF Lst!PassedPagesErased, LP!PassedPagesErased
<1>4. Lst!AckedPagesIntact <=> LP!AckedPagesIntact
  BY SameConstants DEF Lst!AckedPagesIntact, LP!AckedPagesIntact
<1>5. Lst!OnlySignedImagesRun <=> LP!OnlySignedImagesRun
  BY SameConstants
  DEF Lst!OnlySignedImagesRun, LP!OnlySignedImagesRun, Lst!SignatureAppValid,
      LP!SignatureAppValid, Lst!AppImage, LP!AppImage
<1> QED
  BY <1>1, <1>2, <1>3, <1>4, <1>5 DEF Lst!IInv, LP!IInv

\* and the same steps.
LEMMA SameNext == Lst!Next => LP!Next
<1>1. Lst!Reset => LP!Reset
  <2>1. Lst!FlashAfterReset = LP!FlashAfterReset
    BY Zenon
    DEF Lst!FlashAfterReset, LP!FlashAfterReset, Lst!FlashPage, LP!FlashPage,
        Lst!Page, LP!Page, Lst!Address, LP!Address
  <2> QED
    BY <2>1, SameConstants DEF Lst!Reset, LP!Reset
<1>2. /\ Lst!Ping => LP!Ping
      /\ Lst!OtherCommand => LP!OtherCommand
      /\ Lst!Erase => LP!Erase
  BY SameConstants
  DEF Lst!Ping, LP!Ping, Lst!OtherCommand, LP!OtherCommand, Lst!Erase,
      LP!Erase, Lst!ACK, LP!ACK, Lst!NACK, LP!NACK, Lst!PONG, LP!PONG
<1>3. \A p, d : Lst!WritePage(p, d) => LP!WritePage(p, d)
  BY SameConstants DEF Lst!WritePage, LP!WritePage
<1>4. \A p : Lst!RefuseWrite(p) => LP!RefuseWrite(p)
  BY SameConstants DEF Lst!RefuseWrite, LP!RefuseWrite, Lst!NACK, LP!NACK
<1>5. /\ Lst!Countdown => LP!Countdown
      /\ Lst!EndPoll => LP!EndPoll
  BY DEF Lst!Countdown, LP!Countdown, Lst!EndPoll, LP!EndPoll
<1>6. Lst!ErasePage => LP!ErasePage
  BY SameConstants DEF Lst!ErasePage, LP!ErasePage
<1>7. /\ Lst!EraseDone => LP!EraseDone
      /\ Lst!WriteDone => LP!WriteDone
  BY DEF Lst!EraseDone, LP!EraseDone, Lst!WriteDone, LP!WriteDone, Lst!ACK,
      LP!ACK, Lst!ERASED, LP!ERASED
<1>8. Lst!Boot => LP!Boot
  BY SameConstants DEF Lst!Boot, LP!Boot, Lst!SignatureAppValid, LP!SignatureAppValid,
      Lst!AppImage, LP!AppImage
<1> QED
  BY <1>1, <1>2, <1>3, <1>4, <1>5, <1>6, <1>7, <1>8, SameConstants
  DEF Lst!Next, LP!Next, Lst!Command, LP!Command, Lst!Proceed, LP!Proceed,
      Lst!PowerLoss, LP!PowerLoss, Lst!WatchdogReset, LP!WatchdogReset

\* So a step of the bootloader keeps its invariant, which holds initially.
LEMMA LstStep == Lst!IInv /\ (Lst!Next \/ UNCHANGED lstVars) => Lst!IInv'
<1>1. LP!IInv /\ [LP!Next]_(LP!vars) => LP!IInv'
  BY LP!NextInv, LstAssumptions
  DEF LP!LayoutAssumption, LP!DelayAssumption, LP!ContentAssumption
<1>2. UNCHANGED lstVars => UNCHANGED LP!vars
  BY DEF lstVars, LP!vars
<1>3. Lst!IInv' <=> LP!IInv'
  BY SameLstInvariant, PTL
<1> QED
  BY <1>1, <1>2, <1>3, SameLstInvariant, SameNext

\* It holds initially.
LEMMA LstInit == Lst!Init => Lst!IInv
<1>1. Lst!Init => LP!Init
  BY SameConstants DEF Lst!Init, LP!Init
<1> QED
  BY <1>1, LP!InitInv, LstAssumptions, SameLstInvariant
  DEF LP!LayoutAssumption, LP!DelayAssumption, LP!ContentAssumption

\* HostCommandProofs speaks of the same handler.
LEMMA SameInvariant == Host!IInv <=> HP!IInv
  BY DEF Host!IInv, HP!IInv, Host!TypeOK, HP!TypeOK, Host!MessageInv,
      HP!MessageInv, Host!ReplyIsOwn, HP!ReplyIsOwn, Host!Limits, HP!Limits,
      Host!Command, HP!Command, Host!Message, HP!Message, Host!Range,
      HP!Range, Host!Earlier, HP!Earlier

\* FiniteSets is instantiated twice, too.
LEMMA SameSize == ASSUME NEW S PROVE Host!Cardinality(S) = HP!Cardinality(S)
  BY DEF Host!Cardinality, HP!Cardinality

\* The bound on the line is the same there,
LEMMA SameLine == Host!LineFree <=> HP!LineFree
  BY SameSize DEF Host!LineFree, HP!LineFree

\* and so are the actions: a call,
LEMMA SameCall ==
  ASSUME NEW c, NEW x, NEW r, Host!Call(c, x, r)
  PROVE  HP!Call(c, x, r)
<1>1. \A S : Host!Older(S, c) = HP!Older(S, c)
  BY Zenon DEF Host!Older, HP!Older, Host!Range, HP!Range
<1>2. Host!Flush(c, inbox) = HP!Flush(c, inbox)
  BY Zenon DEF Host!Flush, HP!Flush
<1>3. \A s : Host!IncSeqnum(s) = HP!IncSeqnum(s)
  BY Zenon DEF Host!IncSeqnum, HP!IncSeqnum
<1>4. \A s : Host!CommandOf(c, s, x) = HP!CommandOf(c, s, x)
  BY Zenon DEF Host!CommandOf, HP!CommandOf
<1>5. HP!LineFree
  BY SameLine DEF Host!Call
<1>6. down' = HP!Older(down, c) \cup {HP!CommandOf(c, seqnum'[c], x)}
  BY <1>1, <1>4 DEF Host!Call
<1>7. /\ up' = HP!Older(up, c)
      /\ \E S \in HP!Flush(c, inbox) : inbox' = [d \in {tool} |-> HP!Older(S[d], c)]
  BY <1>1, <1>2 DEF Host!Call
<1>8. seqnum' = [seqnum EXCEPT ![c] = HP!IncSeqnum(@)]
  BY <1>3 DEF Host!Call
<1> QED
  BY <1>5, <1>6, <1>7, <1>8 DEF Host!Call, HP!Call

\* a message taken,
LEMMA SamePoll ==
  ASSUME NEW c, NEW m, Host!Poll(c, m)
  PROVE  HP!Poll(c, m)
  BY Zenon
  DEF Host!Poll, HP!Poll, Host!IsReply, HP!IsReply, Host!Sharing, HP!Sharing

\* a further try,
LEMMA SameRetry == ASSUME NEW c, Host!Retry(c) PROVE HP!Retry(c)
<1>1. Host!Flush(c, inbox) = HP!Flush(c, inbox)
  BY Zenon DEF Host!Flush, HP!Flush
<1>2. \A s, x : Host!CommandOf(c, s, x) = HP!CommandOf(c, s, x)
  BY Zenon DEF Host!CommandOf, HP!CommandOf
<1> QED
  BY <1>1, <1>2, SameLine DEF Host!Retry, HP!Retry

\* a message delivered,
LEMMA SameDeliver == ASSUME NEW m, Host!Deliver(m) PROVE HP!Deliver(m)
  BY SameSize, Zenon
  DEF Host!Deliver, HP!Deliver, Host!Own, HP!Own, Host!callVars, HP!callVars

\* a command handled.
LEMMA SameHandle ==
  ASSUME NEW m, NEW keep, NEW re, Host!Handle(m, keep, re)
  PROVE  HP!Handle(m, keep, re)
  BY SameLine
  DEF Host!Handle, HP!Handle, Host!Reply, HP!Reply, Host!callVars, HP!callVars

\* The assumptions of HostCommandProofs are this module's.
LEMMA HostAssumptions == HP!HandlerAssumption
  BY PartsAssumption DEF Host!HandlerAssumption, HP!HandlerAssumption

\* Each step of the handler keeps its invariant.
LEMMA HostInit == Host!Init => Host!IInv
<1>1. Host!Init => HP!Init
  BY DEF Host!Init, HP!Init, Host!Limits, HP!Limits
<1> QED
  BY <1>1, HP!InitInv, HostAssumptions, SameInvariant DEF HP!HandlerAssumption

\* What the tool may ask of the handler.
Request == {<<"reboot">>, <<"erase">>} \cup {WritePage(p) : p \in Lst!Page}

\* A call keeps the handler's invariant.
LEMMA HostCall ==
  ASSUME Host!IInv, NEW x \in Request, NEW r \in {0, 1, NoLimit}, Host!Call(tool, x, r)
  PROVE  Host!IInv'
<1>1. HP!IInv /\ HP!Call(tool, x, r)
  BY SameInvariant, SameCall
<1>2. r \in [c \in {tool} |-> {0, 1, NoLimit}][tool]
  OBVIOUS
<1>3. HP!IInv'
  BY <1>1, <1>2, HP!CallInv, HostAssumptions DEF HP!HandlerAssumption, Request
<1> QED
  BY <1>3, SameInvariant, PTL

\* So does taking a message,
LEMMA HostPoll ==
  ASSUME Host!IInv, NEW m \in inbox[tool], Host!Poll(tool, m)
  PROVE  Host!IInv'
<1>1. HP!IInv /\ HP!Poll(tool, m)
  BY SameInvariant, SamePoll
<1>2. HP!IInv'
  BY <1>1, HP!PollInv, HostAssumptions DEF HP!HandlerAssumption
<1> QED
  BY <1>2, SameInvariant, PTL

\* trying again or giving up,
LEMMA HostRetry ==
  ASSUME Host!IInv, Host!Retry(tool) \/ Host!GiveUp(tool)
  PROVE  Host!IInv'
<1>1. HP!IInv /\ (HP!Retry(tool) \/ HP!GiveUp(tool))
  BY SameInvariant, SameRetry DEF Host!GiveUp, HP!GiveUp, Host!netVars, HP!netVars
<1>2. HP!IInv'
  BY <1>1, HP!RetryInv, HP!GiveUpInv, HostAssumptions DEF HP!HandlerAssumption
<1> QED
  BY <1>2, SameInvariant, PTL

\* a loss,
LEMMA HostLose ==
  ASSUME Host!IInv, Host!LoseCommand \/ Host!LoseMessage
  PROVE  Host!IInv'
<1>1. HP!IInv /\ (HP!LoseCommand \/ HP!LoseMessage)
  BY SameInvariant
  DEF Host!LoseCommand, HP!LoseCommand, Host!LoseMessage, HP!LoseMessage,
      Host!callVars, HP!callVars
<1>2. HP!IInv'
  BY <1>1, HP!LoseInv, HostAssumptions DEF HP!HandlerAssumption
<1> QED
  BY <1>2, SameInvariant, PTL

\* a delivery,
LEMMA HostDeliver ==
  ASSUME Host!IInv, NEW m \in up, Host!Deliver(m)
  PROVE  Host!IInv'
<1>1. HP!IInv /\ HP!Deliver(m)
  BY SameInvariant, SameDeliver
<1>2. HP!IInv'
  BY <1>1, HP!DeliverInv, HostAssumptions DEF HP!HandlerAssumption
<1> QED
  BY <1>2, SameInvariant, PTL

\* the node's answer,
LEMMA HostHandle ==
  ASSUME Host!IInv, NEW m \in down, NEW keep \in BOOLEAN,
         NEW re \in {Lst!NACK} \cup {Lst!ACK(n) : n \in Lst!Page \cup {Lst!ERASED}},
         Host!Handle(m, keep, re)
  PROVE  Host!IInv'
<1>1. HP!IInv /\ HP!Handle(m, keep, re)
  BY SameInvariant, SameHandle
<1>2. HP!IInv'
  BY <1>1, HP!HandleInv, HostAssumptions DEF HP!HandlerAssumption
<1> QED
  BY <1>2, SameInvariant, PTL

\* and whatever leaves the handler alone.
LEMMA HostIdle == ASSUME Host!IInv, UNCHANGED hostVars PROVE Host!IInv'
<1>1. HP!IInv /\ UNCHANGED HP!vars
  BY SameInvariant DEF hostVars, HP!vars, HP!callVars, HP!netVars
<1>2. HP!IInv'
  BY <1>1, HP!NextInv, HostAssumptions DEF HP!HandlerAssumption
<1> QED
  BY <1>2, SameInvariant, PTL

\* A message taken for the reply is one to the tool's last command.
LEMMA ReplyIsMine ==
  ASSUME Host!IInv, NEW m \in inbox[tool], Host!IsReply(tool, m)
  PROVE  m.client = tool /\ m.age = 0
<1>1. HP!IInv /\ HP!IsReply(tool, m)
  BY SameInvariant DEF Host!IsReply, HP!IsReply
<1> QED
  BY <1>1, HP!ReplyBelongs, HostAssumptions DEF HP!HandlerAssumption

-----------------------------------------------------------------------------
(***************************************************************************)
(* The steps of an update as steps of its parts.                           *)
(***************************************************************************)

\* A page is written whole: every page of the application passes the range
\* check of flash_write_app_page.
LEMMA PagesAreWritable == \A p \in Lst!AppPage : Lst!FlashWriteResult(p) = "ok"
<1>. SUFFICES ASSUME NEW p \in Lst!AppPage
              PROVE  Lst!Address(p) + FLASH_WRITE_PAGE_SIZE <= FLASH_APP_END + 1
  BY PartsAssumption
  DEF Lst!LayoutAssumption, Lst!FlashWriteResult, Lst!AppPage, Lst!Page, Lst!Address
<1>. DEFINE w == FLASH_WRITE_PAGE_SIZE
            e == FLASH_APP_END + 1
<1>1. w \in Nat \ {0} /\ e \in Nat /\ e % w = 0
  BY PartsAssumption, ImageAssumption DEF Lst!LayoutAssumption
<1>2. p \in Nat /\ p * w < e
  BY PartsAssumption, <1>1 DEF Lst!AppPage, Lst!Page, Lst!Address, Lst!LayoutAssumption
<1>3. PICK k \in Nat : e = k * w
  BY <1>1, LP!IsMultiple, LstAssumptions
  DEF LP!LayoutAssumption, LP!DelayAssumption, LP!ContentAssumption
<1>. HIDE DEF w, e
<1>4. p < k
  BY <1>1, <1>2, <1>3, SMT
<1>5. p * w + w <= k * w
  BY <1>1, <1>2, <1>3, <1>4, SMT
<1>. QED
  BY <1>3, <1>5 DEF w, e, Lst!Address

\* The image has a part for each page, which the tool may write.
LEMMA ImagePages ==
  /\ \A p \in Lst!AppPage : Image[p] \in Data
  /\ Lst!AppPage \subseteq Lst!Page /\ Lst!AppPage \subseteq Nat
  /\ Image \in [Lst!AppPage -> SUBSET Bit]
<1>1. Image \in [Lst!AppPage -> SUBSET Bit]
  BY PartsAssumption, ImageAssumption DEF Lst!ContentAssumption
<1>. QED
  BY <1>1, PartsAssumption DEF Data, Lst!AppPage, Lst!Page, Lst!LayoutAssumption

\* The commands are told apart, and so are the acknowledgements.
LEMMA Distinct ==
  /\ \A p, q : WritePage(p) = WritePage(q) => p = q
  /\ \A p : WritePage(p) # <<"reboot">> /\ WritePage(p) # <<"erase">>
  /\ <<"reboot">> # <<"erase">>
  /\ \A p, q : Lst!ACK(p) = Lst!ACK(q) => p = q
  /\ \A p : Lst!ACK(p) # Lst!NACK
  BY DEF WritePage, Lst!ACK, Lst!NACK

\* What the tool does leaves the node alone, and what the node does is a step
\* of the bootloader.
LEMMA ToolSteps ==
  ASSUME IInv, Tool \/ Handler \/ Network PROVE UNCHANGED lstVars
  BY DEF Tool, Handler, Network, Reboot, Erase, LoadFirst, LoadNext, Crash, Finish,
         End, Calls

\* Every step is one of the bootloader, or leaves it alone.
LEMMA LstSteps == ASSUME IInv, Next PROVE Lst!Next \/ UNCHANGED lstVars
<1>1. ASSUME NEW m \in down, Take(m) PROVE Lst!Next
  BY <1>1, ImagePages DEF Take, Lst!Next, Lst!Command
<1>2. ASSUME NEW m \in down, NEW keep \in BOOLEAN, Acknowledge(m, keep) PROVE Lst!Next
  BY <1>2 DEF Acknowledge, Lst!Next, Lst!Proceed
<1>3. ASSUME NEW m \in down, NEW keep \in BOOLEAN, Refuse(m, keep) PROVE Lst!Next
  BY <1>3 DEF Refuse, Lst!Next, Lst!Command
<1>4. ASSUME NEW m \in down, NEW keep \in BOOLEAN, AppRefuses(m, keep)
      PROVE UNCHANGED lstVars
  BY <1>4 DEF AppRefuses
<1>5. ASSUME (\E m \in down : AppReboots(m)) \/ PowerLoss \/ WatchdogReset PROVE Lst!Next
  BY <1>5 DEF AppReboots, PowerLoss, WatchdogReset, Resets, Lst!Next, Lst!PowerLoss
<1>6. ASSUME Updater PROVE Lst!Next
  BY <1>6 DEF Updater, Lst!Next, Lst!Proceed
<1> QED
  BY <1>1, <1>2, <1>3, <1>4, <1>5, <1>6, ToolSteps DEF Next, Node

\* Where the tool calls, and for what.
LEMMA ToolCalls ==
  ASSUME IInv, Tool, ~ Crash, ~ End
  PROVE  \E x \in Request, r \in {0, 1, NoLimit} : Calls(x, r, step')
<1>1. at \in Lst!Page /\ (LoadNext => at' \in Lst!Page)
  BY ImagePages DEF IInv, StepInv, Loaded, LoadNext
<1>2. LAST_PAGE \in Lst!Page
  BY PartsAssumption DEF Lst!Page, Lst!LayoutAssumption
<1> QED
  BY <1>1, <1>2 DEF Tool, Reboot, Erase, LoadFirst, LoadNext, Finish, Calls, Request

\* A reset loses at most the command the node was carrying out.
LEMMA ResetHost ==
  ASSUME IInv, NEW S \in SUBSET down, \A m, n \in S : m = n, Resets(S)
  PROVE  Host!LoseCommand \/ UNCHANGED hostVars
<1>1. PICK drop \in SUBSET S : down' = down \ drop
  BY DEF Resets
<1>2. CASE drop = {}
  BY <1>1, <1>2 DEF Resets, hostVars
<1>3. ASSUME NEW m \in drop PROVE Host!LoseCommand
  <2>1. drop = {m} /\ m \in down
    BY <1>3
  <2> QED
    BY <1>1, <2>1 DEF Resets, Host!LoseCommand, Host!callVars
<1> QED
  BY <1>2, <1>3

\* Every step of an update keeps the handler's invariant.
LEMMA HostSteps == ASSUME IInv, Next PROVE Host!IInv'
<1>. Host!IInv
  BY DEF IInv
<1>1. CASE Tool /\ ~ Crash /\ ~ End
  BY <1>1, ToolCalls, HostCall DEF Calls
<1>2. CASE Crash \/ End
  BY <1>2, HostIdle DEF Crash, End
<1>3. CASE Handler
  BY <1>3, HostPoll, HostRetry DEF Handler
<1>4. CASE Network
  BY <1>4, HostLose, HostDeliver DEF Network
<1>5. ASSUME NEW m \in down, Take(m) PROVE Host!IInv'
  BY <1>5, HostIdle DEF Take
<1>6. ASSUME NEW m \in down, NEW keep \in BOOLEAN, Acknowledge(m, keep) PROVE Host!IInv'
  <2>1. reply' \in {Lst!ACK(n) : n \in Lst!Page \cup {Lst!ERASED}}
    BY <1>6 DEF Acknowledge, Lst!EraseDone, Lst!WriteDone, IInv, Lst!IInv, Lst!TypeOK
  <2> QED
    BY <1>6, <2>1, HostHandle DEF Acknowledge
<1>7. ASSUME NEW m \in down, NEW keep \in BOOLEAN, Refuse(m, keep) PROVE Host!IInv'
  <2>1. reply' = Lst!NACK
    BY <1>7 DEF Refuse, Lst!RefuseWrite, Lst!OtherCommand
  <2> QED
    BY <1>7, <2>1, HostHandle DEF Refuse
<1>8. ASSUME NEW m \in down, NEW keep \in BOOLEAN, AppRefuses(m, keep) PROVE Host!IInv'
  BY <1>8, HostHandle DEF AppRefuses
<1>9. CASE (\E m \in down : AppReboots(m)) \/ PowerLoss \/ WatchdogReset
  <2>1. serving \in SUBSET down /\ \A m, n \in serving : m = n
    BY DEF IInv, TypeOK
  <2>2. Host!LoseCommand \/ UNCHANGED hostVars
    BY <1>9, <2>1, ResetHost DEF AppReboots, PowerLoss, WatchdogReset
  <2> QED
    BY <2>2, HostLose, HostIdle
<1>10. CASE Updater
  BY <1>10, HostIdle DEF Updater
<1> QED
  BY <1>1, <1>2, <1>3, <1>4, <1>5, <1>6, <1>7, <1>8, <1>9, <1>10 DEF Next, Node

\* Every step of an update keeps the invariants of its parts.
LEMMA PartsSteps == ASSUME IInv, Next PROVE Lst!IInv' /\ Host!IInv'
  BY LstSteps, LstStep, HostSteps DEF IInv

-----------------------------------------------------------------------------
(***************************************************************************)
(* What a step does to the flash and to the messages.                      *)
(***************************************************************************)

\* Before the tool loads nothing is written, and then nothing is erased but
\* what a page of the image adds.
LEMMA Quiet ==
  ASSUME IInv
  PROVE  /\ Loading => phase # "erasing"
         /\ ~ Loading => phase # "writing"
<1>1. ASSUME phase \in {"erasing", "writing"}
      PROVE  \E m \in down : \/ phase = "erasing" /\ m.cmd = <<"erase">>
                             \/ phase = "writing" /\ m.cmd = WritePage(page)
  BY <1>1 DEF IInv, TypeOK
<1> QED
  BY <1>1, Distinct, Zenon DEF IInv, CommandInv, InPlace

\* While nothing is erased, a page gains nothing but bits of the image,
LEMMA FlashGrows ==
  ASSUME IInv, Next, phase # "erasing", NEW p \in Lst!AppPage
  PROVE  flash[p] \subseteq flash'[p] /\ flash'[p] \subseteq flash[p] \cup Image[p]
<1>1. flash \in [Lst!Page -> SUBSET Bit] /\ p \in Lst!Page
  BY ImagePages DEF IInv, Lst!IInv, Lst!TypeOK, Lst!Flash
<1>2. phase = "writing" => page \in Lst!Page /\ (page = p => data = Image[p])
  BY ImagePages DEF IInv, CommandInv
<1>3. CASE Lst!WriteDone
  BY <1>1, <1>2, <1>3 DEF Lst!WriteDone
<1>4. CASE Lst!Reset
  <2>1. CASE phase = "writing"
    <3>1. PICK d \in SUBSET data : flash' = [flash EXCEPT ![page] = @ \cup d]
      BY <1>4, <2>1 DEF Lst!Reset, Lst!FlashAfterReset
    <3> QED
      BY <1>1, <1>2, <2>1, <3>1
  <2>2. CASE phase # "writing"
    BY <1>4, <2>2 DEF Lst!Reset, Lst!FlashAfterReset
  <2> QED
    BY <2>1, <2>2
<1>5. ASSUME ~ Lst!WriteDone, ~ Lst!Reset PROVE flash' = flash
  BY <1>5, LstSteps
  DEF lstVars, Lst!Next, Lst!Command, Lst!Proceed, Lst!PowerLoss, Lst!WatchdogReset,
      Lst!Countdown, Lst!EndPoll, Lst!Ping, Lst!OtherCommand, Lst!Erase, Lst!ErasePage,
      Lst!EraseDone, Lst!WritePage, Lst!RefuseWrite, Lst!Boot
<1> QED
  BY <1>3, <1>4, <1>5

\* and while nothing is written, it only loses bits.
LEMMA FlashShrinks ==
  ASSUME IInv, Next, phase # "writing", NEW p \in Lst!AppPage
  PROVE  flash'[p] \subseteq flash[p]
<1>1. p \in Lst!Page
  BY ImagePages
<1>2. CASE Lst!ErasePage
  BY <1>1, <1>2 DEF Lst!ErasePage
<1>3. CASE Lst!Reset
  <2>1. flash' \in Lst!FlashAfterReset
    BY <1>3 DEF Lst!Reset
  <2> QED
    BY <1>1, <2>1 DEF Lst!FlashAfterReset
<1>4. ASSUME ~ Lst!ErasePage, ~ Lst!Reset PROVE flash' = flash
  BY <1>4, LstSteps
  DEF lstVars, Lst!Next, Lst!Command, Lst!Proceed, Lst!PowerLoss, Lst!WatchdogReset,
      Lst!Countdown, Lst!EndPoll, Lst!Ping, Lst!OtherCommand, Lst!Erase, Lst!EraseDone,
      Lst!WritePage, Lst!RefuseWrite, Lst!WriteDone, Lst!Boot
<1> QED
  BY <1>2, <1>3, <1>4

\* A call: the commands under way get older, the new one is the tool's, and
\* no reply to it is there yet.
LEMMA CallEffects ==
  ASSUME IInv, NEW x \in Request, NEW r \in {0, 1, NoLimit}, Calls(x, r, step')
  PROVE  /\ cmd'[tool] = x /\ limit'[tool] = r
         /\ call'[tool] = "poll" /\ got'[tool] = {}
         /\ \A m \in down' : \/ m.age = 0 /\ m.cmd = x
                             \/ m.age # 0 /\ \E o \in down : m.cmd = o.cmd
         /\ Replies' = {}
<1>1. Host!Call(tool, x, r) /\ Host!TypeOK
  BY DEF Calls, IInv, Host!IInv
<1>2. /\ cmd' = [cmd EXCEPT ![tool] = x] /\ limit' = [limit EXCEPT ![tool] = r]
      /\ call' = [call EXCEPT ![tool] = "poll"] /\ got' = [got EXCEPT ![tool] = {}]
      /\ down' = Host!Older(down, tool) \cup {Host!CommandOf(tool, seqnum'[tool], x)}
      /\ up' = Host!Older(up, tool)
  BY <1>1 DEF Host!Call
<1>3. PICK S \in Host!Flush(tool, inbox) :
        inbox' = [d \in {tool} |-> Host!Older(S[d], tool)]
  BY <1>1 DEF Host!Call
<1>4. S[tool] \subseteq inbox[tool]
  BY <1>1 DEF Host!Flush, Host!TypeOK
<1>5. ASSUME NEW T \in SUBSET Host!Message, NEW m \in Host!Older(T, tool), m.client = tool
      PROVE  m.age # 0
  <2>1. PICK o \in T : m = IF o.client = tool THEN [o EXCEPT !.age = o.age + 1] ELSE o
    BY <1>5, Zenon DEF Host!Older
  <2>2. o.client = tool
    BY <1>5, <2>1
  <2>3. m = [o EXCEPT !.age = o.age + 1]
    BY <2>1, <2>2
  <2>4. o \in Host!Message /\ o.age \in Nat
    BY DEF Host!Message
  <2> QED
    BY <2>3, <2>4 DEF Host!Message
<1>6. ASSUME NEW m \in Host!Older(down, tool)
      PROVE  m.age # 0 /\ \E o \in down : m.cmd = o.cmd
  <2>1. PICK o \in down : m = IF o.client = tool THEN [o EXCEPT !.age = o.age + 1] ELSE o
    BY <1>6, Zenon DEF Host!Older
  <2>2. o \in Host!Command /\ o.client = tool /\ o.age \in Nat
    BY <1>1 DEF Host!TypeOK, Host!Command
  <2>3. m = [o EXCEPT !.age = o.age + 1]
    BY <2>1, <2>2
  <2> QED
    BY <2>2, <2>3 DEF Host!Command
<1>7. Replies' = {}
  <2>1. up \in SUBSET Host!Message /\ S[tool] \in SUBSET Host!Message
    BY <1>1, <1>4 DEF Host!TypeOK
  <2>2. up' \cup inbox'[tool] \cup got'[tool]
          = Host!Older(up, tool) \cup Host!Older(S[tool], tool)
    BY <1>1, <1>2, <1>3 DEF Host!TypeOK
  <2>3. Host!Own(tool, Host!Older(up, tool) \cup Host!Older(S[tool], tool)) = {}
    BY <1>5, <2>1 DEF Host!Own
  <2>4. Replies' = Host!Own(tool, up' \cup inbox'[tool] \cup got'[tool])
    BY DEF Replies
  <2> QED
    BY <2>2, <2>3, <2>4
<1>8. /\ cmd'[tool] = x /\ limit'[tool] = r
      /\ call'[tool] = "poll" /\ got'[tool] = {}
  BY <1>1, <1>2 DEF Host!TypeOK, Host!Limits
<1>9. /\ Host!CommandOf(tool, seqnum'[tool], x).age = 0
      /\ Host!CommandOf(tool, seqnum'[tool], x).cmd = x
  BY DEF Host!CommandOf
<1> QED
  BY <1>2, <1>6, <1>7, <1>8, <1>9

\* The steps that call.
Calling == Tool /\ ~ Crash /\ ~ End

\* Every other step leaves the tool's request as it is, adds no command but
\* the same again, and returns from a call without a limit only with a reply.
LEMMA OtherEffects ==
  ASSUME IInv, Next, ~ Calling
  PROVE  /\ UNCHANGED <<cmd, limit, at>>
         /\ step' = step \/ Crash \/ End
         /\ call'[tool] = "poll" => call[tool] = "poll"
         /\ Returned' /\ limit[tool] = NoLimit =>
              (Returned /\ got' = got) \/ got'[tool] # {}
         /\ \A m \in down' : \/ m \in down
                             \/ call[tool] = "poll" /\ m.age = 0 /\ m.cmd = cmd[tool]
<1> DEFINE P == /\ UNCHANGED <<cmd, limit, at>>
                /\ step' = step \/ Crash \/ End
                /\ call'[tool] = "poll" => call[tool] = "poll"
                /\ Returned' /\ limit[tool] = NoLimit =>
                     (Returned /\ got' = got) \/ got'[tool] # {}
                /\ \A m \in down' :
                     \/ m \in down
                     \/ call[tool] = "poll" /\ m.age = 0 /\ m.cmd = cmd[tool]
<1>1. ASSUME UNCHANGED <<call, cmd, limit, got, at, step>>, down' \subseteq down PROVE P
  BY <1>1 DEF Returned
<1>2. CASE Crash \/ End
  BY <1>2 DEF Crash, End, hostVars, Returned
<1>3. ASSUME NEW m \in inbox[tool], Host!Poll(tool, m), UNCHANGED toolVars PROVE P
  <2>1. CASE Host!IsReply(tool, m)
    <3>1. got' = [got EXCEPT ![tool] = {m}] /\ UNCHANGED <<cmd, limit, at, step, down>>
      BY <1>3, <2>1 DEF Host!Poll, toolVars
    <3>2. got'[tool] = {m} /\ call[tool] = "poll"
      BY <1>3, <3>1 DEF IInv, Host!IInv, Host!TypeOK, Host!Poll
    <3> QED
      BY <3>1, <3>2
  <2>2. CASE ~ Host!IsReply(tool, m)
    BY <1>3, <2>2, <1>1 DEF Host!Poll, toolVars
  <2> QED
    BY <2>1, <2>2
<1>4. ASSUME Host!Retry(tool), UNCHANGED toolVars PROVE P
  BY <1>4 DEF Host!Retry, Host!CommandOf, toolVars, Returned
<1>5. ASSUME Host!GiveUp(tool), UNCHANGED toolVars PROVE P
  BY <1>5 DEF Host!GiveUp, Host!netVars, toolVars
<1>6. CASE Handler
  BY <1>3, <1>4, <1>5, <1>6 DEF Handler
<1>7. CASE Network
  BY <1>1, <1>7 DEF Network, Host!LoseCommand, Host!LoseMessage, Host!Deliver,
                    Host!callVars, toolVars
<1>8. ASSUME NEW m \in down, NEW keep \in BOOLEAN,
             Take(m) \/ AppReboots(m) \/ Acknowledge(m, keep) \/ Refuse(m, keep)
               \/ AppRefuses(m, keep)
      PROVE  P
  BY <1>1, <1>8
  DEF Take, AppReboots, Resets, Acknowledge, Refuse, AppRefuses, Host!Handle,
      Host!callVars, hostVars, toolVars
<1>9. CASE PowerLoss \/ WatchdogReset \/ Updater
  BY <1>1, <1>9 DEF PowerLoss, WatchdogReset, Resets, Updater, hostVars, toolVars
<1> QED
  BY <1>2, <1>6, <1>7, <1>8, <1>9 DEF Next, Node, Calling

\* A reply to the tool's last command is new only if the node handles this
\* command.
LEMMA HandleReplies ==
  ASSUME IInv, NEW m \in down, NEW keep, NEW re, Host!Handle(m, keep, re),
         NEW x \in Replies'
  PROVE  x \in Replies \/ (m.age = 0 /\ x.re = re)
<1>1. up' = up \cup {Host!Reply(m, re)} /\ UNCHANGED <<inbox, got>>
  BY DEF Host!Handle, Host!callVars
<1>2. x \in up' \cup inbox'[tool] \cup got'[tool] /\ x.client = tool /\ x.age = 0
  BY DEF Replies, Host!Own
<1>3. CASE x = Host!Reply(m, re)
  BY <1>2, <1>3 DEF Host!Reply
<1>4. CASE x # Host!Reply(m, re)
  BY <1>1, <1>2, <1>4 DEF Replies, Host!Own
<1> QED
  BY <1>3, <1>4

Handles == \E m \in down, keep \in BOOLEAN :
  Acknowledge(m, keep) \/ Refuse(m, keep) \/ AppRefuses(m, keep)

\* Nor do replies come from anywhere else.
LEMMA OtherReplies ==
  ASSUME IInv, Next, ~ Calling, ~ Handles
  PROVE  Replies' \subseteq Replies
<1>1. ASSUME up' \subseteq up, inbox'[tool] \subseteq inbox[tool] \cup up,
             got'[tool] \subseteq got[tool] \cup inbox[tool]
      PROVE  Replies' \subseteq Replies
  BY <1>1 DEF Replies, Host!Own
<1>2. CASE Crash \/ End
  BY <1>1, <1>2 DEF Crash, End, hostVars
<1>. Host!TypeOK
  BY DEF IInv, Host!IInv
<1>3. CASE Handler
  <2>1. ASSUME NEW m \in inbox[tool], Host!Poll(tool, m) PROVE Replies' \subseteq Replies
    BY <1>1, <2>1 DEF Host!Poll, Host!TypeOK
  <2>2. ASSUME Host!Retry(tool) PROVE Replies' \subseteq Replies
    <3>1. inbox'[tool] \subseteq inbox[tool]
      BY <2>2 DEF Host!Retry, Host!Flush, Host!TypeOK
    <3> QED
      BY <1>1, <2>2, <3>1 DEF Host!Retry
  <2>3. ASSUME Host!GiveUp(tool) PROVE Replies' \subseteq Replies
    BY <1>1, <2>3 DEF Host!GiveUp, Host!netVars
  <2> QED
    BY <1>3, <2>1, <2>2, <2>3 DEF Handler
<1>4. CASE Network
  <2>1. ASSUME NEW m \in up, Host!Deliver(m) PROVE Replies' \subseteq Replies
    BY <1>1, <2>1 DEF Host!Deliver, Host!callVars
  <2> QED
    BY <1>1, <1>4, <2>1 DEF Network, Host!LoseCommand, Host!LoseMessage, Host!callVars
<1>5. ASSUME NEW m \in down, Take(m) \/ AppReboots(m) PROVE Replies' \subseteq Replies
  BY <1>1, <1>5 DEF Take, AppReboots, Resets, hostVars
<1>6. CASE PowerLoss \/ WatchdogReset \/ Updater
  BY <1>1, <1>6 DEF PowerLoss, WatchdogReset, Resets, Updater, hostVars
<1> QED
  BY <1>2, <1>3, <1>4, <1>5, <1>6 DEF Next, Node, Calling, Handles

-----------------------------------------------------------------------------
(***************************************************************************)
(* Every step keeps the invariant, one conjunct after the other.           *)
(***************************************************************************)

\* The node serves one command, which says what it is doing.
LEMMA ServingOne ==
  ASSUME IInv, NEW m \in serving
  PROVE  /\ serving = {m} /\ m \in down
         /\ \/ phase = "erasing" /\ m.cmd = <<"erase">>
            \/ phase = "writing" /\ m.cmd = WritePage(page)
  BY DEF IInv, TypeOK

\* The node is at work on a command exactly while it serves one.
LEMMA NextServing ==
  ASSUME IInv, Next
  PROVE  IF serving' = {} THEN phase' \notin {"erasing", "writing"}
         ELSE \E m \in down' : /\ serving' = {m}
                               /\ \/ phase' = "erasing" /\ m.cmd = <<"erase">>
                                  \/ phase' = "writing" /\ m.cmd = WritePage(page')
<1> DEFINE P == IF serving' = {} THEN phase' \notin {"erasing", "writing"}
                ELSE \E m \in down' : /\ serving' = {m}
                                      /\ \/ phase' = "erasing" /\ m.cmd = <<"erase">>
                                         \/ phase' = "writing" /\ m.cmd = WritePage(page')
<1>1. ASSUME UNCHANGED <<serving, phase, page>>, serving \subseteq down' PROVE P
  BY <1>1 DEF IInv, TypeOK
<1>2. serving \subseteq down
  BY DEF IInv, TypeOK
<1>3. CASE Calling
  <2>1. PICK x \in Request, r \in {0, 1, NoLimit} : Calls(x, r, step')
    BY <1>3, ToolCalls DEF Calling
  <2>2. /\ serving' = Host!Older(serving, tool) /\ UNCHANGED lstVars
        /\ \A m \in serving : m.age + 1 < Host!Range
        /\ Host!Older(down, tool) \subseteq down'
    BY <2>1 DEF Calls, Host!Call
  <2>3. CASE serving = {}
    BY <2>2, <2>3 DEF Host!Older, lstVars, IInv, TypeOK
  <2>4. ASSUME NEW m \in serving PROVE P
    <3>1. /\ serving = {m} /\ m \in down
          /\ \/ phase = "erasing" /\ m.cmd = <<"erase">>
             \/ phase = "writing" /\ m.cmd = WritePage(page)
      BY <2>4, ServingOne
    <3>2. m \in Host!Command /\ m.client = tool
      BY <3>1 DEF IInv, Host!IInv, Host!TypeOK, Host!Command
    <3> DEFINE o == [m EXCEPT !.age = m.age + 1]
    <3>3. o.cmd = m.cmd
      BY <3>2 DEF Host!Command
    <3>4. serving' = {o} /\ o \in Host!Older(down, tool)
      BY <2>2, <3>1, <3>2, Zenon DEF Host!Older
    <3> HIDE DEF o
    <3> QED
      BY <2>2, <3>1, <3>3, <3>4 DEF lstVars
  <2> QED
    BY <2>3, <2>4
<1>4. CASE Crash \/ End \/ Handler
  BY <1>1, <1>2, <1>4 DEF Crash, End, Handler, hostVars, lstVars, Host!Poll, Host!Retry,
                          Host!GiveUp, Host!netVars
<1>5. CASE Network
  BY <1>1, <1>2, <1>5 DEF Network, lstVars, Host!LoseMessage, Host!Deliver
<1>6. ASSUME NEW m \in down, Take(m) PROVE P
  BY <1>6 DEF Take, Lst!Erase, Lst!WritePage, hostVars
<1>7. ASSUME NEW m \in down, NEW keep \in BOOLEAN, Acknowledge(m, keep) PROVE P
  BY <1>7 DEF Acknowledge, Lst!EraseDone, Lst!WriteDone
<1>8. ASSUME NEW m \in down, NEW keep \in BOOLEAN, Refuse(m, keep) PROVE P
  <2>1. phase = "poll" /\ phase' = "poll" /\ serving' = serving
    BY <1>8 DEF Refuse, Lst!RefuseWrite, Lst!OtherCommand
  <2> QED
    BY <2>1 DEF IInv, TypeOK
<1>9. ASSUME NEW m \in down, NEW keep \in BOOLEAN, AppRefuses(m, keep) PROVE P
  <2>1. phase = "app" /\ phase' = "app" /\ serving' = serving
    BY <1>9 DEF AppRefuses, lstVars
  <2> QED
    BY <2>1 DEF IInv, TypeOK
<1>10. CASE (\E m \in down : AppReboots(m)) \/ PowerLoss \/ WatchdogReset
  BY <1>10 DEF AppReboots, PowerLoss, WatchdogReset, Resets, Lst!Reset
<1>11. CASE Updater
  <2>1. CASE Lst!ErasePage
    BY <1>1, <1>2, <1>11, <2>1 DEF Updater, hostVars, Lst!ErasePage
  <2>2. CASE ~ Lst!ErasePage
    <3>1. /\ phase \notin {"erasing", "writing"} /\ phase' \notin {"erasing", "writing"}
          /\ serving' = serving
      BY <1>11, <2>2 DEF Updater, Lst!Countdown, Lst!EndPoll, Lst!Boot
    <3> QED
      BY <3>1 DEF IInv, TypeOK
  <2> QED
    BY <2>1, <2>2
<1> QED
  BY <1>3, <1>4, <1>5, <1>6, <1>7, <1>8, <1>9, <1>10, <1>11 DEF Next, Node, Calling

\* The tool's place keeps to its call.
LEMMA NextStepInv == ASSUME IInv, Next PROVE StepInv'
<1>1. CASE Calling
  <2>1. PICK x \in Request, r \in {0, 1, NoLimit} : Calls(x, r, step')
    BY <1>1, ToolCalls DEF Calling
  <2>2. /\ cmd'[tool] = x /\ limit'[tool] = r /\ ~ Returned'
    BY <2>1, CallEffects DEF Returned
  <2>3. \A y, q : Host!Call(tool, y, q) => cmd'[tool] = y /\ limit'[tool] = q
    BY DEF Host!Call, IInv, Host!IInv, Host!TypeOK, Host!Limits
  <2>4. CASE Reboot
    BY <2>4 DEF Reboot, Calls, IInv, StepInv, Loading
  <2>5. CASE Erase
    BY <2>3, <2>5 DEF Erase, Calls, IInv, StepInv, Loading
  <2>6. CASE LoadFirst
    BY <2>2, <2>3, <2>6 DEF LoadFirst, Calls, IInv, StepInv, Loading
  <2>7. CASE LoadNext
    BY <2>2, <2>3, <2>7 DEF LoadNext, Calls, IInv, StepInv, Loading
  <2>8. CASE Finish
    BY <2>8 DEF Finish, Calls, IInv, StepInv, Loading
  <2> QED
    BY <1>1, <2>4, <2>5, <2>6, <2>7, <2>8 DEF Calling, Tool
<1>2. CASE ~ Calling
  <2>1. CASE Crash \/ End
    BY <2>1 DEF Crash, End, IInv, StepInv, Loading
  <2>2. CASE step' = step
    BY <1>2, <2>2, OtherEffects DEF IInv, StepInv, Loading, Returned
  <2> QED
    BY <1>2, <2>1, <2>2, OtherEffects
<1> QED
  BY <1>1, <1>2

\* The page and its data change only when a command is taken.
LEMMA NextWriting ==
  ASSUME IInv, Next
  PROVE  phase' = "writing" => page' \in Lst!AppPage /\ data' = Image[page']
<1>1. CASE UNCHANGED <<phase, page, data>> \/ phase' # "writing"
  BY <1>1 DEF IInv, CommandInv
<1>2. ASSUME NEW m \in down, Take(m)
      PROVE  phase' = "writing" => page' \in Lst!AppPage /\ data' = Image[page']
  BY <1>2 DEF Take, Lst!Erase, Lst!WritePage
<1>3. CASE Tool \/ Handler \/ Network
  BY <1>1, <1>3, ToolSteps DEF lstVars
<1>4. ASSUME NEW m \in down, NEW keep \in BOOLEAN,
             AppReboots(m) \/ Acknowledge(m, keep) \/ Refuse(m, keep) \/ AppRefuses(m, keep)
      PROVE  UNCHANGED <<phase, page, data>> \/ phase' # "writing"
  BY <1>4
  DEF AppReboots, Resets, Acknowledge, Refuse, AppRefuses, lstVars, Lst!Reset,
      Lst!EraseDone, Lst!WriteDone, Lst!RefuseWrite, Lst!OtherCommand
<1>5. CASE PowerLoss \/ WatchdogReset \/ Updater
  BY <1>1, <1>5
  DEF PowerLoss, WatchdogReset, Resets, Updater, Lst!Reset, Lst!Countdown, Lst!EndPoll,
      Lst!ErasePage, Lst!Boot
<1> QED
  BY <1>1, <1>2, <1>3, <1>4, <1>5 DEF Next, Node

\* The commands under way keep to the tool's place.
LEMMA NextCommand == ASSUME IInv, Next PROVE CommandInv'
<1>1. CASE Calling
  <2>1. PICK x \in Request, r \in {0, 1, NoLimit} : Calls(x, r, step')
    BY <1>1, ToolCalls DEF Calling
  <2>2. /\ cmd'[tool] = x
        /\ \A m \in down' : \/ m.age = 0 /\ m.cmd = x
                            \/ m.age # 0 /\ \E o \in down : m.cmd = o.cmd
    BY <2>1, CallEffects
  <2>3. \A y, q, t : Calls(y, q, t) => cmd'[tool] = y /\ step' = t
    BY DEF Calls, Host!Call, IInv, Host!IInv, Host!TypeOK
  <2>4. InPlace(x)' /\ \A o \in down : InPlace(o.cmd) => InPlace(o.cmd)'
    <3>1. CASE Reboot
      BY <2>2, <2>3, <3>1 DEF Reboot, InPlace, Loading
    <3>2. CASE Erase
      BY <2>2, <2>3, <3>2 DEF Erase, InPlace, Loading
    <3>3. CASE LoadFirst
      BY <2>2, <2>3, <3>3, Distinct DEF LoadFirst, InPlace, Loading, Slept
    <3>4. CASE LoadNext
      BY <2>2, <2>3, <3>4, Distinct DEF LoadNext, InPlace, Loading
    <3>5. CASE Finish
      BY <2>2, <2>3, <3>5, Distinct DEF Finish, InPlace, Loading
    <3> QED
      BY <1>1, <3>1, <3>2, <3>3, <3>4, <3>5 DEF Calling, Tool
  <2>5. \A m \in down' : InPlace(m.cmd)' /\ (m.age = 0 => m.cmd = cmd'[tool])
    BY <2>2, <2>4 DEF IInv, CommandInv, InPlace
  <2> QED
    BY <2>2, <2>4, <2>5, NextWriting DEF CommandInv, InPlace
<1>2. CASE ~ Calling
  <2>1. Loading' <=> Loading
    BY <1>2, OtherEffects DEF Crash, End, Loading
  <2>2. \A m \in down' : InPlace(m.cmd)' /\ (m.age = 0 => m.cmd = cmd'[tool])
    BY <1>2, <2>1, OtherEffects DEF IInv, CommandInv, InPlace, Returned
  <2>3. Returned' \/ InPlace(cmd[tool])'
    <3>1. call'[tool] \in {"poll", "returned"}
      BY PartsSteps DEF Host!IInv, Host!TypeOK
    <3> QED
      BY <1>2, <2>1, <3>1, OtherEffects DEF IInv, CommandInv, InPlace, Returned
  <2> QED
    BY <2>2, <2>3, NextWriting DEF CommandInv
<1> QED
  BY <1>1, <1>2

\* What the tool takes for a reply is one of its replies.
LEMMA GotReplies == ASSUME IInv PROVE got[tool] \subseteq Replies
  BY DEF IInv, Host!IInv, Host!ReplyIsOwn, Replies, Host!Own

\* A flash that holds the image, and grows only by it, goes on to hold it.
LEMMA ImageStays ==
  ASSUME IInv, Next, phase # "erasing", Lst!AppImage = Image
  PROVE  Lst!AppImage' = Image
<1>1. \A p \in Lst!AppPage : flash[p] = Image[p]
  BY DEF Lst!AppImage
<1>2. \A p \in Lst!AppPage : flash'[p] = Image[p]
  BY <1>1, FlashGrows
<1> QED
  BY <1>2, ImagePages DEF Lst!AppImage

\* What a reply to the tool's last command shows when the node sends it.
LEMMA FreshReply ==
  ASSUME IInv, Next, NEW m \in down, NEW keep \in BOOLEAN, m.age = 0,
         Acknowledge(m, keep) \/ Refuse(m, keep) \/ AppRefuses(m, keep)
  PROVE  \E re :
           /\ Host!Handle(m, keep, re)
           /\ step = "erase" /\ re = Lst!ACK(Lst!ERASED) =>
                \A p \in Lst!AppPage : flash'[p] = {}
           /\ step = "load" => IF re = Lst!ACK(at) THEN flash'[at] = Image[at]
                               ELSE Lst!AppImage' = Image
<1>1. m.cmd = cmd[tool]
  BY DEF IInv, CommandInv
<1>2. at \in Lst!AppPage
  BY DEF IInv, StepInv, Loaded
<1>3. CASE Acknowledge(m, keep)
  <2>1. m \in serving /\ Host!Handle(m, keep, reply')
    BY <1>3 DEF Acknowledge
  <2>2. \/ phase = "erasing" /\ m.cmd = <<"erase">>
        \/ phase = "writing" /\ m.cmd = WritePage(page)
    BY <2>1, ServingOne
  <2>3. CASE step = "erase"
    <3>1. phase = "erasing"
      BY <1>1, <2>2, <2>3, Distinct DEF IInv, StepInv
    <3>2. addr > FLASH_APP_END /\ flash' = flash
      BY <1>3, <3>1 DEF Acknowledge, Lst!EraseDone, Lst!WriteDone
    <3>3. \A p \in Lst!AppPage : Lst!Address(p) < addr
      <4>1. addr \in Nat
        BY DEF IInv, Lst!IInv, Lst!TypeOK
      <4> QED
        BY <3>2, <4>1, PartsAssumption
        DEF Lst!LayoutAssumption, Lst!AppPage, Lst!Page, Lst!Address
    <3>4. \A p \in Lst!AppPage : flash'[p] = {}
      BY <3>1, <3>2, <3>3 DEF IInv, Lst!IInv, Lst!PassedPagesErased
    <3> QED
      BY <2>1, <2>3, <3>4
  <2>4. CASE step = "load"
    <3>1. phase = "writing" /\ page = at
      BY <1>1, <2>2, <2>4, Distinct DEF IInv, StepInv
    <3>2. Lst!WriteDone /\ data = Image[at]
      BY <1>3, <3>1 DEF Acknowledge, Lst!EraseDone, IInv, CommandInv
    <3>3. flash[at] \subseteq Image[at]
      BY <1>2, <2>4 DEF IInv, LoadedPagesStay
    <3>4. flash \in [Lst!Page -> SUBSET Bit] /\ at \in Lst!Page
      BY <1>2, ImagePages DEF IInv, Lst!IInv, Lst!TypeOK, Lst!Flash
    <3>5. flash'[at] = Image[at] /\ reply' = Lst!ACK(at)
      BY <3>1, <3>2, <3>3, <3>4 DEF Lst!WriteDone
    <3> QED
      BY <2>1, <2>4, <3>5
  <2> QED
    BY <2>1, <2>3, <2>4
<1>4. CASE Refuse(m, keep)
  <2>1. Host!Handle(m, keep, Lst!NACK)
    BY <1>4 DEF Refuse, Lst!RefuseWrite, Lst!OtherCommand
  <2>2. step # "load"
    <3>1. CASE m.cmd = <<"reboot">>
      BY <1>1, <3>1, Distinct DEF IInv, StepInv
    <3>2. ASSUME NEW p \in Lst!Page, m.cmd = WritePage(p), Lst!RefuseWrite(p), step = "load"
          PROVE  FALSE
      <4>1. p = at
        BY <1>1, <3>2, Distinct DEF IInv, StepInv
      <4> QED
        BY <1>2, <3>2, <4>1, PagesAreWritable DEF Lst!RefuseWrite
    <3> QED
      BY <1>4, <3>1, <3>2 DEF Refuse
  <2> QED
    BY <2>1, <2>2, Distinct
<1>5. CASE AppRefuses(m, keep)
  <2>1. Host!Handle(m, keep, Lst!NACK) /\ phase = "app" /\ UNCHANGED lstVars
    BY <1>5 DEF AppRefuses
  <2>2. ASSUME step = "load" PROVE Lst!AppImage' = Image
    <3>1. Lst!AppImage \in SignedImages
      BY <2>1 DEF IInv, Lst!IInv, Lst!OnlySignedImagesRun, Lst!SignatureAppValid
    <3>2. \A p \in Lst!AppPage : Lst!AppImage[p] \subseteq Image[p]
      BY <2>2 DEF IInv, LoadedPagesStay, Lst!AppImage
    <3>3. Lst!AppImage = Image
      BY <3>1, <3>2, ImageAssumption
    <3> QED
      BY <2>1, <3>3, ImageStays
  <2> QED
    BY <2>1, <2>2, Distinct
<1> QED
  BY <1>3, <1>4, <1>5

\* Replies go on to show what they showed, and new ones show it.
LEMMA NextReply == ASSUME IInv, Next PROVE ReplyInv'
<1>1. CASE Calling
  <2>1. PICK x \in Request, r \in {0, 1, NoLimit} : Calls(x, r, step')
    BY <1>1, ToolCalls DEF Calling
  <2>2. Replies' = {}
    BY <2>1, CallEffects
  <2> QED
    BY <2>2 DEF ReplyInv
<1>2. CASE Crash \/ End
  BY <1>2 DEF Crash, End, ReplyInv
<1>3. CASE ~ Calling /\ ~ Crash /\ ~ End
  <2>1. step' = step /\ at' = at
    BY <1>3, OtherEffects
  <2>2. at \in Lst!AppPage
    BY DEF IInv, StepInv, Loaded
  <2>3. ASSUME step = "erase", NEW x \in Replies', x.re = Lst!ACK(Lst!ERASED),
               NEW p \in Lst!AppPage
        PROVE  flash'[p] = {}
    <3>1. CASE x \in Replies
      <4>1. flash[p] = {}
        BY <2>3, <3>1 DEF IInv, ReplyInv
      <4>2. phase # "writing"
        BY <2>3, Quiet DEF Loading
      <4> QED
        BY <4>1, <4>2, FlashShrinks
    <3>2. CASE x \notin Replies
      <4>1. PICK m \in down, keep \in BOOLEAN :
              Acknowledge(m, keep) \/ Refuse(m, keep) \/ AppRefuses(m, keep)
        BY <1>3, <3>2, OtherReplies DEF Handles
      <4>2. PICK re : Host!Handle(m, keep, re)
        BY <4>1 DEF Acknowledge, Refuse, AppRefuses
      <4>3. m.age = 0
        BY <3>2, <4>2, HandleReplies
      <4>4. PICK a : /\ Host!Handle(m, keep, a)
                     /\ a = Lst!ACK(Lst!ERASED) => flash'[p] = {}
        BY <2>3, <4>1, <4>3, FreshReply
      <4>5. x.re = a
        BY <3>2, <4>4, HandleReplies
      <4> QED
        BY <2>3, <4>4, <4>5
    <3> QED
      BY <3>1, <3>2
  <2>4. ASSUME step = "load", NEW x \in Replies'
        PROVE  IF x.re = Lst!ACK(at) THEN flash'[at] = Image[at] ELSE Lst!AppImage' = Image
    <3>1. CASE x \in Replies
      <4>1. IF x.re = Lst!ACK(at) THEN flash[at] = Image[at] ELSE Lst!AppImage = Image
        BY <2>4, <3>1 DEF IInv, ReplyInv
      <4>2. phase # "erasing"
        BY <2>4, Quiet DEF Loading
      <4>3. flash[at] \subseteq flash'[at] /\ flash'[at] \subseteq flash[at] \cup Image[at]
        BY <2>2, <4>2, FlashGrows
      <4>4. flash[at] = Image[at] => flash'[at] = Image[at]
        BY <4>3
      <4>5. Lst!AppImage = Image => Lst!AppImage' = Image
        BY <4>2, ImageStays
      <4> QED
        BY <4>1, <4>4, <4>5
    <3>2. CASE x \notin Replies
      <4>1. PICK m \in down, keep \in BOOLEAN :
              Acknowledge(m, keep) \/ Refuse(m, keep) \/ AppRefuses(m, keep)
        BY <1>3, <3>2, OtherReplies DEF Handles
      <4>2. PICK re : Host!Handle(m, keep, re)
        BY <4>1 DEF Acknowledge, Refuse, AppRefuses
      <4>3. m.age = 0
        BY <3>2, <4>2, HandleReplies
      <4>4. PICK a : /\ Host!Handle(m, keep, a)
                     /\ IF a = Lst!ACK(at) THEN flash'[at] = Image[at]
                        ELSE Lst!AppImage' = Image
        BY <2>4, <4>1, <4>3, FreshReply
      <4>5. x.re = a
        BY <3>2, <4>4, HandleReplies
      <4> QED
        BY <4>4, <4>5
    <3> QED
      BY <3>1, <3>2
  <2> QED
    BY <2>1, <2>3, <2>4 DEF ReplyInv
<1> QED
  BY <1>1, <1>2, <1>3

\* The pages before the next one to load, and all of them after the last, hold
\* the image: empty pages because nothing else is there.
LEMMA NextLoaded == ASSUME IInv, Next PROVE LoadedPagesStay'
<1>1. \A p \in Lst!AppPage \ Loaded : Image[p] = {}
  BY DEF Loaded
<1>2. CASE LoadFirst
  <2>1. flash' = flash /\ step' = "load" /\ at' = at
    BY <1>2, ToolSteps DEF LoadFirst, Calls, Tool, lstVars
  <2>2. \A p \in Lst!AppPage : flash[p] = {}
    BY <1>2, GotReplies DEF LoadFirst, Answered, IInv, ReplyInv
  <2>3. \A p \in Lst!AppPage : p < at => Image[p] = {}
    <3>1. \A q \in Loaded : at <= q
      BY <1>2 DEF LoadFirst, IInv, StepInv, Loading
    <3>2. at \in Nat /\ \A p \in Lst!AppPage : p \in Nat
      BY ImagePages DEF IInv, StepInv, Loaded
    <3> QED
      BY <1>1, <3>1, <3>2
  <2> QED
    BY <2>1, <2>2, <2>3 DEF LoadedPagesStay
<1>3. CASE LoadNext \/ Finish
  <2>1. flash' = flash
    BY <1>3, ToolSteps DEF Tool, lstVars
  <2>2. /\ step = "load" /\ Answered(Lst!ACK(at)) /\ step' \in {"load", "finish"}
        /\ step' = "finish" => \A q \in Loaded : q <= at
        /\ step' = "load" => at' \in Loaded /\ \A q \in Loaded : q > at => at' <= q
    BY <1>3 DEF LoadNext, Finish, Calls
  <2>3. flash[at] = Image[at]
    BY <2>2, GotReplies DEF Answered, IInv, ReplyInv
  <2>4. \A p \in Lst!AppPage : /\ flash[p] \subseteq Image[p]
                               /\ p < at => flash[p] = Image[p]
    BY <2>2 DEF IInv, LoadedPagesStay
  <2>5. /\ at \in Nat /\ (step' = "load" => at' \in Nat)
        /\ \A p \in Lst!AppPage : p \in Nat
    BY <2>2, ImagePages DEF IInv, StepInv, Loaded
  <2>6. \A p \in Lst!AppPage :
          p < at' \/ step' # "load" => p < at \/ p = at \/ p \notin Loaded
    BY <2>2, <2>5
  <2>7. \A p \in Lst!AppPage : p < at' \/ step' # "load" => flash[p] = Image[p]
    BY <1>1, <2>3, <2>4, <2>6
  <2> QED
    BY <2>1, <2>4, <2>7 DEF LoadedPagesStay
<1>4. CASE End
  BY <1>4 DEF End, lstVars, IInv, LoadedPagesStay
<1>5. CASE Reboot \/ Erase \/ Crash
  BY <1>5 DEF Reboot, Erase, Crash, Calls, LoadedPagesStay
<1>6. CASE ~ Tool
  <2>1. step' = step /\ at' = at
    BY <1>6, OtherEffects DEF Calling, Tool
  <2>2. CASE step \in {"load", "finish", "end"}
    <3>1. phase # "erasing"
      BY <2>2, Quiet DEF Loading
    <3> QED
      BY <2>1, <2>2, <3>1, FlashGrows DEF IInv, LoadedPagesStay
  <2>3. CASE step \notin {"load", "finish", "end"}
    BY <2>1, <2>3 DEF LoadedPagesStay
  <2> QED
    BY <2>2, <2>3
<1> QED
  BY <1>2, <1>3, <1>4, <1>5, <1>6 DEF Tool

\* An unexpected reply is the nack of the application, and that is the image.
LEMMA NextCrash == ASSUME IInv, Next PROVE CrashMeansInstalled'
<1>1. CASE Crash
  <2>1. /\ step = "load" /\ Returned /\ ~ Answered(Lst!ACK(at)) /\ flash' = flash
    BY <1>1 DEF Crash, lstVars
  <2>2. PICK m \in got[tool] : TRUE
    BY <2>1 DEF IInv, StepInv
  <2>3. Lst!AppImage = Image
    BY <2>1, <2>2, GotReplies DEF Answered, IInv, ReplyInv
  <2> QED
    BY <2>1, <2>3 DEF CrashMeansInstalled, Lst!AppImage
<1>2. CASE ~ Crash
  <2>1. ASSUME step' = "crashed" PROVE step = "crashed" /\ ~ Tool
    <3>1. ~ Tool
      BY <1>2, <2>1
      DEF Tool, Reboot, Erase, LoadFirst, LoadNext, Finish, End, Calls
    <3> QED
      BY <1>2, <2>1, <3>1, OtherEffects DEF Calling, Tool
  <2>2. ASSUME step = "crashed" PROVE Lst!AppImage' = Image
    BY <2>2, Quiet, ImageStays DEF Loading, IInv, CrashMeansInstalled
  <2> QED
    BY <2>1, <2>2 DEF CrashMeansInstalled
<1> QED
  BY <1>1, <1>2

\* Types are kept.
LEMMA NextType == ASSUME IInv, Next PROVE TypeOK'
<1>1. step' \in {"start", "reboot", "erase", "load", "finish", "end", "crashed"}
  BY OtherEffects
  DEF IInv, TypeOK, Calling, Tool, Reboot, Erase, LoadFirst, LoadNext, Finish, Crash,
      End, Calls
<1>2. at' \in Lst!AppPage
  BY NextStepInv DEF StepInv, Loaded
<1> QED
  BY <1>1, <1>2, NextServing DEF TypeOK

\* Every step keeps the invariant,
LEMMA NextInv == IInv /\ [Next]_vars => IInv'
<1>1. ASSUME IInv, Next PROVE IInv'
  BY <1>1, NextType, PartsSteps, NextCommand, NextStepInv, NextReply, NextLoaded,
     NextCrash
  DEF IInv
<1>2. ASSUME IInv, UNCHANGED vars PROVE IInv'
  <2>1. UNCHANGED lstVars /\ UNCHANGED hostVars /\ UNCHANGED toolVars /\ serving' = serving
    BY <1>2 DEF vars
  <2>2. Lst!IInv' /\ Host!IInv'
    BY <1>2, <2>1, LstStep, HostIdle DEF IInv
  <2>3. TypeOK' /\ CommandInv' /\ StepInv'
    BY <1>2, <2>1
    DEF IInv, TypeOK, CommandInv, StepInv, lstVars, hostVars, toolVars, InPlace, Loading,
        Returned
  <2>4. ReplyInv' /\ LoadedPagesStay' /\ CrashMeansInstalled'
    BY <1>2, <2>1
    DEF IInv, ReplyInv, LoadedPagesStay, CrashMeansInstalled, lstVars, hostVars, toolVars,
        Replies, Host!Own, Lst!AppImage
  <2> QED
    BY <2>2, <2>3, <2>4 DEF IInv
<1> QED
  BY <1>1, <1>2

\* which holds initially.
LEMMA InitInv == Init => IInv
<1>. SUFFICES ASSUME Init PROVE IInv
  OBVIOUS
<1>1. Lst!IInv /\ Host!IInv
  BY LstInit, HostInit DEF Init
<1>2. at \in Loaded /\ step = "start" /\ serving = {} /\ phase = "updater"
  BY DEF Init, Lst!Init
<1>3. TypeOK
  BY <1>2 DEF TypeOK, Loaded
<1>4. CommandInv
  BY <1>2 DEF Init, Host!Init, CommandInv, Returned
<1>5. StepInv
  BY <1>2 DEF Init, StepInv, Loading
<1>6. ReplyInv /\ LoadedPagesStay /\ CrashMeansInstalled
  BY <1>2 DEF ReplyInv, LoadedPagesStay, CrashMeansInstalled
<1> QED
  BY <1>1, <1>3, <1>4, <1>5, <1>6 DEF IInv

-----------------------------------------------------------------------------
(***************************************************************************)
(* The theorems.                                                           *)
(***************************************************************************)

\* The invariant of an update holds in every reachable state: those of the
\* handler and of the bootloader, and what relates the tool's place, the
\* messages under way and the flash.
THEOREM UpdateInvariant == Spec => []IInv
  BY InitInv, NextInv, PTL DEF Spec

\* Every value has its type; the node serves one command at most.
THEOREM TypeCorrect == Spec => []TypeOK
<1>1. IInv => TypeOK
  BY DEF IInv
<1> QED
  BY <1>1, UpdateInvariant, PTL

\* For any image and layout, whatever is lost, repeated or late, and whenever
\* the node is reset: the pages the tool has loaded hold the image, and no
\* page holds anything else.
THEOREM LoadedPages == Spec => []LoadedPagesStay
<1>1. IInv => LoadedPagesStay
  BY DEF IInv
<1> QED
  BY <1>1, UpdateInvariant, PTL

\* When the tool ends with an error while it loads, the image is complete.
THEOREM CrashIsHarmless == Spec => []CrashMeansInstalled
<1>1. IInv => CrashMeansInstalled
  BY DEF IInv
<1> QED
  BY <1>1, UpdateInvariant, PTL

-----------------------------------------------------------------------------
(***************************************************************************)
(* An update is a run of the bootloader and of the command handler, so     *)
(* that whatever holds of every run of these holds of an update.           *)
(***************************************************************************)

\* A step of an update is a step of the handler, or leaves it alone: the node
\* of an update answers as the handler's node may, and a reset is a loss.
LEMMA HostNext == ASSUME IInv, Next PROVE Host!Next \/ UNCHANGED hostVars
<1>1. CASE Tool /\ ~ Crash /\ ~ End
  <2>1. PICK x \in Request, r \in {0, 1, NoLimit} : Host!Call(tool, x, r)
    BY <1>1, ToolCalls DEF Calls
  <2> QED
    BY <2>1 DEF Host!Next, Host!Tool, Request
<1>2. CASE Crash \/ End \/ Updater
  BY <1>2 DEF Crash, End, Updater
<1>3. CASE Handler
  BY <1>3 DEF Handler, Host!Next, Host!Tool
<1>4. CASE Network
  BY <1>4 DEF Network, Host!Next, Host!Network
<1>5. ASSUME NEW m \in down, Take(m) PROVE UNCHANGED hostVars
  BY <1>5 DEF Take
<1>6. ASSUME NEW m \in down, NEW keep \in BOOLEAN,
             NEW re \in {Lst!NACK} \cup {Lst!ACK(n) : n \in Lst!Page \cup {Lst!ERASED}},
             Host!Handle(m, keep, re)
      PROVE  Host!Next
  BY <1>6 DEF Host!Next, Host!Nodes
<1>7. ASSUME NEW m \in down, NEW keep \in BOOLEAN,
             Acknowledge(m, keep) \/ Refuse(m, keep) \/ AppRefuses(m, keep)
      PROVE  Host!Next
  <2>1. Lst!EraseDone \/ Lst!WriteDone
          => reply' \in {Lst!ACK(n) : n \in Lst!Page \cup {Lst!ERASED}}
    BY DEF Lst!EraseDone, Lst!WriteDone, IInv, Lst!IInv, Lst!TypeOK
  <2>2. Refuse(m, keep) => reply' = Lst!NACK
    BY DEF Refuse, Lst!RefuseWrite, Lst!OtherCommand
  <2> QED
    BY <1>6, <1>7, <2>1, <2>2 DEF Acknowledge, Refuse, AppRefuses
<1>8. CASE (\E m \in down : AppReboots(m)) \/ PowerLoss \/ WatchdogReset
  <2>1. serving \in SUBSET down /\ \A m, n \in serving : m = n
    BY DEF IInv, TypeOK
  <2>2. Host!LoseCommand \/ UNCHANGED hostVars
    BY <1>8, <2>1, ResetHost DEF AppReboots, PowerLoss, WatchdogReset
  <2> QED
    BY <2>2 DEF Host!Next, Host!Network
<1> QED
  BY <1>1, <1>2, <1>3, <1>4, <1>5, <1>7, <1>8 DEF Next, Node

\* The node of an update, seen by itself, is the bootloader: no step of the
\* tool, the handler or the network does to it what Bootloader does not allow.
THEOREM ImplementsBootloader == Spec => Lst!Spec
<1>1. Init => Lst!Init
  BY DEF Init
<1>2. IInv /\ [Next]_vars => [Lst!Next]_(Lst!vars)
  BY LstSteps DEF vars, lstVars, Lst!vars
<1> QED
  BY <1>1, <1>2, UpdateInvariant, PTL DEF Spec, Lst!Spec

\* The handler and the network of an update, seen by themselves, are those of
\* HostCommand: the bootloader and its resets are one of the nodes it allows.
THEOREM ImplementsHandler == Spec => Host!Spec
<1>1. Init => Host!Init
  BY DEF Init
<1>2. UNCHANGED hostVars => UNCHANGED Host!vars
  BY DEF hostVars, Host!vars, Host!callVars, Host!netVars
<1>3. UNCHANGED vars => UNCHANGED hostVars
  BY DEF vars
<1>4. IInv /\ [Next]_vars => [Host!Next]_(Host!vars)
  BY <1>2, <1>3, HostNext
<1> QED
  BY <1>1, <1>4, UpdateInvariant, PTL DEF Spec, Host!Spec

\* In an update, whatever the network loses or repeats and whenever power
\* fails, the node runs only signed images, and no page outside the
\* application's region changes.
THEOREM UpdateIsSafe == Spec => []Lst!OnlySignedImagesRun /\ Lst!ProtectedPagesUnchanged
<1>1. IInv => Lst!OnlySignedImagesRun
  BY DEF IInv, Lst!IInv
<1>2. ASSUME IInv, [Next]_vars
      PROVE  \A p \in Lst!Page \ Lst!AppRegion : flash'[p] = flash[p]
  <2>1. LP!IInv /\ [LP!Next]_(LP!vars)
    BY <1>2, LstSteps, SameNext, SameLstInvariant DEF IInv, vars, lstVars, LP!vars
  <2>2. \A p \in LP!Page \ LP!AppRegion : flash'[p] = flash[p]
    BY <2>1, LP!StepProtects, LstAssumptions
    DEF LP!LayoutAssumption, LP!DelayAssumption, LP!ContentAssumption
  <2>3. Lst!AppRegion = LP!AppRegion
    BY SameConstants DEF Lst!AppRegion, LP!AppRegion
  <2> QED
    BY <2>2, <2>3, SameConstants
<1>3. IInv /\ [Next]_vars =>
        [\A p \in Lst!Page \ Lst!AppRegion : flash'[p] = flash[p]]_(Lst!vars)
  BY <1>2
<1> QED
  BY <1>1, <1>3, UpdateInvariant, PTL DEF Spec, Lst!ProtectedPagesUnchanged

\* HostCommandProofs speaks of the same steps of the handler,
LEMMA SameHostNext == Host!Next => HP!Next
<1>1. Host!Tool(tool) => HP!Tool(tool)
  BY SameCall, SamePoll, SameRetry
  DEF Host!Tool, HP!Tool, Host!GiveUp, HP!GiveUp, Host!netVars, HP!netVars
<1>2. Host!Network => HP!Network
  BY SameDeliver
  DEF Host!Network, HP!Network, Host!LoseCommand, HP!LoseCommand, Host!LoseMessage,
      HP!LoseMessage, Host!callVars, HP!callVars
<1>3. Host!Nodes => HP!Nodes
  BY SameHandle DEF Host!Nodes, HP!Nodes
<1> QED
  BY <1>1, <1>2, <1>3 DEF Host!Next, HP!Next

\* and of the same abstract calls.
LEMMA SamePromise == HP!ImplementsRemoteCall => Host!ImplementsRemoteCall
<1>1. HP!Promise!Init => Host!Promise!Init
  BY DEF HP!Promise!Init, Host!Promise!Init
<1>2. [HP!Promise!Next]_(HP!Promise!promiseVars)
        => [Host!Promise!Next]_(Host!Promise!promiseVars)
  BY DEF HP!Promise!Next, Host!Promise!Next, HP!Promise!promiseVars,
         Host!Promise!promiseVars, HP!Promise!Call, Host!Promise!Call,
         HP!Promise!CarryOut, Host!Promise!CarryOut, HP!Promise!Answer,
         Host!Promise!Answer, HP!Promise!GiveUp, Host!Promise!GiveUp
<1> QED
  BY <1>1, <1>2, PTL
  DEF HP!ImplementsRemoteCall, Host!ImplementsRemoteCall, HP!Promise!Spec,
      Host!Promise!Spec

\* Each call of the tool implements the abstract remote call: an erase or a
\* page that is answered was carried out, or refused, since the call began.
THEOREM CallsAreAnswered == Spec => Host!ImplementsRemoteCall
<1>1. Init => HP!Init
  BY DEF Init, Host!Init, HP!Init, Host!Limits, HP!Limits
<1>2. UNCHANGED vars => UNCHANGED HP!vars
  BY DEF vars, hostVars, HP!vars, HP!callVars, HP!netVars
<1>3. UNCHANGED hostVars => UNCHANGED HP!vars
  BY DEF hostVars, HP!vars, HP!callVars, HP!netVars
<1>4. IInv /\ [Next]_vars => [HP!Next]_(HP!vars)
  BY <1>2, <1>3, HostNext, SameHostNext
<1>5. Spec => HP!Spec
  BY <1>1, <1>4, UpdateInvariant, PTL DEF Spec, HP!Spec
<1>6. HP!Spec => HP!ImplementsRemoteCall
  BY HP!Refinement, HostAssumptions DEF HP!HandlerAssumption
<1> QED
  BY <1>5, <1>6, SamePromise

\* However the tool ends once it has begun to load, the image is on the node,
\* complete and signed; so it is as soon as the last page is acknowledged.
THEOREM EndsInstalled ==
  Spec => [](step \in {"finish", "end", "crashed"} =>
               Lst!AppImage = Image /\ Lst!SignatureAppValid)
<1>1. IInv => (step \in {"finish", "end", "crashed"} =>
                 Lst!AppImage = Image /\ Lst!SignatureAppValid)
  <2> SUFFICES ASSUME IInv, step \in {"finish", "end", "crashed"}
               PROVE  Lst!AppImage = Image
    BY ImageAssumption DEF Lst!SignatureAppValid
  <2>1. CASE step = "crashed"
    BY <2>1 DEF IInv, CrashMeansInstalled
  <2>2. CASE step # "crashed"
    <3>1. \A p \in Lst!AppPage : flash[p] = Image[p]
      BY <2>2 DEF IInv, LoadedPagesStay
    <3>2. Image = [p \in Lst!AppPage |-> Image[p]]
      BY ImagePages
    <3> QED
      BY <3>1, <3>2 DEF Lst!AppImage
  <2> QED
    BY <2>1, <2>2
<1> QED
  BY <1>1, UpdateInvariant, PTL
=============================================================================
