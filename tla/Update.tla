------------------------------- MODULE Update -------------------------------
(***************************************************************************)
(* A firmware update: the tool bootload_radio (tools/openlst_tools) at the *)
(* host, through its command handler (HostCommand), against one node, its  *)
(* bootloader (Bootloader) and the application it starts.  Messages may be *)
(* lost, repeated, delayed and reordered, and the node may lose power or   *)
(* time out at any moment.                                                 *)
(*                                                                         *)
(* A command the node is carrying out stays in "down" until the reply is   *)
(* sent; "serving" holds it.                                               *)
(***************************************************************************)
EXTENDS Integers, FiniteSets

CONSTANTS
  FLASH_PAGE_SIZE, FLASH_WRITE_PAGE_SIZE,
  FLASH_APP_START, FLASH_APP_END, FLASH_STORAGE_START, FLASH_SIZE,
  LAST_PAGE, COMMAND_WATCHDOG_DELAY, SHORT_DELAY,
  Bit, SignedImages, FactoryFlash,
  Image,      \* what the tool loads, its signature inserted
  tool, node, SEQNUM_MIN, SEQNUM_MAX, NoLimit, NoClient, LineSize, InboxSize

VARIABLES
  flash, phase, timeout, addr, page, data, reply, known, acked,
  connection, seqnum, call, cmd, limit, tries, got, down, up, inbox, done,
  step,     \* what the tool's last call was for, "start" before the first
  at,       \* the page the tool is loading
  serving   \* the command the node is carrying out, {} if none

WritePage(p) == <<"write_page", p>>
Data == {Image[p] : p \in DOMAIN Image}

\* The node, and the host's handler for it.
Lst == INSTANCE Bootloader
Host == INSTANCE HostCommand WITH
  Client <- {tool}, Node <- {node}, Printing <- {},
  Target <- [c \in {tool} |-> node],
  Cmd <- {<<"reboot">>, <<"erase">>} \cup {WritePage(p) : p \in Lst!Page},
  Re <- {Lst!NACK} \cup {Lst!ACK(n) : n \in Lst!Page \cup {Lst!ERASED}},
  RetryLimit <- [c \in {tool} |-> {0, 1, NoLimit}],
  phase <- call

lstVars == <<flash, phase, timeout, addr, page, data, reply, known, acked>>
hostVars == <<connection, seqnum, call, cmd, limit, tries, got, down, up, inbox, done>>
toolVars == <<step, at>>
vars == <<lstVars, hostVars, toolVars, serving>>

ASSUME PartsAssumption ==
  /\ Lst!LayoutAssumption /\ Lst!DelayAssumption /\ Lst!ContentAssumption
  /\ Host!HandlerAssumption

\* The pages that are not empty, which are the ones the tool loads; one holds
\* the signature.  No part of the image passes for a signed one, and the
\* application ends with a write page (flash_constants.h).
Loaded == {p \in Lst!AppPage : Image[p] # {}}
ASSUME ImageAssumption ==
  /\ Image \in SignedImages /\ Loaded # {}
  /\ \A i \in SignedImages : (\A p \in Lst!AppPage : i[p] \subseteq Image[p]) => i = Image
  /\ (FLASH_APP_END + 1) % FLASH_WRITE_PAGE_SIZE = 0

TypeOK ==
  /\ step \in {"start", "reboot", "erase", "load", "finish", "end", "crashed"}
  /\ at \in Lst!AppPage
  /\ IF serving = {} THEN phase \notin {"erasing", "writing"}
     ELSE \E m \in down : /\ serving = {m}
                          /\ \/ phase = "erasing" /\ m.cmd = <<"erase">>
                             \/ phase = "writing" /\ m.cmd = WritePage(page)

Init ==
  /\ Lst!Init
  /\ Host!Init
  /\ step = "start"
  /\ at \in {p \in Loaded : \A q \in Loaded : p <= q}
  /\ serving = {}

-----------------------------------------------------------------------------
(***************************************************************************)
(* The tool's main function.                                               *)
(***************************************************************************)

\* send_cmd has returned, and what send_cmd_resp compares.
Returned == call[tool] = "returned"
Answered(re) == Returned /\ \E m \in got[tool] : m.re = re

Calls(x, retries, s) ==
  /\ \A m \in serving : m.age + 1 < Host!Range
  /\ Host!Call(tool, x, retries)
  /\ step' = s
  /\ serving' = Host!Older(serving, tool)
  /\ UNCHANGED lstVars

\* Variant: the tool does not sleep after the erase.
SleptNever == TRUE

\* The sleep after the erase is longer than a second erase, sent because the
\* reply to the first took long, is under way or carried out.
Slept == \A m \in down : m.cmd # <<"erase">>

\* "lst reboot", sent once, at the beginning and after an erase that failed.
Reboot ==
  /\ \/ step = "start"
     \/ step = "erase" /\ Returned /\ ~ Answered(Lst!ACK(Lst!ERASED)) /\ Slept
  /\ Calls(<<"reboot">>, 0, "reboot")
  /\ UNCHANGED at

Erase ==
  /\ step = "reboot"
  /\ Calls(<<"erase">>, 1, "erase")
  /\ UNCHANGED at

\* The first page; the later ones each after the acknowledgement of the one
\* before.  Empty pages are skipped.
LoadFirst ==
  /\ step = "erase"
  /\ Answered(Lst!ACK(Lst!ERASED))
  /\ Slept
  /\ Calls(WritePage(at), NoLimit, "load")
  /\ UNCHANGED at

\* Variant: empty pages are not skipped, and the last one is missed.
LoadNextRunningOn ==
  /\ step = "load"
  /\ Answered(Lst!ACK(at))
  /\ at' = at + 1
  /\ Calls(WritePage(at'), NoLimit, "load")

LoadNext ==
  /\ step = "load"
  /\ Answered(Lst!ACK(at))
  /\ at' \in {p \in Loaded : p > at /\ \A q \in Loaded : q > at => p <= q}
  /\ Calls(WritePage(at'), NoLimit, "load")

\* Any other reply to a page is a ResponseError, which ends the tool.
Crash ==
  /\ step = "load"
  /\ Returned
  /\ ~ Answered(Lst!ACK(at))
  /\ step' = "crashed"
  /\ UNCHANGED <<lstVars, hostVars, at, serving>>

\* The command that means to start the application; any reply ends the tool.
Finish ==
  /\ step = "load"
  /\ Answered(Lst!ACK(at))
  /\ \A q \in Loaded : q <= at
  /\ Calls(WritePage(LAST_PAGE), NoLimit, "finish")
  /\ UNCHANGED at

End ==
  /\ step = "finish"
  /\ Returned
  /\ step' = "end"
  /\ UNCHANGED <<lstVars, hostVars, at, serving>>

-----------------------------------------------------------------------------
(***************************************************************************)
(* The node, and the way to it.                                            *)
(***************************************************************************)

\* The updater takes an erase, or a page of the application.
Take(m) ==
  /\ m \in down
  /\ \/ m.cmd = <<"erase">> /\ Lst!Erase
     \/ \E p \in Lst!AppPage : m.cmd = WritePage(p) /\ Lst!WritePage(p, Image[p])
  /\ serving' = {m}
  /\ UNCHANGED <<hostVars, toolVars>>

\* It has carried the command out and acknowledges it.
Acknowledge(m, keep) ==
  /\ m \in serving
  /\ \/ Lst!EraseDone
     \/ Lst!WriteDone
  /\ Host!Handle(m, keep, reply')
  /\ serving' = {}
  /\ UNCHANGED toolVars

\* It refuses a page outside the application, and does not know "reboot".
Refuse(m, keep) ==
  /\ m \in down
  /\ \/ \E p \in Lst!Page : m.cmd = WritePage(p) /\ Lst!RefuseWrite(p)
     \/ m.cmd = <<"reboot">> /\ Lst!OtherCommand
  /\ Host!Handle(m, keep, reply')
  /\ UNCHANGED <<toolVars, serving>>

\* The application answers the bootloader's commands with a nack.
AppRefuses(m, keep) ==
  /\ phase = "app"
  /\ m \in down
  /\ m.cmd # <<"reboot">>
  /\ Host!Handle(m, keep, Lst!NACK)
  /\ UNCHANGED <<lstVars, toolVars, serving>>

\* The reset drops what the node was doing; copies of the command may still
\* be under way.
Resets(S) ==
  /\ Lst!Reset
  /\ serving' = {}
  /\ \E drop \in SUBSET S : down' = down \ drop
  /\ UNCHANGED <<connection, seqnum, call, cmd, limit, tries, got, up, inbox, done, toolVars>>

\* "lst reboot" without a delay resets the application's node at once.
AppReboots(m) ==
  /\ phase = "app"
  /\ m \in down
  /\ m.cmd = <<"reboot">>
  /\ Resets({m})

PowerLoss == phase # "halted" /\ Resets(serving)
WatchdogReset == phase = "halted" /\ Resets({})

\* The rest of the updater: its timeout, the erase's pages, the start of the
\* application.
Updater ==
  /\ Lst!Countdown \/ Lst!EndPoll \/ Lst!ErasePage \/ Lst!Boot
  /\ UNCHANGED <<hostVars, toolVars, serving>>

\* The network may lose any command but the one the node has taken.
Network ==
  /\ \/ Host!LoseCommand /\ serving \subseteq down'
     \/ Host!LoseMessage
     \/ \E m \in up : Host!Deliver(m)
  /\ UNCHANGED <<lstVars, toolVars, serving>>

Handler ==
  /\ \/ \E m \in inbox[tool] : Host!Poll(tool, m)
     \/ Host!Retry(tool)
     \/ Host!GiveUp(tool)
  /\ UNCHANGED <<lstVars, toolVars, serving>>

Tool == Reboot \/ Erase \/ LoadFirst \/ LoadNext \/ Crash \/ Finish \/ End

Node ==
  \/ \E m \in down : Take(m) \/ AppReboots(m)
  \/ \E m \in down, keep \in BOOLEAN :
       Acknowledge(m, keep) \/ Refuse(m, keep) \/ AppRefuses(m, keep)

Next == Tool \/ Handler \/ Network \/ Node \/ Updater \/ WatchdogReset \/ PowerLoss

Spec == Init /\ [][Next]_vars

\* What the environment owes the tool: messages of calls that have returned
\* do not stay under way for ever; and again and again one of its tries comes
\* while the updater listens (for less than the watchdog's second at a time,
\* board_defaults.h:185-193, but again after each timeout and reset), reaches
\* the node, and its reply comes back in time.
Reached ==
  /\ call[tool] = "poll"
  /\ \E m \in Host!Own(tool, down), keep \in BOOLEAN :
       Take(m) \/ Refuse(m, keep) \/ AppRefuses(m, keep)
Answers ==
  /\ call[tool] = "poll"
  /\ \E m \in Host!Own(tool, up) : Host!Deliver(m)
  /\ UNCHANGED <<lstVars, toolVars, serving>>
Taken ==
  /\ \E m \in Host!Own(tool, inbox[tool]) : Host!Poll(tool, m)
  /\ UNCHANGED <<lstVars, toolVars, serving>>
Tries ==
  /\ phase \in {"poll", "app"}
  /\ Host!Retry(tool)
  /\ UNCHANGED <<lstVars, toolVars, serving>>
Spent(m) == m.age > 0 \/ call[tool] = "returned"
OldCommandGoes == Network /\ \E m \in down : Spent(m) /\ m \notin down'
OldReplyGoes == Network /\ \E m \in up : Spent(m) /\ m \notin up'

FairSpec ==
  /\ Spec
  /\ SF_vars(Tool) /\ SF_vars(OldCommandGoes) /\ WF_vars(OldReplyGoes)
  /\ WF_vars(Updater) /\ WF_vars(WatchdogReset)
  /\ WF_vars(\E m \in serving, keep \in BOOLEAN : Acknowledge(m, keep))
  /\ SF_vars(Tries)
  /\ SF_vars(Reached) /\ SF_vars(Answers) /\ SF_vars(Taken)

-----------------------------------------------------------------------------
(***************************************************************************)
(* Correctness.                                                            *)
(***************************************************************************)

\* While the tool loads and when it has ended, the application's pages hold
\* the image up to the page it is at, and nothing that does not belong to it:
\* no late erase, late write, reset or reply of an earlier call undoes what
\* was acknowledged (bootload_radio.py:93-120).
LoadedPagesStay ==
  step \in {"load", "finish", "end"} =>
    \A p \in Lst!AppPage :
      /\ flash[p] \subseteq Image[p]
      /\ p < at \/ step # "load" => flash[p] = Image[p]

\* The tool only crashes on an unexpected reply when the update is complete:
\* the acknowledgement of the last page was lost, and the application that
\* was started meanwhile refuses the repeated page (bootload_radio.py:115).
CrashMeansInstalled == step = "crashed" => Lst!AppImage = Image

\* The erase is over: the tool has begun to load.
Loading == step \in {"load", "finish", "end", "crashed"}

\* The replies to the tool's last command, under way or received.
Replies == Host!Own(tool, up \cup inbox[tool] \cup got[tool])

\* Before it loads, no page is under way, and then no erase.
InPlace(x) == IF Loading THEN x # <<"erase">> ELSE x \in {<<"reboot">>, <<"erase">>}

\* A command of the last call is the one the tool has given, and what the node
\* writes is the image.
CommandInv ==
  /\ \A m \in down : InPlace(m.cmd) /\ (m.age = 0 => m.cmd = cmd[tool])
  /\ Returned \/ InPlace(cmd[tool])
  /\ phase = "writing" => page \in Lst!AppPage /\ data = Image[page]

\* The tool's place: its first page before it loads, the page it waits for,
\* for as long as it takes.
StepInv ==
  /\ at \in Loaded
  /\ ~ Loading => \A q \in Loaded : at <= q
  /\ step = "erase" => cmd[tool] = <<"erase">>
  /\ step = "load" => /\ cmd[tool] = WritePage(at)
                      /\ limit[tool] = NoLimit
                      /\ Returned => got[tool] # {}

\* What a reply the tool may yet see says of the flash: an erase acknowledged
\* is an erased application, a page acknowledged is that page, and a page
\* refused is the image complete, and running.
ReplyInv ==
  /\ step = "erase" /\ (\E m \in Replies : m.re = Lst!ACK(Lst!ERASED))
       => \A p \in Lst!AppPage : flash[p] = {}
  /\ step = "load" =>
       \A m \in Replies : IF m.re = Lst!ACK(at) THEN flash[at] = Image[at]
                          ELSE Lst!AppImage = Image

\* The inductive invariant of an update.
IInv ==
  /\ TypeOK /\ Lst!IInv /\ Host!IInv
  /\ CommandInv /\ StepInv /\ ReplyInv
  /\ LoadedPagesStay /\ CrashMeansInstalled

\* An update that has begun to load gets done: the node runs the new image,
\* whatever is lost on the way, if it is not reset for ever.
LeftAlone == <>[][~ PowerLoss]_vars
UpdateGetsDone ==
  LeftAlone => (step = "load" ~> phase = "app" /\ Lst!AppImage = Image)
=============================================================================
