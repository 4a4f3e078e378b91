----------------------------- MODULE Bootloader -----------------------------
(***************************************************************************)
(* The bootloader of open-lst/bootloader: the updater loop with its        *)
(* timeout, the commands ping, erase and write_page, the flash routines    *)
(* they call, the signature check and the jump into the application.  The  *)
(* device may lose power or be reset by its watchdog between any two steps *)
(* and in the middle of a flash operation.                                 *)
(*                                                                         *)
(* Flash is kept per write page (128 bytes), as the set of bits that are   *)
(* programmed: erasing clears the set, and programming can only add to it. *)
(* Addresses are the code's byte addresses.                                *)
(***************************************************************************)
EXTENDS Integers

CONSTANTS
  FLASH_PAGE_SIZE, FLASH_WRITE_PAGE_SIZE,
  FLASH_APP_START, FLASH_APP_END, FLASH_STORAGE_START, FLASH_SIZE,
  LAST_PAGE,               \* largest page number, a uint8_t: 255
  COMMAND_WATCHDOG_DELAY,  \* turns of the updater loop without a command
  SHORT_DELAY,             \* the 1000 turns of commands.c:87
  Bit,                     \* the bits of a write page
  Data,                    \* pages a host may write, each a set of bits
  SignedImages,            \* what flash holds when a key's MAC matches
  FactoryFlash             \* flash contents a device may be delivered with

Page == 0 .. LAST_PAGE
Address(p) == p * FLASH_WRITE_PAGE_SIZE

\* The write pages of the application, its signature included.
AppPage == {p \in Page : FLASH_APP_START <= Address(p) /\ Address(p) <= FLASH_APP_END}

\* Everything from the application's first byte to the storage region.
AppRegion == {p \in Page : FLASH_APP_START <= Address(p) /\ Address(p) < FLASH_STORAGE_START}

Flash == [Page -> SUBSET Bit]

\* The STATIC_ASSERTs of flash.c:27-39.
ASSUME LayoutAssumption ==
  /\ {FLASH_PAGE_SIZE, FLASH_WRITE_PAGE_SIZE} \subseteq Nat \ {0}
  /\ {FLASH_APP_START, FLASH_APP_END, FLASH_STORAGE_START, FLASH_SIZE, LAST_PAGE} \subseteq Nat
  /\ FLASH_APP_START % FLASH_PAGE_SIZE = 0
  /\ FLASH_STORAGE_START % FLASH_PAGE_SIZE = 0
  /\ FLASH_APP_END < FLASH_STORAGE_START
  /\ FLASH_APP_END > FLASH_APP_START
  /\ FLASH_APP_END < FLASH_SIZE

ASSUME DelayAssumption ==
  /\ COMMAND_WATCHDOG_DELAY \in Nat \ {0}
  /\ SHORT_DELAY \in Nat

ASSUME ContentAssumption ==
  /\ Data \subseteq SUBSET Bit
  /\ SignedImages \subseteq [AppPage -> SUBSET Bit]
  /\ FactoryFlash \subseteq Flash

VARIABLES
  flash,    \* the flash memory, a member of Flash
  phase,    \* where the program is
  timeout,  \* turns left in the updater loop
  addr,     \* flash_erase_app: next flash page to erase
  page,     \* flash_write: page being written
  data,     \* flash_write: bits being programmed
  reply,    \* the last reply sent, <<>> if none since the reset
  known,    \* history: an erase was acknowledged, and no flash operation was
            \* cut short since
  acked     \* history: the data acknowledged for each page since that erase

vars == <<flash, phase, timeout, addr, page, data, reply, known, acked>>

Phase == {"updater", "poll", "erasing", "writing", "checking", "halted", "app"}

ACK(n) == <<"ack", n>>
NACK   == <<"nack">>
PONG   == 0
ERASED == 1

NothingAcked == [p \in Page |-> {}]

TypeOK ==
  /\ flash \in Flash
  /\ phase \in Phase
  /\ timeout \in 0 .. COMMAND_WATCHDOG_DELAY
  /\ addr \in Nat
  /\ page \in Page
  /\ data \in SUBSET Bit
  /\ reply \in {<<>>, NACK} \cup {ACK(n) : n \in Page \cup {PONG, ERASED}}
  /\ known \in BOOLEAN
  /\ acked \in [Page -> SUBSET Data]

\* bootloader_main has reached the updater loop.
Init ==
  /\ flash \in FactoryFlash
  /\ phase = "updater"
  /\ timeout = COMMAND_WATCHDOG_DELAY
  /\ addr = 0
  /\ page = 0
  /\ data = {}
  /\ reply = <<>>
  /\ known = FALSE
  /\ acked = NothingAcked

-----------------------------------------------------------------------------
(***************************************************************************)
(* The updater loop.                                                       *)
(***************************************************************************)

\* Variant: the timeout is tested before it is decremented.
CountdownLate ==
  /\ phase = "updater"
  /\ timeout' = timeout - 1
  /\ phase' = IF timeout = 0 THEN "checking" ELSE "poll"
  /\ UNCHANGED <<flash, addr, page, data, reply, known, acked>>

Countdown ==
  /\ phase = "updater"
  /\ timeout' = timeout - 1
  /\ phase' = IF timeout' = 0 THEN "checking" ELSE "poll"
  /\ UNCHANGED <<flash, addr, page, data, reply, known, acked>>

\* Variant: every turn starts the timeout again.
EndPollRestarting ==
  /\ phase = "poll"
  /\ phase' = "updater"
  /\ timeout' = COMMAND_WATCHDOG_DELAY
  /\ UNCHANGED <<flash, addr, page, data, reply, known, acked>>

\* No further message from the UART or the radio in this turn.
EndPoll ==
  /\ phase = "poll"
  /\ phase' = "updater"
  /\ UNCHANGED <<flash, timeout, addr, page, data, reply, known, acked>>

Ping ==
  /\ phase = "poll"
  /\ timeout' = COMMAND_WATCHDOG_DELAY
  /\ reply' = ACK(PONG)
  /\ UNCHANGED <<flash, phase, addr, page, data, known, acked>>

\* Any other command is answered, but does not keep the updater waiting.
OtherCommand ==
  /\ phase = "poll"
  /\ reply' = NACK
  /\ UNCHANGED <<flash, phase, timeout, addr, page, data, known, acked>>

-----------------------------------------------------------------------------
(***************************************************************************)
(* bootloader_msg_erase and flash_erase_app.                               *)
(***************************************************************************)

Erase ==
  /\ phase = "poll"
  /\ phase' = "erasing"
  /\ addr' = FLASH_APP_START
  /\ known' = FALSE
  /\ acked' = NothingAcked
  /\ UNCHANGED <<flash, timeout, page, data, reply>>

\* The write pages in the flash page at address a.
FlashPage(a) ==
  {p \in Page : a <= Address(p) /\ Address(p) < a + FLASH_PAGE_SIZE}

\* Variant: the loop takes the first address after the application, too.
ErasePagePast ==
  /\ phase = "erasing"
  /\ addr <= FLASH_APP_END + 1
  /\ flash' = [p \in Page |-> IF p \in FlashPage(addr) THEN {} ELSE flash[p]]
  /\ addr' = addr + FLASH_PAGE_SIZE
  /\ UNCHANGED <<phase, timeout, page, data, reply, known, acked>>

ErasePage ==
  /\ phase = "erasing"
  /\ addr <= FLASH_APP_END
  /\ flash' = [p \in Page |-> IF p \in FlashPage(addr) THEN {} ELSE flash[p]]
  /\ addr' = addr + FLASH_PAGE_SIZE
  /\ UNCHANGED <<phase, timeout, page, data, reply, known, acked>>

\* Variant: the loop ends one flash page early.
EraseDoneEarly ==
  /\ phase = "erasing"
  /\ addr + FLASH_PAGE_SIZE > FLASH_APP_END
  /\ phase' = "poll"
  /\ timeout' = COMMAND_WATCHDOG_DELAY
  /\ reply' = ACK(ERASED)
  /\ known' = TRUE
  /\ UNCHANGED <<flash, addr, page, data, acked>>

EraseDone ==
  /\ phase = "erasing"
  /\ addr > FLASH_APP_END
  /\ phase' = "poll"
  /\ timeout' = COMMAND_WATCHDOG_DELAY
  /\ reply' = ACK(ERASED)
  /\ known' = TRUE
  /\ UNCHANGED <<flash, addr, page, data, acked>>

-----------------------------------------------------------------------------
(***************************************************************************)
(* bootloader_msg_write_page, flash_write_app_page and flash_write.        *)
(***************************************************************************)

\* Which of the branches of flash_write_app_page is taken.
FlashWriteResult(p) ==
  IF Address(p) < FLASH_APP_START
  THEN "protected"
  ELSE IF Address(p) + FLASH_WRITE_PAGE_SIZE <= FLASH_APP_END + 1
  THEN "ok"
  ELSE IF Address(p) + FLASH_WRITE_PAGE_SIZE <= FLASH_SIZE
  THEN "protected"
  ELSE "bad_addr"

WritePage(p, d) ==
  /\ phase = "poll"
  /\ FlashWriteResult(p) = "ok"
  /\ phase' = "writing"
  /\ page' = p
  /\ data' = d
  /\ UNCHANGED <<flash, timeout, addr, reply, known, acked>>

RefuseWrite(p) ==
  /\ phase = "poll"
  /\ FlashWriteResult(p) # "ok"
  /\ timeout' = COMMAND_WATCHDOG_DELAY
  /\ reply' = NACK
  /\ UNCHANGED <<flash, phase, addr, page, data, known, acked>>

\* After a page numbered 255 the code checks the signature and, if it is
\* valid, sets timeout to SHORT_DELAY; reset_timeout then sets it again.
WriteDone ==
  /\ phase = "writing"
  /\ flash' = [flash EXCEPT ![page] = @ \cup data]
  /\ phase' = "poll"
  /\ timeout' = COMMAND_WATCHDOG_DELAY
  /\ reply' = ACK(page)
  /\ acked' = IF known THEN [acked EXCEPT ![page] = @ \cup {data}] ELSE acked
  /\ UNCHANGED <<addr, page, data, known>>

-----------------------------------------------------------------------------
(***************************************************************************)
(* The end of bootloader_main, and resets.                                 *)
(***************************************************************************)

AppImage == [p \in AppPage |-> flash[p]]

\* signature_app_valid: the MAC of the application under one of the keys is
\* the one stored with it.
SignatureAppValid == AppImage \in SignedImages

\* Variant: an application that is present is started, signed or not.
BootAnything ==
  /\ phase = "checking"
  /\ phase' = IF \E p \in AppPage : flash[p] # {} THEN "app" ELSE "halted"
  /\ UNCHANGED <<flash, timeout, addr, page, data, reply, known, acked>>

Boot ==
  /\ phase = "checking"
  /\ phase' = IF SignatureAppValid THEN "app" ELSE "halted"
  /\ UNCHANGED <<flash, timeout, addr, page, data, reply, known, acked>>

\* What a reset leaves in flash.  A flash page whose erasure is cut short has
\* lost some of its bits, a write page some of the new ones are missing from.
FlashAfterReset ==
  IF phase = "erasing" /\ addr <= FLASH_APP_END
  THEN {[p \in Page |-> IF p \in FlashPage(addr) THEN flash[p] \cap kept[p] ELSE flash[p]] :
           kept \in [FlashPage(addr) -> SUBSET Bit]}
  ELSE IF phase = "writing"
  THEN {[flash EXCEPT ![page] = @ \cup d] : d \in SUBSET data}
  ELSE {flash}

\* The program starts again; RAM holds nothing from before.
Reset ==
  /\ flash' \in FlashAfterReset
  /\ phase' = "updater"
  /\ timeout' = COMMAND_WATCHDOG_DELAY
  /\ addr' = 0
  /\ page' = 0
  /\ data' = {}
  /\ reply' = <<>>
  /\ IF phase = "writing" THEN /\ known' = FALSE
                               /\ acked' = NothingAcked
                          ELSE UNCHANGED <<known, acked>>

\* Power loss, the watchdog, or a reboot asked of the application.
PowerLoss == Reset

\* Variant: the watchdog is off when bootloader_main returns.
WatchdogResetNever == FALSE

\* startup code after bootloader_main returns: sjmp to itself until the
\* watchdog resets the device.
WatchdogReset == phase = "halted" /\ Reset

Command ==
  \/ Ping
  \/ OtherCommand
  \/ Erase
  \/ \E p \in Page, d \in Data : WritePage(p, d)
  \/ \E p \in Page : RefuseWrite(p)

Proceed ==
  \/ Countdown
  \/ EndPoll
  \/ ErasePage
  \/ EraseDone
  \/ WriteDone
  \/ Boot
  \/ WatchdogReset

Next == Command \/ Proceed \/ PowerLoss

Spec == Init /\ [][Next]_vars

\* The processor runs and the watchdog counts; hosts owe nothing.
FairSpec == Spec /\ WF_vars(Proceed)

-----------------------------------------------------------------------------
(***************************************************************************)
(* Correctness.                                                            *)
(***************************************************************************)

\* The bootloader, the keys, the storage region and the updater are never
\* touched: no sequence of commands, resets and torn operations changes a
\* page outside the application's region (flash.c:141-149).
ProtectedPagesUnchanged ==
  [][\A p \in Page \ AppRegion : flash'[p] = flash[p]]_vars

\* The application runs only from an image one of the keys has signed, all of
\* it, for as long as it runs (main.c:59-70).
OnlySignedImagesRun == phase = "app" => SignatureAppValid

\* What was acknowledged is in flash: from an acknowledged erase on, unless a
\* reset cut a write short, each page of the application holds exactly what
\* was acknowledged for it, once or several times (a host repeats a command
\* whose acknowledgement it did not see).
AckedPagesIntact ==
  known => \A p \in AppPage : flash[p] = UNION acked[p]

\* An erase in progress has cleared the pages it has passed.
PassedPagesErased ==
  phase = "erasing" => \A p \in AppPage : Address(p) < addr => flash[p] = {}

\* What the program's place implies about its variables: the loop counter of
\* the updater is not yet zero, an erase is at a flash page of the application
\* and has forgotten what was acknowledged before, and a write was allowed.
PhaseInv ==
  /\ phase \in {"updater", "poll", "erasing", "writing"} => timeout > 0
  /\ phase = "erasing" =>
       addr >= FLASH_APP_START /\ addr % FLASH_PAGE_SIZE = 0 /\ ~ known
  /\ phase = "writing" => FlashWriteResult(page) = "ok" /\ data \in Data
  /\ ~ known => acked = NothingAcked

\* The inductive invariant of the bootloader.
IInv ==
  /\ TypeOK
  /\ PhaseInv
  /\ PassedPagesErased
  /\ AckedPagesIntact
  /\ OnlySignedImagesRun

\* Every page of a signed image was acknowledged, and no other data.
ImageAcked ==
  /\ known
  /\ \E image \in SignedImages : \A p \in AppPage :
       acked[p] = IF image[p] = {} THEN {} ELSE {image[p]}

\* An update takes effect: once every page of a signed image has been
\* acknowledged, a device left alone starts that image.
LeftAlone == <>[][~ (Command \/ PowerLoss)]_vars
UpdateTakesEffect == LeftAlone => (ImageAcked ~> phase = "app")

\* The device never locks up: it always comes back to listening for commands
\* or to running an application.
NeverStuck == []<>(phase \in {"poll", "app"})

\* The guide says of the update session that ends with write_page 255 that
\* "The firmware image should boot immediately" (USERS_GUIDE.md:483), and
\* commands.c:86-88 means to shorten the timeout for it.
BootsImmediately ==
  [][SignatureAppValid /\ (RefuseWrite(LAST_PAGE) \/ (page = LAST_PAGE /\ WriteDone))
       => timeout' <= SHORT_DELAY]_vars
=============================================================================
