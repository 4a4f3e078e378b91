-------------------------- MODULE BootloaderProofs --------------------------
(***************************************************************************)
(* Proofs about the bootloader, for any flash layout that satisfies the    *)
(* STATIC_ASSERTs of flash.c, any page contents and any set of signed      *)
(* images: the inductive invariant, and that no step changes a page        *)
(* outside the application's region.                                       *)
(***************************************************************************)
EXTENDS Bootloader, TLAPS

-----------------------------------------------------------------------------
\* Arithmetic of the flash pages.

\* A number without remainder is a multiple.
LEMMA IsMultiple ==
  ASSUME NEW a \in Nat, NEW d \in Nat \ {0}, a % d = 0
  PROVE  \E q \in Nat : a = q * d
<1>1. a = d * (a \div d) + (a % d) /\ a \div d \in Nat
  OBVIOUS
<1>2. a = (a \div d) * d
  BY <1>1
<1> QED
  BY <1>1, <1>2

\* A multiple has no remainder.
LEMMA MultipleMod ==
  ASSUME NEW q \in Nat, NEW d \in Nat \ {0}
  PROVE  (q * d) % d = 0
  OBVIOUS

\* From an aligned address below an aligned end, a whole page fits before the
\* end, and the next address is aligned.
LEMMA AlignedStep ==
  ASSUME NEW a \in Nat, NEW s \in Nat, NEW d \in Nat \ {0},
         a % d = 0, s % d = 0, a < s
  PROVE  (a + d) % d = 0 /\ a + d <= s
<1>1. PICK q \in Nat : a = q * d
  BY IsMultiple
<1>2. PICK r \in Nat : s = r * d
  BY IsMultiple
<1>3. q < r
  <2> SUFFICES ASSUME r <= q PROVE FALSE
    BY <1>1
  <2>1. r * d <= q * d
    OBVIOUS
  <2> QED
    BY <2>1, <1>1, <1>2
<1>4. (q + 1) * d <= r * d
  BY <1>3
<1>5. a + d = (q + 1) * d
  BY <1>1
<1>6. q + 1 \in Nat
  OBVIOUS
<1>7. ((q + 1) * d) % d = 0
  BY <1>6, MultipleMod
<1> QED
  BY <1>2, <1>4, <1>5, <1>7

\* The constants are numbers.
LEMMA ConstantTypes ==
  /\ FLASH_PAGE_SIZE \in Nat \ {0} /\ FLASH_WRITE_PAGE_SIZE \in Nat \ {0}
  /\ FLASH_APP_START \in Nat /\ FLASH_APP_END \in Nat
  /\ FLASH_STORAGE_START \in Nat /\ LAST_PAGE \in Nat
  /\ COMMAND_WATCHDOG_DELAY \in Nat \ {0}
  BY LayoutAssumption, DelayAssumption

\* The empty history is well-formed.
LEMMA NothingAckedType == NothingAcked \in [Page -> SUBSET Data]
  BY DEF NothingAcked

\* The address of a page is a number.
LEMMA AddressType == \A p \in Page : Address(p) \in Nat
  BY LayoutAssumption DEF Page, Address

\* The application's pages lie in its region.
LEMMA AppInRegion == AppPage \subseteq AppRegion
<1> SUFFICES ASSUME NEW p \in AppPage PROVE p \in AppRegion
  OBVIOUS
<1>1. p \in Page /\ Address(p) \in Nat
  BY AddressType DEF AppPage
<1> QED
  BY <1>1, LayoutAssumption DEF AppPage, AppRegion

\* The flash page that is erased next lies in the application's region.
LEMMA ErasedInRegion ==
  ASSUME TypeOK, PhaseInv, phase = "erasing", addr <= FLASH_APP_END
  PROVE  FlashPage(addr) \subseteq AppRegion
<1>1. addr < FLASH_STORAGE_START /\ addr \in Nat
  BY LayoutAssumption DEF TypeOK
<1>2. addr + FLASH_PAGE_SIZE <= FLASH_STORAGE_START
  BY <1>1, AlignedStep, LayoutAssumption DEF PhaseInv
<1> SUFFICES ASSUME NEW p \in FlashPage(addr) PROVE p \in AppRegion
  OBVIOUS
<1>3. p \in Page /\ Address(p) \in Nat
  BY AddressType DEF FlashPage
<1> QED
  BY <1>1, <1>2, <1>3, LayoutAssumption DEF FlashPage, AppRegion, PhaseInv

\* A page that flash_write_app_page accepts is one of the application.
LEMMA WrittenInApp ==
  ASSUME NEW p \in Page, FlashWriteResult(p) = "ok"
  PROVE  p \in AppPage
<1>1. Address(p) \in Nat
  BY AddressType
<1>2. Address(p) >= FLASH_APP_START
  BY <1>1, LayoutAssumption DEF FlashWriteResult
<1>3. Address(p) + FLASH_WRITE_PAGE_SIZE <= FLASH_APP_END + 1
  BY <1>1, <1>2, LayoutAssumption DEF FlashWriteResult
<1> QED
  BY <1>1, <1>2, <1>3, LayoutAssumption DEF AppPage

-----------------------------------------------------------------------------
\* A reset leaves a well-formed flash, and changes application pages only.
LEMMA ResetFlash ==
  ASSUME TypeOK, PhaseInv, NEW f \in FlashAfterReset
  PROVE  /\ f \in Flash
         /\ \A p \in Page \ AppRegion : f[p] = flash[p]
<1> USE DEF TypeOK, Flash
<1>1. CASE phase = "erasing" /\ addr <= FLASH_APP_END
  <2>1. PICK kept \in [FlashPage(addr) -> SUBSET Bit] :
          f = [p \in Page |-> IF p \in FlashPage(addr) THEN flash[p] \cap kept[p]
                                                       ELSE flash[p]]
    BY <1>1 DEF FlashAfterReset
  <2>2. FlashPage(addr) \subseteq AppRegion
    BY <1>1, ErasedInRegion
  <2>3. f \in Flash
    BY <2>1
  <2>4. \A p \in Page \ AppRegion : f[p] = flash[p]
    BY <2>1, <2>2
  <2> QED
    BY <2>3, <2>4
<1>2. CASE phase = "writing"
  <2>1. PICK d \in SUBSET data : f = [flash EXCEPT ![page] = @ \cup d]
    BY <1>2 DEF FlashAfterReset
  <2>2. page \in AppRegion
    BY <1>2, WrittenInApp, AppInRegion DEF PhaseInv
  <2> QED
    BY <2>1, <2>2
<1>3. CASE ~ (phase = "erasing" /\ addr <= FLASH_APP_END) /\ phase # "writing"
  BY <1>3 DEF FlashAfterReset
<1> QED
  BY <1>1, <1>2, <1>3

\* The bootloader starts in its invariant.
LEMMA InitInv == Init => IInv
<1> SUFFICES ASSUME Init PROVE IInv
  OBVIOUS
<1>1. TypeOK
  <2>1. flash \in Flash /\ acked \in [Page -> SUBSET Data]
    BY ContentAssumption, NothingAckedType DEF Init
  <2>2. page \in Page /\ addr \in Nat /\ timeout \in 0 .. COMMAND_WATCHDOG_DELAY
    BY ConstantTypes DEF Init, Page
  <2> QED
    BY <2>1, <2>2 DEF Init, TypeOK, Phase
<1>2. PhaseInv
  BY DelayAssumption DEF Init, PhaseInv
<1>3. PassedPagesErased /\ AckedPagesIntact /\ OnlySignedImagesRun
  BY DEF Init, PassedPagesErased, AckedPagesIntact, OnlySignedImagesRun
<1> QED
  BY <1>1, <1>2, <1>3 DEF IInv

\* Type correctness is kept by every step.
LEMMA NextType == ASSUME IInv, Next PROVE TypeOK'
<1> USE ConstantTypes, ContentAssumption, NothingAckedType
    DEF IInv, TypeOK, PhaseInv, Phase, Flash
<1>1. CASE Countdown
  BY <1>1 DEF Countdown
<1>2. CASE EndPoll
  BY <1>2 DEF EndPoll
<1>3. CASE Ping
  BY <1>3 DEF Ping
<1>4. CASE OtherCommand
  BY <1>4 DEF OtherCommand
<1>5. CASE Erase
  BY <1>5 DEF Erase
<1>6. CASE ErasePage
  BY <1>6 DEF ErasePage
<1>7. CASE EraseDone
  BY <1>7 DEF EraseDone
<1>8. ASSUME NEW p \in Page, NEW d \in Data, WritePage(p, d) PROVE TypeOK'
  BY <1>8 DEF WritePage
<1>9. ASSUME NEW p \in Page, RefuseWrite(p) PROVE TypeOK'
  BY <1>9 DEF RefuseWrite
<1>10. CASE WriteDone
  BY <1>10 DEF WriteDone
<1>11. CASE Boot
  BY <1>11 DEF Boot
<1>12. CASE Reset
  <2>1. flash' \in Flash
    BY <1>12, ResetFlash DEF Reset
  <2>2. acked' \in [Page -> SUBSET Data] /\ known' \in BOOLEAN
    BY <1>12 DEF Reset
  <2> QED
    BY <1>12, <2>1, <2>2 DEF Reset, Page
<1> QED
  BY <1>1, <1>2, <1>3, <1>4, <1>5, <1>6, <1>7, <1>8, <1>9, <1>10, <1>11, <1>12
  DEF Next, Command, Proceed, PowerLoss, WatchdogReset

\* What the program's place implies is kept by every step.
LEMMA NextPhase == ASSUME IInv, Next PROVE PhaseInv'
<1> USE ConstantTypes DEF IInv, TypeOK, PhaseInv
<1>1. CASE Countdown
  BY <1>1 DEF Countdown
<1>2. CASE EndPoll \/ Ping \/ OtherCommand \/ Boot \/ Reset
  BY <1>2 DEF EndPoll, Ping, OtherCommand, Boot, Reset
<1>3. CASE Erase
  BY <1>3, LayoutAssumption DEF Erase
<1>4. CASE ErasePage
  <2>1. addr < FLASH_STORAGE_START /\ addr \in Nat
    BY <1>4, LayoutAssumption DEF ErasePage
  <2>2. (addr + FLASH_PAGE_SIZE) % FLASH_PAGE_SIZE = 0
    BY <1>4, <2>1, AlignedStep, LayoutAssumption DEF ErasePage
  <2> QED
    BY <1>4, <2>2 DEF ErasePage
<1>5. CASE EraseDone
  BY <1>5 DEF EraseDone
<1>6. ASSUME NEW p \in Page, NEW d \in Data, WritePage(p, d) PROVE PhaseInv'
  <2>1. FlashWriteResult(page)' = "ok"
    BY <1>6 DEF WritePage, FlashWriteResult, Address
  <2> QED
    BY <1>6, <2>1 DEF WritePage
<1>7. ASSUME NEW p \in Page, RefuseWrite(p) PROVE PhaseInv'
  BY <1>7 DEF RefuseWrite
<1>8. CASE WriteDone
  BY <1>8 DEF WriteDone
<1> QED
  BY <1>1, <1>2, <1>3, <1>4, <1>5, <1>6, <1>7, <1>8
  DEF Next, Command, Proceed, PowerLoss, WatchdogReset

\* An erase leaves nothing behind it.
LEMMA NextPassed == ASSUME IInv, Next PROVE PassedPagesErased'
<1> USE DEF IInv
<1> SUFFICES ASSUME phase' = "erasing", NEW p \in AppPage, Address(p) < addr'
             PROVE  flash'[p] = {}
  BY DEF PassedPagesErased
<1>1. p \in Page /\ Address(p) \in Nat /\ FLASH_APP_START <= Address(p)
  BY AddressType DEF AppPage
<1>2. CASE Erase
  BY <1>1, <1>2, ConstantTypes DEF Erase
<1>3. CASE ErasePage
  <2>1. CASE Address(p) < addr
    BY <1>1, <1>3, <2>1 DEF ErasePage, PassedPagesErased, TypeOK, Flash
  <2>2. CASE ~ (Address(p) < addr)
    <3>1. p \in FlashPage(addr)
      BY <1>1, <1>3, <2>2, ConstantTypes DEF ErasePage, FlashPage, TypeOK
    <3> QED
      BY <1>1, <1>3, <3>1 DEF ErasePage
  <2> QED
    BY <2>1, <2>2
<1>4. phase' = phase \/ phase' # "erasing" \/ Erase
  BY DEF Next, Command, Proceed, PowerLoss, WatchdogReset, Countdown, EndPoll,
         Ping, OtherCommand, Erase, ErasePage, EraseDone, WritePage, RefuseWrite,
         WriteDone, Boot, Reset
<1>5. CASE phase = "erasing" /\ ~ ErasePage
  BY <1>5 DEF Next, Command, Proceed, PowerLoss, WatchdogReset, Countdown, EndPoll,
         Ping, OtherCommand, Erase, ErasePage, EraseDone, WritePage, RefuseWrite,
         WriteDone, Boot, Reset
<1> QED
  BY <1>2, <1>3, <1>4, <1>5

\* What was acknowledged stays in flash.
LEMMA NextAcked == ASSUME IInv, Next PROVE AckedPagesIntact'
<1> USE DEF IInv, TypeOK
<1> SUFFICES ASSUME known', NEW p \in AppPage
             PROVE  flash'[p] = UNION (acked'[p])
  BY DEF AckedPagesIntact
<1>1. p \in Page /\ Address(p) \in Nat /\ Address(p) <= FLASH_APP_END
  BY AddressType DEF AppPage
<1>2. ASSUME UNCHANGED <<flash, known, acked>> PROVE flash'[p] = UNION (acked'[p])
  BY <1>2 DEF AckedPagesIntact
<1>3. CASE Countdown \/ EndPoll \/ Ping \/ OtherCommand \/ Boot
  BY <1>2, <1>3 DEF Countdown, EndPoll, Ping, OtherCommand, Boot
<1>4. ASSUME \/ \E q \in Page, d \in Data : WritePage(q, d)
             \/ \E q \in Page : RefuseWrite(q)
      PROVE  flash'[p] = UNION (acked'[p])
  BY <1>2, <1>4 DEF WritePage, RefuseWrite
<1>5. CASE Erase \/ ErasePage
  BY <1>5 DEF Erase, ErasePage, PhaseInv
<1>6. CASE EraseDone
  <2>1. flash[p] = {}
    BY <1>1, <1>6, ConstantTypes DEF EraseDone, PassedPagesErased
  <2>2. acked[p] = {}
    BY <1>1, <1>6 DEF EraseDone, PhaseInv, NothingAcked
  <2> QED
    BY <1>6, <2>1, <2>2 DEF EraseDone
<1>7. CASE WriteDone
  <2>1. known /\ flash[p] = UNION acked[p]
    BY <1>7 DEF WriteDone, AckedPagesIntact
  <2>2. CASE p = page
    <3>1. flash'[p] = flash[p] \cup data /\ acked'[p] = acked[p] \cup {data}
      BY <1>1, <1>7, <2>1, <2>2 DEF WriteDone, Flash
    <3> QED
      BY <2>1, <3>1
  <2>3. CASE p # page
    BY <1>1, <1>7, <2>1, <2>3 DEF WriteDone, Flash
  <2> QED
    BY <2>2, <2>3
<1>8. CASE Reset
  <2>1. phase # "writing" /\ known
    BY <1>8 DEF Reset
  <2>2. flash' = flash
    BY <1>8, <2>1 DEF Reset, FlashAfterReset, PhaseInv
  <2> QED
    BY <1>2, <1>8, <2>1, <2>2 DEF Reset
<1> QED
  BY <1>3, <1>4, <1>5, <1>6, <1>7, <1>8
  DEF Next, Command, Proceed, PowerLoss, WatchdogReset

\* The application is started only from a signed image, and nothing writes to
\* flash while it runs.
LEMMA NextSigned == ASSUME IInv, Next PROVE OnlySignedImagesRun'
<1> SUFFICES ASSUME phase' = "app" PROVE SignatureAppValid'
  BY DEF OnlySignedImagesRun
<1>1. CASE Boot
  BY <1>1 DEF Boot, SignatureAppValid, AppImage
<1>2. CASE ~ Boot
  BY <1>2 DEF Next, Command, Proceed, PowerLoss, WatchdogReset, Countdown, EndPoll,
         Ping, OtherCommand, Erase, ErasePage, EraseDone, WritePage, RefuseWrite,
         WriteDone, Reset
<1> QED
  BY <1>1, <1>2

\* Every step keeps the invariant.
LEMMA NextInv == IInv /\ [Next]_vars => IInv'
<1>1. ASSUME IInv, Next PROVE IInv'
  BY <1>1, NextType, NextPhase, NextPassed, NextAcked, NextSigned DEF IInv
<1>2. ASSUME IInv, UNCHANGED vars PROVE IInv'
  BY <1>2 DEF vars, IInv, TypeOK, PhaseInv, PassedPagesErased, AckedPagesIntact,
              OnlySignedImagesRun, SignatureAppValid, AppImage, FlashWriteResult,
              Address
<1> QED
  BY <1>1, <1>2

\* The invariant of the bootloader holds in every reachable state.
THEOREM BootloaderInvariant == Spec => []IInv
  BY InitInv, NextInv, PTL DEF Spec

\* Every value has its type; the timeout in particular never passes zero.
THEOREM TypeCorrect == Spec => []TypeOK
<1>1. IInv => TypeOK
  BY DEF IInv
<1> QED
  BY <1>1, BootloaderInvariant, PTL

\* Whatever hosts send and whenever power fails, the application runs only
\* from an image that is signed.
THEOREM SignedOnly == Spec => []OnlySignedImagesRun
<1>1. IInv => OnlySignedImagesRun
  BY DEF IInv
<1> QED
  BY <1>1, BootloaderInvariant, PTL

\* Between resets that cut a write short, an application page holds exactly
\* what was acknowledged for it since the last acknowledged erase.
THEOREM AckedDataIsKept == Spec => []AckedPagesIntact
<1>1. IInv => AckedPagesIntact
  BY DEF IInv
<1> QED
  BY <1>1, BootloaderInvariant, PTL

-----------------------------------------------------------------------------
\* One step changes no page outside the application's region.
LEMMA StepProtects ==
  ASSUME IInv, [Next]_vars
  PROVE  \A p \in Page \ AppRegion : flash'[p] = flash[p]
<1> USE DEF IInv, TypeOK
<1>1. CASE ErasePage
  <2>1. FlashPage(addr) \subseteq AppRegion
    BY <1>1, ErasedInRegion DEF ErasePage
  <2> QED
    BY <1>1, <2>1 DEF ErasePage
<1>2. CASE WriteDone
  <2>1. page \in AppRegion
    BY <1>2, WrittenInApp, AppInRegion DEF WriteDone, PhaseInv
  <2> QED
    BY <1>2, <2>1 DEF WriteDone, Flash
<1>3. CASE Reset
  BY <1>3, ResetFlash DEF Reset
<1>4. ASSUME ~ ErasePage, ~ WriteDone, ~ Reset PROVE flash' = flash
  BY <1>4 DEF Next, Command, Proceed, PowerLoss, WatchdogReset, Countdown, EndPoll,
         Ping, OtherCommand, Erase, EraseDone, WritePage, RefuseWrite, Boot, vars
<1> QED
  BY <1>1, <1>2, <1>3, <1>4

\* No sequence of commands, resets and torn flash operations ever changes a
\* page outside the application's region.
THEOREM ProtectedPages == Spec => ProtectedPagesUnchanged
<1>1. IInv /\ [Next]_vars =>
        [\A p \in Page \ AppRegion : flash'[p] = flash[p]]_vars
  BY StepProtects
<1> QED
  BY <1>1, BootloaderInvariant, PTL DEF Spec, ProtectedPagesUnchanged

\* When every page of a signed image has been acknowledged, that image is in
\* flash and passes the signature check: nothing acknowledged, repeated or
\* interrupted on the way has left anything else there.
THEOREM AckedImageIsValid == Spec => [](ImageAcked => SignatureAppValid)
<1>1. IInv /\ ImageAcked => SignatureAppValid
  <2> SUFFICES ASSUME IInv, ImageAcked PROVE AppImage \in SignedImages
    BY DEF SignatureAppValid
  <2>1. PICK image \in SignedImages :
          \A p \in AppPage : acked[p] = IF image[p] = {} THEN {} ELSE {image[p]}
    BY DEF ImageAcked
  <2>2. ASSUME NEW p \in AppPage PROVE flash[p] = image[p]
    <3>1. flash[p] = UNION acked[p]
      BY <2>2 DEF ImageAcked, IInv, AckedPagesIntact
    <3>2. image[p] = {} => UNION acked[p] = {}
      BY <2>1
    <3>3. image[p] # {} => UNION acked[p] = image[p]
      BY <2>1
    <3> QED
      BY <3>1, <3>2, <3>3
  <2>3. image = [p \in AppPage |-> image[p]]
    BY <2>1, ContentAssumption
  <2> QED
    BY <2>1, <2>2, <2>3 DEF AppImage
<1> QED
  BY <1>1, BootloaderInvariant, PTL
=============================================================================
