---------------------------- MODULE MCBootloader ----------------------------
(***************************************************************************)
(* Bootloader on a small flash: ten write pages of two bytes, five flash   *)
(* pages of four.  Pages 0 and 1 are the bootloader, 2 to 5 the            *)
(* application, 6 and 7 the storage region, 8 and 9 the updater; page 9    *)
(* plays the part of page 255, the last one of the flash.                  *)
(***************************************************************************)
EXTENDS Bootloader, TLC

MCBit == {"b0", "b1"}
MCData == {{"b0"}, {"b1"}}

Image1 == (2 :> {"b0"} @@ 3 :> {"b1"} @@ 4 :> {} @@ 5 :> {"b0"})
Image2 == (2 :> {"b0"} @@ 3 :> {"b0"} @@ 4 :> {"b1"} @@ 5 :> {"b1"})
MCSignedImages == {Image1, Image2}

\* The updater's own pages hold something; the application is missing, or is
\* one of the signed images.
Delivered(app) ==
  [p \in Page |-> IF p \in AppPage THEN app[p] ELSE {"b0"}]
MCFactoryFlash ==
  {Delivered([p \in AppPage |-> {}]), Delivered(Image1)}

\* The layout of flash_constants.h satisfies the assumptions, the pages a
\* host can write are 8 to 215, which are those of the application, and no
\* page number is past the end of the flash.
Real == INSTANCE Bootloader WITH
  FLASH_PAGE_SIZE <- 1024, FLASH_WRITE_PAGE_SIZE <- 128,
  FLASH_APP_START <- 1024, FLASH_APP_END <- 27647,
  FLASH_STORAGE_START <- 27648, FLASH_SIZE <- 32768, LAST_PAGE <- 255,
  COMMAND_WATCHDOG_DELAY <- 45000, SHORT_DELAY <- 1000

ASSUME RealLayout ==
  /\ {p \in 0 .. 255 : Real!FlashWriteResult(p) = "ok"} = 8 .. 215
  /\ Real!AppPage = 8 .. 215 /\ Real!AppRegion = 8 .. 215
  /\ \A p \in 0 .. 255 : Real!FlashWriteResult(p) # "bad_addr"
=============================================================================
