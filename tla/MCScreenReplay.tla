--------------------------- MODULE MCScreenReplay ---------------------------
(* A small instance of ScreenReplay for TLC, in which the headless terminal    *)
(* may fail while a repair's patch is on its way to the browser.               *)
EXTENDS ScreenReplay
=============================================================================
