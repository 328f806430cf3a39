----------------------------- MODULE MCStm32Pma -----------------------------
(***************************************************************************)
(* The build of config.h (one UART, one vendor HID) and its neighbours.    *)
(***************************************************************************)
EXTENDS Stm32Pma

AsShipped  == {<<1, 1>>}
Neighbours == {<<0, 1>>, <<1, 0>>, <<1, 1>>, <<2, 0>>}
=============================================================================
