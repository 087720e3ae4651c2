--------------------------- MODULE MCMessagePump ---------------------------
(* Two buffers as in the firmware: "relais", sent from thread mode, and    *)
(* "switch", sent from interrupts.                                         *)
EXTENDS MessagePump, TLC

CONSTANTS relais, switch

MCBuffers == {relais, switch}
MCCapacity == (relais :> 2) @@ (switch :> 2)
MCContext == (relais :> "main") @@ (switch :> "isr")
=============================================================================
