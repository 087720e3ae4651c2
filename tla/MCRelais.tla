------------------------------ MODULE MCRelais ------------------------------
(* Both channels; enough values for one to arrive in every phase of the    *)
(* switching that another one has caused.                                  *)
EXTENDS Relais, TLC

CONSTANTS out0, out1

MCChannels == {out0, out1}
MCSymmetry == Permutations(MCChannels)
=============================================================================
