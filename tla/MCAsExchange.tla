---------------------------- MODULE MCAsExchange ----------------------------
(* Model-checking instance of AsExchange: two salts (the default one and  *)
(* another), the RFC default count, a larger one and 2^w (sent as zero),  *)
(* the user's passphrase and a wrong one.  w = 16 stands in for 32: TLC's *)
(* integers are 32-bit, and only the wrap of 2^w to zero matters.         *)
EXTENDS AsExchange

MCRfcIterCount == 4096
MCU32Mod == 65536
MCKdcIterCounts == {4096, 32768, 65536}

(* Two nonces: enough for a replayed AS-REP to carry another request's. *)
MCNonces == {0, 1}
=============================================================================
