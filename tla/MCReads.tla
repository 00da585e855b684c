------------------------------ MODULE MCReads ------------------------------
(***************************************************************************)
(* Small instance of Reads.  Every button is held at some time, alone or   *)
(* with others of its register or of another one.  Seconds have 100 units  *)
(* and a word 512 values, so that both timers wrap around and the last     *)
(* units of a second are rounded up, as they are with the real factors.    *)
(***************************************************************************)
EXTENDS Reads

MCHoldings == {
  {}, {GP2X_UP}, {GP2X_RIGHT, GP2X_A}, {GP2X_START, GP2X_L}, {GP2X_Y, GP2X_R},
  {GP2X_SELECT, GP2X_VOL_UP}, {GP2X_PUSH, GP2X_B}, {GP2X_VOL_DOWN},
  {GP2X_DOWN, GP2X_LEFT, GP2X_X}}

MCRates == [TIMER3 |-> 10, TCOUNT |-> 23]
MCFactors == [TIMER3 |-> 52, TCOUNT |-> 118]
MCMoments == {1, 9, 10, 97, 98, 99, 100, 101, 109, 499, 512, 1999, 2225, 2226, 2237, 2241, 2300,
              5099, 5100, 5118, 5119, 5120, 5121, 5199, 5200}
=============================================================================
