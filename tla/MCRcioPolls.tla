----------------------------- MODULE MCRcioPolls -----------------------------
(***************************************************************************)
(* Small instances of RcioPolls for TLC: jiffies of 8 values, so that      *)
(* they wrap within a few polls, and two lengths of period.  For each      *)
(* watch, what can disturb it comes and goes; the channels are watched on  *)
(* a link that works.                                                      *)
(***************************************************************************)
EXTENDS RcioPolls

Periods == [p \in Polls |-> IF p \in {"rcin", "adc"} THEN 1 ELSE 2]
Firsts  == [p \in Polls |-> 1]

AllWatches == {"rc", "channels", "link", "beat", "config"}

Disturbances ==
  [w \in AllWatches |-> CASE w = "rc"       -> {"rc", "link"}
                          [] w = "channels" -> {"rc"}
                          [] w = "link"     -> {"link"}
                          [] w = "beat"     -> {"link", "heartbeat"}
                          [] w = "config"   -> {"config", "enable"}]
=============================================================================
