---------------------------- MODULE MCAIService ----------------------------
(***************************************************************************)
(* Two metrics of one measurement, so that it needs more than one block   *)
(* at writeAmountOfBatchData = 1; the heartbeat is a second measurement,  *)
(* so the map has two iteration orders.  The                             *)
(* token outlives loginInterval by one tick, and the clock runs long       *)
(* enough for a token to pass both.                                        *)
(***************************************************************************)
EXTENDS AIService

CONSTANTS m1, m2, hb

MCMetrics == {m1, m2}
MCNameOf == (m1 :> "disk") @@ (m2 :> "disk") @@ (hb :> "sai_event")
MCWriteAmountOfBatchData == 1
MCMaxRequestTimes == 3
MCLoginInterval == 2
MCTokenLifetime == 3
MCMaxTime == 4
MCMaxLogins == 2

=============================================================================
