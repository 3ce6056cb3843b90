--------------------------- MODULE ListWatchCatalog ---------------------------
(***************************************************************************)
(* What the API-resource catalog of src/pkg/apiwatch/resources.go         *)
(* promises its consumer, the shared informer, without the relist         *)
(* goroutine's timing, the discovery round trip or the definer index.     *)
(*                                                                         *)
(*  - version: the catalog's version; only a List and an invalidation     *)
(*    change it, each by handing out the next one;                        *)
(*  - listed: the version stamped on the list the consumer holds;         *)
(*  - sessions: one entry per accepted Watch, open until something ends   *)
(*    it;                                                                  *)
(*  - stale: an invalidation has not yet been followed by the forced end  *)
(*    of the open sessions;                                                *)
(*  - stopped: the owning context has ended.                              *)
(*                                                                         *)
(* A Watch is accepted only while the consumer's list carries the current *)
(* version, and every invalidation is eventually followed by a cycle that *)
(* ends every open session, which makes the consumer resynchronise.       *)
(***************************************************************************)
EXTENDS Naturals, Sequences

VARIABLES version, listed, sessions, stale, stopped

avars == <<version, listed, sessions, stale, stopped>>

(* Every open session ended.                                              *)
EndAll(s) == [i \in DOMAIN s |-> "ended"]

Init ==
    /\ version = 1
    /\ listed = 0
    /\ sessions = <<>>
    /\ stale = FALSE
    /\ stopped = FALSE

(* Invalidate or a definer notification: a new version, content stale.    *)
Invalidate ==
    /\ version' = version + 1
    /\ stale' = TRUE
    /\ UNCHANGED <<listed, sessions, stopped>>

(* List: a new version stamps the consumer's list; open sessions end.     *)
List ==
    /\ ~stopped
    /\ version' = version + 1
    /\ listed' = version + 1
    /\ sessions' = EndAll(sessions)
    /\ UNCHANGED <<stale, stopped>>

(* Watch is accepted only at the current version.                         *)
Watch ==
    /\ ~stopped
    /\ listed = version
    /\ sessions' = Append(sessions, "open")
    /\ UNCHANGED <<version, listed, stale, stopped>>

(* The stale content is acted on: every open session is ended.            *)
Cycle ==
    /\ ~stopped
    /\ stale
    /\ stale' = FALSE
    /\ sessions' = EndAll(sessions)
    /\ UNCHANGED <<version, listed, stopped>>

(* One session reaches its own deadline.                                  *)
SessionEnd(i) ==
    /\ sessions[i] = "open"
    /\ sessions' = [sessions EXCEPT ![i] = "ended"]
    /\ UNCHANGED <<version, listed, stale, stopped>>

(* The owning context ends, and with it every session.                    *)
Stop ==
    /\ ~stopped
    /\ stopped' = TRUE
    /\ sessions' = EndAll(sessions)
    /\ UNCHANGED <<version, listed, stale>>

Next ==
    \/ Invalidate \/ List \/ Watch \/ Cycle \/ Stop
    \/ \E i \in DOMAIN sessions : SessionEnd(i)

SafetySpec == Init /\ [][Next]_avars

(* The cycle is owed to the consumer: while the catalog runs and is      *)
(* stale, a cycle eventually comes.                                       *)
Spec == SafetySpec /\ WF_avars(Cycle)

=============================================================================
