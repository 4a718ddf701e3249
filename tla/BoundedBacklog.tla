--------------------------- MODULE BoundedBacklog ---------------------------
(***************************************************************************)
(* What payload_manager.py and database_handler.py promise of the backlog  *)
(* of telemetry, without the database, the statuses of its rows and the    *)
(* steps of those who send and clean: a set of numbered payloads that      *)
(* grows at its young end and is handed over oldest first.  Who finds      *)
(* MAX_PENDING of them gives up at most one: the oldest heartbeat of the   *)
(* Window oldest payloads, or, only if it has seen no heartbeat among      *)
(* these, the oldest payload of all.  What it adds then leaves no more     *)
(* than MAX_PENDING waiting, or than it has found, but for what others     *)
(* have added in the meantime; with one writer, never more than            *)
(* MAX_PENDING.                                                            *)
(*                                                                         *)
(* "Only if no heartbeats remain" is promised if Window covers the cap.    *)
(***************************************************************************)
EXTENDS Integers, FiniteSets

CONSTANTS Writers,
          MAX_PENDING,   (* the cap on the backlog                          *)
          Window         (* how many payloads a writer looks at             *)

VARIABLES backlog,       (* the waiting payloads: id -> kind                *)
          fresh,         (* the id of the next payload                      *)
          dropped,       (* the ids given up to make room                   *)
          mayDrop,       (* per writer: what it may give up                 *)
          limit          (* per writer: how many payloads may wait once it  *)
                         (* has added its own; 0 if it adds none            *)

vars == <<backlog, fresh, dropped, mayDrop, limit>>

Kind == {"heartbeat", "zone", "other"}

Waiting == DOMAIN backlog
Crowd == Cardinality(Waiting)
Front == {i \in Waiting : Cardinality({j \in Waiting : j < i}) < Window}
IsHeartbeat(i) == backlog[i] = "heartbeat"

WithoutIds(S) == [i \in Waiting \ S |-> backlog[i]]
May(w, what) == mayDrop' = [mayDrop EXCEPT ![w] = what]

Init == /\ backlog = [i \in {} |-> "other"]
        /\ fresh = 1
        /\ dropped = {}
        /\ mayDrop = [w \in Writers |-> "nothing"]
        /\ limit = [w \in Writers |-> 0]

(* A writer looks whether there is room. *)
Look(w) ==
    /\ limit[w] = 0 /\ mayDrop[w] = "nothing"
    /\ May(w, IF Crowd >= MAX_PENDING THEN "heartbeat" ELSE "nothing")
    /\ limit' = [limit EXCEPT ![w] = IF Crowd > MAX_PENDING THEN Crowd ELSE MAX_PENDING]
    /\ UNCHANGED <<backlog, fresh, dropped>>

FindNoHeartbeat(w) ==
    /\ mayDrop[w] = "heartbeat"
    /\ \A i \in Front : ~ IsHeartbeat(i)
    /\ May(w, "oldest")
    /\ UNCHANGED <<backlog, fresh, dropped, limit>>

Drop(w, i) ==
    /\ \/ /\ mayDrop[w] = "heartbeat"
          /\ i \in Front /\ IsHeartbeat(i)
          /\ \A j \in Waiting : IsHeartbeat(j) => i <= j
       \/ /\ mayDrop[w] = "oldest"
          /\ \A j \in Waiting : i <= j
    /\ May(w, "nothing")
    /\ backlog' = WithoutIds({i})
    /\ dropped' = dropped \cup {i}
    /\ UNCHANGED <<fresh, limit>>

(* What it had chosen is gone, or nothing waits any more. *)
DropNothing(w) ==
    /\ May(w, "nothing")
    /\ UNCHANGED <<backlog, fresh, dropped, limit>>

(* A payload joins at the young end. *)
Accept(w, k) ==
    /\ mayDrop[w] = "nothing"
    /\ Crowd < limit[w]
    /\ backlog' = [i \in Waiting \cup {fresh} |->
                        IF i = fresh THEN k ELSE backlog[i]]
    /\ fresh' = fresh + 1
    /\ limit' = [v \in Writers |-> IF v = w \/ limit[v] = 0 THEN 0 ELSE limit[v] + 1]
    /\ UNCHANGED <<dropped, mayDrop>>

(* A writer fails or dies. *)
Abort(w) ==
    /\ May(w, "nothing")
    /\ limit' = [limit EXCEPT ![w] = 0]
    /\ UNCHANGED <<backlog, fresh, dropped>>

(* The payload handed over is the oldest one. *)
HandOver(i) ==
    /\ \A j \in Waiting : i <= j
    /\ backlog' = WithoutIds({i})
    /\ UNCHANGED <<fresh, dropped, mayDrop, limit>>

(* A restart makes payloads stale, but never a zone event. *)
Expire(S) ==
    /\ \A i \in S : backlog[i] # "zone"
    /\ backlog' = WithoutIds(S)
    /\ UNCHANGED <<fresh, dropped, mayDrop, limit>>

Write(w) ==
    \/ Look(w) \/ FindNoHeartbeat(w) \/ DropNothing(w) \/ Abort(w)
    \/ \E i \in Waiting : Drop(w, i)
    \/ \E k \in Kind : Accept(w, k)

Next ==
    \/ \E w \in Writers : Write(w)
    \/ \E i \in Waiting : HandOver(i)
    \/ \E S \in SUBSET Waiting : Expire(S)

Spec == Init /\ [][Next]_vars
=============================================================================
