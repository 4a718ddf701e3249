---------------------------- MODULE PayloadQueue ----------------------------
(***************************************************************************)
(* payloads.db, the outbox of the edge agent: table json_data, as          *)
(* payload_manager.py (insert_with_cap, startup_purge) and                 *)
(* database_handler.py (startup_cleanup, get_pending, mark_as_sent) use it *)
(* from several processes at once.                                         *)
(*                                                                         *)
(* Each SQL statement that can see another process's commit is a step.     *)
(* insert_with_cap holds a threading.Lock, so a process runs at most one   *)
(* of them at a time; nothing but SQLite orders the processes.             *)
(***************************************************************************)
EXTENDS Integers, FiniteSets

CONSTANTS Procs,         (* the processes that call insert_with_cap         *)
          Senders,       (* the processes that read the queue to publish it *)
          MAX_PENDING,   (* 500 in payload_manager.py                       *)
          ScanLimit,     (* the 50 of "ORDER BY id ASC LIMIT 50"            *)
          MaxRows,       (* bounds of the model: rows ever inserted,        *)
          MaxBusy        (* and operations in hand at once                  *)

ASSUME ConstantsAssumption ==
    /\ MAX_PENDING \in Nat \ {0}
    /\ ScanLimit \in Nat \ {0}
    /\ MaxRows \in Nat /\ MaxBusy \in Nat

VARIABLES rows,          (* the table: id -> [kind, status]                 *)
          nextId,        (* AUTOINCREMENT: an id is never used again        *)
          pc,            (* per process: where insert_with_cap stands       *)
          arg,           (* per process: the kind of the payload it inserts *)
          victim,        (* per process: the row id it decided to evict     *)
          limit,         (* history, per process: the cap, or the COUNT if  *)
                         (* that was more, and the rows others have         *)
                         (* inserted since; 0 while it inserts none         *)
          reading,       (* per sender: the row it is publishing, 0 if none *)
          stale,         (* startup_cleanup: ids selected, not yet updated  *)
          purge,         (* startup_purge: ids selected, not yet deleted    *)
          evicted        (* history: pending rows deleted to make room      *)

dbVars     == <<rows, nextId>>
insertVars == <<pc, arg, victim, limit>>
maintVars  == <<stale, purge>>
vars == <<rows, nextId, pc, arg, victim, limit, reading, stale, purge, evicted>>

(* What _is_heartbeat and ZONE_EVENT_LOG_TYPES tell apart. *)
Kind   == {"heartbeat", "zone", "other"}
Status == {"pending", "sent", "expired"}
Deleting == {"delete heartbeat", "delete oldest"}
PC     == {"idle", "scan", "oldest", "delete heartbeat", "delete oldest", "insert"}

IsHeartbeat(r)  == r.kind = "heartbeat"
IsZoneEvent(r)  == r.kind = "zone"

Pending    == {i \in DOMAIN rows : rows[i].status = "pending"}
Heartbeats == {i \in Pending : IsHeartbeat(rows[i])}
Oldest(S)  == CHOOSE i \in S : \A j \in S : i <= j

(* The pending rows that "ORDER BY id ASC LIMIT 50" returns. *)
Scanned == {i \in Pending : Cardinality({j \in Pending : j < i}) < ScanLimit}

DeleteRows(S)   == rows' = [i \in DOMAIN rows \ S |-> rows[i]]
SetStatus(S, s) == rows' = [i \in DOMAIN rows |->
                              IF i \in S THEN [rows[i] EXCEPT !.status = s]
                                         ELSE rows[i]]

(* The bound on the operations that have begun and not ended. *)
MayBegin == Cardinality({p \in Procs : pc[p] # "idle"})
              + Cardinality({s \in Senders : reading[s] # 0})
              + (IF stale = {} THEN 0 ELSE 1) + (IF purge = {} THEN 0 ELSE 1) < MaxBusy

(* A row of p joins: those that have counted before will find one more. *)
CountInsert(p) == limit' = [q \in Procs |-> IF q = p \/ limit[q] = 0
                                            THEN 0 ELSE limit[q] + 1]
-----------------------------------------------------------------------------
Init ==
    /\ rows = [i \in {} |-> [kind |-> "other", status |-> "pending"]]
    /\ nextId = 1
    /\ pc = [p \in Procs |-> "idle"]
    /\ arg = [p \in Procs |-> "other"]
    /\ victim = [p \in Procs |-> 0]
    /\ limit = [p \in Procs |-> 0]
    /\ reading = [s \in Senders |-> 0]
    /\ stale = {}
    /\ purge = {}
    /\ evicted = {}

-----------------------------------------------------------------------------
(* insert_with_cap *)

(* Mutant: the cap is not looked at, every insert makes room. *)
InsertBegin_AlwaysEvicts(p, k) ==
    /\ pc[p] = "idle"
    /\ nextId <= MaxRows /\ MayBegin
    /\ arg' = [arg EXCEPT ![p] = k]
    /\ pc' = [pc EXCEPT ![p] = "scan"]
    /\ limit' = [limit EXCEPT ![p] = MAX_PENDING]
    /\ UNCHANGED <<dbVars, victim, reading, maintVars, evicted>>

(* SELECT COUNT( * ) of the pending rows, in autocommit mode: nothing keeps  *)
(* the answer true until the row is inserted.                              *)
InsertBegin(p, k) ==
    /\ pc[p] = "idle"
    /\ nextId <= MaxRows /\ MayBegin
    /\ arg' = [arg EXCEPT ![p] = k]
    /\ pc' = [pc EXCEPT ![p] = IF Cardinality(Pending) >= MAX_PENDING
                               THEN "scan" ELSE "insert"]
    /\ limit' = [limit EXCEPT ![p] = IF Cardinality(Pending) > MAX_PENDING
                                     THEN Cardinality(Pending) ELSE MAX_PENDING]
    /\ UNCHANGED <<dbVars, victim, reading, maintVars, evicted>>

(* Mutant: the scan has no ORDER BY, any heartbeat may come first. *)
ScanHeartbeats_Unordered(p) ==
    /\ pc[p] = "scan"
    /\ IF Heartbeats # {}
       THEN /\ \E i \in Heartbeats : victim' = [victim EXCEPT ![p] = i]
            /\ pc' = [pc EXCEPT ![p] = "delete heartbeat"]
       ELSE /\ pc' = [pc EXCEPT ![p] = "oldest"]
            /\ UNCHANGED victim
    /\ UNCHANGED <<dbVars, arg, limit, reading, maintVars, evicted>>

(* Mutant: the oldest row goes, though heartbeats wait. *)
ScanHeartbeats_Skipped(p) ==
    /\ pc[p] = "scan"
    /\ pc' = [pc EXCEPT ![p] = "oldest"]
    /\ UNCHANGED <<dbVars, arg, victim, limit, reading, maintVars, evicted>>

(* The oldest heartbeat among the ScanLimit oldest rows, if there is one. *)
ScanHeartbeats(p) ==
    /\ pc[p] = "scan"
    /\ LET found == Scanned \cap Heartbeats
       IN  IF found # {}
           THEN /\ victim' = [victim EXCEPT ![p] = Oldest(found)]
                /\ pc' = [pc EXCEPT ![p] = "delete heartbeat"]
           ELSE /\ pc' = [pc EXCEPT ![p] = "oldest"]
                /\ UNCHANGED victim
    /\ UNCHANGED <<dbVars, arg, limit, reading, maintVars, evicted>>

(* No heartbeat was found: the oldest pending row, whatever it is. *)
ScanOldest(p) ==
    /\ pc[p] = "oldest"
    /\ IF Pending # {}
       THEN /\ victim' = [victim EXCEPT ![p] = Oldest(Pending)]
            /\ pc' = [pc EXCEPT ![p] = "delete oldest"]
       ELSE /\ pc' = [pc EXCEPT ![p] = "insert"]
            /\ UNCHANGED victim
    /\ UNCHANGED <<dbVars, arg, limit, reading, maintVars, evicted>>

(* DELETE ... WHERE id = ?, and its commit: the row goes whatever its       *)
(* status has become; if it is gone already nothing happens.               *)
Evict(p) ==
    /\ pc[p] \in Deleting
    /\ DeleteRows({victim[p]})
    /\ evicted' = evicted \cup ({victim[p]} \cap Pending)
    /\ pc' = [pc EXCEPT ![p] = "insert"]
    /\ victim' = [victim EXCEPT ![p] = 0]
    /\ UNCHANGED <<nextId, arg, limit, reading, maintVars>>

(* Mutant: the primary key is not AUTOINCREMENT, so SQLite gives the new   *)
(* row the largest id in the table plus one: a deleted id comes back.      *)
InsertRow_ReusesIds(p) ==
    /\ pc[p] = "insert"
    /\ nextId <= MaxRows
    /\ LET id == CHOOSE i \in 1 .. nextId :
                    /\ \A j \in DOMAIN rows : j < i
                    /\ i = 1 \/ i - 1 \in DOMAIN rows
       IN  rows' = [i \in DOMAIN rows \cup {id} |->
                      IF i = id THEN [kind |-> arg[p], status |-> "pending"]
                                ELSE rows[i]]
    /\ nextId' = nextId + 1
    /\ pc' = [pc EXCEPT ![p] = "idle"]
    /\ arg' = [arg EXCEPT ![p] = "other"]
    /\ CountInsert(p)
    /\ UNCHANGED <<victim, reading, maintVars, evicted>>

InsertRow(p) ==
    /\ pc[p] = "insert"
    /\ nextId <= MaxRows
    /\ rows' = [i \in DOMAIN rows \cup {nextId} |->
                  IF i = nextId THEN [kind |-> arg[p], status |-> "pending"]
                                ELSE rows[i]]
    /\ nextId' = nextId + 1
    /\ pc' = [pc EXCEPT ![p] = "idle"]
    /\ arg' = [arg EXCEPT ![p] = "other"]
    /\ CountInsert(p)
    /\ UNCHANGED <<victim, reading, maintVars, evicted>>

(* Any sqlite error (a locked database) is logged and swallowed, and a     *)
(* crash ends the call in the same way: what was committed stays, the      *)
(* payload is gone.                                                        *)
InsertAborted(p) ==
    /\ pc[p] # "idle"
    /\ pc' = [pc EXCEPT ![p] = "idle"]
    /\ victim' = [victim EXCEPT ![p] = 0]
    /\ limit' = [limit EXCEPT ![p] = 0]
    /\ arg' = [arg EXCEPT ![p] = "other"]
    /\ UNCHANGED <<dbVars, reading, maintVars, evicted>>

-----------------------------------------------------------------------------
(* The senders *)

(* get_pending / get_json_string: the pending row with the smallest id. *)
GetPending(s) ==
    /\ reading[s] = 0 /\ MayBegin
    /\ Pending # {}
    /\ reading' = [reading EXCEPT ![s] = Oldest(Pending)]
    /\ UNCHANGED <<dbVars, insertVars, maintVars, evicted>>

(* Mutant: a failed publish resets the status of its row (reset_status).   *)
GiveUp_Resets(s) ==
    /\ reading[s] # 0
    /\ SetStatus({reading[s]}, "pending")
    /\ reading' = [reading EXCEPT ![s] = 0]
    /\ UNCHANGED <<nextId, insertVars, maintVars, evicted>>

(* mark_as_sent: UPDATE by id, whatever the row has become meanwhile. *)
MarkAsSent(s) ==
    /\ reading[s] # 0
    /\ SetStatus({reading[s]}, "sent")
    /\ reading' = [reading EXCEPT ![s] = 0]
    /\ UNCHANGED <<nextId, insertVars, maintVars, evicted>>

(* The publish failed, or the sender crashed before it marked the row. *)
GiveUp(s) ==
    /\ reading[s] # 0
    /\ reading' = [reading EXCEPT ![s] = 0]
    /\ UNCHANGED <<dbVars, insertVars, maintVars, evicted>>

-----------------------------------------------------------------------------
(* Restarts *)

(* startup_cleanup, at the boot of the core: SELECT the pending rows, and   *)
(* keep of them those that are no zone events.                             *)
CleanupSelect ==
    /\ stale = {} /\ MayBegin
    /\ stale' = {i \in Pending : ~ IsZoneEvent(rows[i])}
    /\ stale' # {}
    /\ UNCHANGED <<dbVars, insertVars, reading, purge, evicted>>

(* ... then UPDATE them by id, in one transaction. *)
CleanupUpdate ==
    /\ stale # {}
    /\ SetStatus(stale, "expired")
    /\ stale' = {}
    /\ UNCHANGED <<nextId, insertVars, reading, purge, evicted>>

(* startup_purge, at the start of the publisher.  json_data has no column  *)
(* created_at, so the query on the age of the rows always fails, and the   *)
(* fallback selects every pending row.                                     *)
PurgeSelect ==
    /\ purge = {} /\ MayBegin
    /\ purge' = Heartbeats
    /\ purge' # {}
    /\ UNCHANGED <<dbVars, insertVars, reading, stale, evicted>>

(* ... then DELETE them by id. *)
PurgeDelete ==
    /\ purge # {}
    /\ DeleteRows(purge)
    /\ purge' = {}
    /\ UNCHANGED <<nextId, insertVars, reading, stale, evicted>>

-----------------------------------------------------------------------------
Insert(p) ==
    \/ \E k \in Kind : InsertBegin(p, k)
    \/ ScanHeartbeats(p)
    \/ ScanOldest(p)
    \/ Evict(p)
    \/ InsertRow(p)
    \/ InsertAborted(p)

Send(s) == GetPending(s) \/ MarkAsSent(s) \/ GiveUp(s)

Maintain == CleanupSelect \/ CleanupUpdate \/ PurgeSelect \/ PurgeDelete

Next ==
    \/ \E p \in Procs : Insert(p)
    \/ \E s \in Senders : Send(s)
    \/ Maintain

Spec == Init /\ [][Next]_vars
-----------------------------------------------------------------------------
TypeOK ==
    /\ nextId \in 1 .. MaxRows + 1
    /\ DOMAIN rows \subseteq 1 .. nextId - 1
    /\ rows \in [DOMAIN rows -> [kind : Kind, status : Status]]
    /\ pc \in [Procs -> PC]
    /\ arg \in [Procs -> Kind]
    /\ victim \in [Procs -> 0 .. nextId - 1]
    /\ limit \in [Procs -> Nat]
    /\ reading \in [Senders -> 0 .. nextId - 1]
    /\ stale \subseteq 1 .. nextId - 1
    /\ purge \subseteq 1 .. nextId - 1
    /\ evicted \subseteq 1 .. nextId - 1

(* The pending rows never exceed the cap, though the count, the eviction   *)
(* and the insert are separate transactions, and rows are sent, expired,   *)
(* purged between them (payload_manager.py, "Enforces MAX_PENDING cap").   *)
CapHolds == Cardinality(Pending) <= MAX_PENDING

(* Whatever order the processes' SELECTs and DELETEs fall in, a pending    *)
(* row is evicted only if no pending row is older, or if it is a heartbeat *)
(* and no pending heartbeat is older (insert_with_cap, "Eviction order").  *)
EvictsOldest ==
    [][\A i \in evicted' \ evicted :
          LET rivals == IF IsHeartbeat(rows[i]) THEN Heartbeats ELSE Pending
          IN  \A j \in rivals : i <= j]_vars

(* Rows are sent in id order: a pending row is marked sent only while no   *)
(* older row is pending, though other senders, restarts and inserts act    *)
(* between get_pending and mark_as_sent (database_handler.py).             *)
SentInOrder ==
    [][\A i \in Pending \cap DOMAIN rows' :
          rows'[i].status = "sent" => \A j \in Pending : i <= j]_vars

(* A zone event is never expired by a boot of the core, and leaves the     *)
(* table only evicted for room or once it was sent: the ids that a restart *)
(* selected still name the rows it selected when it updates or deletes     *)
(* them (startup_cleanup, startup_purge).                                  *)
ZoneEventsSurviveRestarts ==
    [][\A i \in DOMAIN rows :
          IsZoneEvent(rows[i]) =>
             IF i \in DOMAIN rows'
             THEN rows'[i].status # "expired"
             ELSE i \in evicted' \/ rows[i].status = "sent"]_vars

(* Why that holds: what a process decided to evict is still the oldest of  *)
(* its class when it is deleted, what a sender reads is still the head of  *)
(* the queue when it is marked, and what a restart selected is of a stale  *)
(* kind, because no row becomes pending again and no id comes back.        *)
VictimsOldest ==
    \A p \in Procs :
        /\ pc[p] = "delete heartbeat" /\ victim[p] \in Pending =>
              /\ victim[p] \in Scanned \cap Heartbeats
              /\ \A j \in Heartbeats : victim[p] <= j
        /\ pc[p] = "delete oldest" /\ victim[p] \in Pending =>
              \A j \in Pending : victim[p] <= j

ReadingHead ==
    \A s \in Senders : reading[s] \in Pending =>
        \A j \in Pending : reading[s] <= j

StaleKinds ==
    /\ \A i \in stale \cap DOMAIN rows : ~ IsZoneEvent(rows[i])
    /\ \A i \in purge \cap DOMAIN rows : IsHeartbeat(rows[i])

ZoneNotExpired ==
    \A i \in DOMAIN rows : IsZoneEvent(rows[i]) => rows[i].status # "expired"

(* There is room when a process is about to insert, and there will be when *)
(* it has evicted its victim: fewer rows wait than the cap, or than its    *)
(* COUNT has found, and those that others have inserted since.             *)
RoomForInsert ==
    \A p \in Procs :
        /\ pc[p] = "idle" <=> limit[p] = 0
        /\ pc[p] # "idle" => limit[p] >= MAX_PENDING
        /\ pc[p] \in {"scan", "oldest"} => Cardinality(Pending) <= limit[p]
        /\ pc[p] \in Deleting => Cardinality(Pending \ {victim[p]}) < limit[p]
        /\ pc[p] = "insert" => Cardinality(Pending) < limit[p]

LimitIsCap == \A p \in Procs : limit[p] <= MAX_PENDING

OrderInv == TypeOK /\ VictimsOldest /\ ReadingHead /\ StaleKinds /\ ZoneNotExpired
CapInv   == CapHolds /\ LimitIsCap

(* One writing process, as the lock of insert_with_cap supposes.           *)
SingleWriter == \A p, q \in Procs : p = q

(* What a process may still evict, after what its scans have returned.     *)
MayDrop(step) == CASE step \in {"scan", "delete heartbeat"} -> "heartbeat"
                   [] step \in {"oldest", "delete oldest"}  -> "oldest"
                   [] OTHER                               -> "nothing"

(* With any number of writing processes this is the abstract backlog: who  *)
(* has found the cap reached evicts one row at most, the oldest heartbeat  *)
(* of those scanned, or the oldest row only after a scan that saw none;    *)
(* and its insert leaves no more rows than it may (insert_with_cap).       *)
Backlog == INSTANCE BoundedBacklog
              WITH Writers <- Procs,
                   Window  <- ScanLimit,
                   backlog <- [i \in Pending |-> rows[i].kind],
                   fresh   <- nextId,
                   dropped <- evicted,
                   mayDrop <- [p \in Procs |-> MayDrop(pc[p])],
                   limit   <- limit

ImplementsBacklog == Backlog!Spec
=============================================================================
