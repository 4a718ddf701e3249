------------------------ MODULE AmcIntegrationProofs ------------------------
(***************************************************************************)
(* The queue and the integration that writes to it, proved.  PayloadQueue, *)
(* for every set of processes and senders, every cap and every scan limit: *)
(* what is evicted and what is handed over is the oldest of its class, and *)
(* the queue implements BoundedBacklog; with one writing process the cap   *)
(* holds.  AmcIntegration, for every set of points and connections, and    *)
(* for every number of restarts and failures: its types, that a panel held *)
(* offline has been reported offline, and that of an alarm only the first  *)
(* activation is reported.                                                 *)
(***************************************************************************)
EXTENDS AmcIntegration, FiniteSetTheorems, WellFoundedInduction, TLAPS

-----------------------------------------------------------------------------
(* PayloadQueue.                                                           *)

(* A set of row ids that is not empty has a smallest one.                  *)
LEMMA MinExists ==
  ASSUME NEW S, S \subseteq Nat, S # {}
  PROVE  \E i \in S : \A j \in S : i <= j
<1>1. PICK i \in S : \A j \in S : ~ (<<j, i>> \in OpToRel(<, Nat))
  BY NatLessThanWellFounded, WFMin
<1>2. \A j \in S : ~ (j < i)
  BY <1>1 DEF OpToRel
<1>3. \A j \in S : i \in Nat /\ j \in Nat
  OBVIOUS
<1>4. \A j \in S : i <= j
  BY <1>2, <1>3
<1> QED BY <1>4

(* ORDER BY id LIMIT 1: Oldest returns the smallest id of a set of ids.    *)
LEMMA OldestIsMin ==
  ASSUME NEW S, S \subseteq Nat, S # {}
  PROVE  /\ Oldest(S) \in S
         /\ \A j \in S : Oldest(S) <= j
<1>1. \E i \in S : \A j \in S : i <= j
  BY MinExists
<1> QED BY <1>1 DEF Oldest

(* The pending rows are finitely many, and their ids were handed out.      *)
LEMMA PendingRange ==
  ASSUME TypeOK
  PROVE  /\ nextId \in Nat
         /\ Pending \subseteq Nat
         /\ Heartbeats \subseteq Pending
         /\ \A i \in Pending : i < nextId /\ i \in 1 .. nextId - 1
         /\ IsFiniteSet(Pending)
         /\ Cardinality(Pending) \in Nat
<1>1. /\ nextId \in Nat
      /\ DOMAIN rows \subseteq 1 .. nextId - 1
  BY ConstantsAssumption DEF TypeOK
<1>2. Pending \subseteq 1 .. nextId - 1
  BY <1>1 DEF Pending
<1>3. IsFiniteSet(1 .. nextId - 1)
  BY <1>1, FS_Interval
<1>4. IsFiniteSet(Pending) /\ Cardinality(Pending) \in Nat
  BY <1>2, <1>3, FS_Subset, FS_CardinalityType
<1>5. Heartbeats \subseteq Pending
  BY DEF Heartbeats
<1> QED BY <1>1, <1>2, <1>4, <1>5

(* The scan of the ScanLimit oldest rows misses no heartbeat that is older *)
(* than one it finds.                                                      *)
LEMMA ScanFindsOldest ==
  ASSUME TypeOK, NEW i \in Scanned \cap Heartbeats, NEW j \in Heartbeats, j < i
  PROVE  j \in Scanned
<1> DEFINE Below(n) == {k \in Pending : k < n}
<1>1. i \in Pending /\ j \in Pending /\ i \in Nat /\ j \in Nat
  BY PendingRange
<1>2. Below(j) \subseteq Below(i)
  <2> SUFFICES ASSUME NEW k \in Pending, k < j PROVE k < i
    OBVIOUS
  <2>1. k \in Nat
    BY PendingRange
  <2> QED BY <2>1, <1>1
<1>3. IsFiniteSet(Below(i))
  BY PendingRange, FS_Subset
<1>4. /\ Cardinality(Below(j)) <= Cardinality(Below(i))
      /\ Cardinality(Below(j)) \in Nat
      /\ Cardinality(Below(i)) \in Nat
  BY <1>2, <1>3, FS_Subset, FS_CardinalityType
<1>5. Cardinality(Below(i)) < ScanLimit
  BY DEF Scanned
<1>6. Cardinality(Below(j)) < ScanLimit
  BY <1>4, <1>5, ConstantsAssumption
<1> QED BY <1>1, <1>6 DEF Scanned
-----------------------------------------------------------------------------
(* Every step of the processes, the senders and the restarts keeps the     *)
(* types.                                                                  *)
LEMMA TypeStep == TypeOK /\ [Next]_vars => TypeOK'
<1> SUFFICES ASSUME TypeOK, [Next]_vars PROVE TypeOK'
  OBVIOUS
<1> USE ConstantsAssumption
<1>a. /\ nextId \in Nat
      /\ DOMAIN rows \subseteq 1 .. nextId - 1
      /\ Pending \subseteq 1 .. nextId - 1
  BY PendingRange DEF TypeOK
<1>b. \A S : S \subseteq Pending /\ S # {} => Oldest(S) \in 0 .. nextId - 1
  <2> SUFFICES ASSUME NEW S, S \subseteq Pending, S # {}
               PROVE  Oldest(S) \in 0 .. nextId - 1
    OBVIOUS
  <2>1. S \subseteq Nat
    BY <1>a
  <2>2. Oldest(S) \in S
    BY <2>1, OldestIsMin
  <2>3. Oldest(S) \in 1 .. nextId - 1
    BY <2>2, <1>a
  <2> QED BY <2>3, <1>a
<1>1. ASSUME NEW p \in Procs, NEW k \in Kind, InsertBegin(p, k) PROVE TypeOK'
  BY <1>1, PendingRange DEF TypeOK, InsertBegin, PC, dbVars, maintVars
<1>2. ASSUME NEW p \in Procs, ScanHeartbeats(p) PROVE TypeOK'
  <2>1. Scanned \cap Heartbeats \subseteq Pending
    BY DEF Scanned
  <2>0. Scanned \cap Heartbeats # {} =>
          Oldest(Scanned \cap Heartbeats) \in 0 .. nextId - 1
    BY <2>1, <1>b
  <2>2. victim' \in [Procs -> 0 .. nextId - 1]
    BY <1>2, <2>0 DEF TypeOK, ScanHeartbeats
  <2>3. pc' \in [Procs -> PC]
    BY <1>2 DEF TypeOK, ScanHeartbeats, PC
  <2> QED BY <1>2, <2>2, <2>3 DEF TypeOK, ScanHeartbeats, dbVars, maintVars
<1>3. ASSUME NEW p \in Procs, ScanOldest(p) PROVE TypeOK'
  <2>1. Pending # {} => Oldest(Pending) \in 0 .. nextId - 1
    BY <1>b
  <2>2. victim' \in [Procs -> 0 .. nextId - 1]
    BY <1>3, <2>1 DEF TypeOK, ScanOldest
  <2>3. pc' \in [Procs -> PC]
    BY <1>3 DEF TypeOK, ScanOldest, PC
  <2> QED BY <1>3, <2>2, <2>3 DEF TypeOK, ScanOldest, dbVars, maintVars
<1>4. ASSUME NEW p \in Procs, Evict(p) PROVE TypeOK'
  <2>0. pc' \in [Procs -> PC]
    BY <1>4 DEF TypeOK, Evict, PC
  <2>1. victim' \in [Procs -> 0 .. nextId - 1]
    BY <1>4, <1>a DEF TypeOK, Evict
  <2>2. /\ DOMAIN rows' \subseteq 1 .. nextId - 1
        /\ rows' \in [DOMAIN rows' -> [kind : Kind, status : Status]]
    BY <1>4, <1>a DEF TypeOK, Evict, DeleteRows
  <2>3. evicted' \subseteq 1 .. nextId - 1
    BY <1>4, <1>a DEF TypeOK, Evict
  <2> QED BY <1>4, <2>0, <2>1, <2>2, <2>3 DEF TypeOK, Evict, maintVars
<1>5. ASSUME NEW p \in Procs, InsertRow(p) PROVE TypeOK'
  <2>1. pc' \in [Procs -> PC] /\ arg' \in [Procs -> Kind]
    BY <1>5 DEF TypeOK, InsertRow, PC, Kind
  <2>2. limit' \in [Procs -> Nat]
    BY <1>5 DEF TypeOK, InsertRow, CountInsert
  <2>3. /\ nextId' \in 1 .. MaxRows + 1
        /\ DOMAIN rows' \subseteq 1 .. nextId' - 1
        /\ rows' \in [DOMAIN rows' -> [kind : Kind, status : Status]]
    BY <1>5, <1>a DEF TypeOK, InsertRow, Kind, Status
  <2>4. 1 .. nextId - 1 \subseteq 1 .. nextId' - 1 /\ 0 .. nextId - 1 \subseteq 0 .. nextId' - 1
    BY <1>5, <1>a DEF InsertRow
  <2> QED BY <1>5, <2>1, <2>2, <2>3, <2>4 DEF TypeOK, InsertRow, maintVars
<1>6. ASSUME NEW p \in Procs, InsertAborted(p) PROVE TypeOK'
  <2>1. /\ pc' \in [Procs -> PC] /\ arg' \in [Procs -> Kind]
        /\ limit' \in [Procs -> Nat]
    BY <1>6 DEF TypeOK, InsertAborted, PC, Kind
  <2>2. victim' \in [Procs -> 0 .. nextId - 1]
    BY <1>6, <1>a DEF TypeOK, InsertAborted
  <2> QED BY <1>6, <2>1, <2>2 DEF TypeOK, InsertAborted, dbVars, maintVars
<1>7. ASSUME NEW s \in Senders, GetPending(s) PROVE TypeOK'
  <2>1. reading' \in [Senders -> 0 .. nextId - 1]
    BY <1>7, <1>b DEF TypeOK, GetPending
  <2> QED BY <1>7, <2>1 DEF TypeOK, GetPending, dbVars, insertVars, maintVars
<1>8. ASSUME NEW s \in Senders, MarkAsSent(s) PROVE TypeOK'
  BY <1>8, <1>a DEF TypeOK, MarkAsSent, SetStatus, Status, insertVars, maintVars
<1>9. ASSUME NEW s \in Senders, GiveUp(s) PROVE TypeOK'
  BY <1>9, <1>a DEF TypeOK, GiveUp, dbVars, insertVars, maintVars
<1>10. CASE Maintain
  <2>1. CASE CleanupSelect
    BY <2>1, <1>a DEF TypeOK, CleanupSelect, dbVars, insertVars
  <2>2. CASE CleanupUpdate
    BY <2>2, <1>a DEF TypeOK, CleanupUpdate, SetStatus, Status, insertVars
  <2>3. CASE PurgeSelect
    BY <2>3, <1>a DEF TypeOK, PurgeSelect, Heartbeats, dbVars, insertVars
  <2>4. CASE PurgeDelete
    BY <2>4, <1>a DEF TypeOK, PurgeDelete, DeleteRows, insertVars
  <2> QED BY <1>10, <2>1, <2>2, <2>3, <2>4 DEF Maintain
<1>11. CASE UNCHANGED vars
  BY <1>11 DEF TypeOK, vars
<1> QED BY <1>1, <1>2, <1>3, <1>4, <1>5, <1>6, <1>7, <1>8, <1>9, <1>10, <1>11
        DEF Next, Insert, Send

(* The empty table has the right types.                                    *)
LEMMA TypeInit == Init => TypeOK
BY ConstantsAssumption DEF Init, TypeOK, PC, Kind, Status

(* The table, the processes and the senders always hold values of their    *)
(* type (payload_manager.py, database_handler.py).                         *)
THEOREM TypeCorrect == Spec => []TypeOK
<1>1. Init => TypeOK
  BY TypeInit
<1>2. TypeOK /\ [Next]_vars => TypeOK'
  BY TypeStep
<1> QED BY <1>1, <1>2, PTL DEF Spec
-----------------------------------------------------------------------------
(* No step makes a row pending but the insert of a new one, and none       *)
(* changes the kind of a row.                                              *)
RowsOnlyLeave ==
    /\ \A i \in Pending' : i \in Pending \/ i = nextId
    /\ \A i \in DOMAIN rows' : i \in DOMAIN rows \/ i = nextId
    /\ \A i \in DOMAIN rows' : i # nextId => rows'[i].kind = rows[i].kind

(* DELETE by id takes the rows away and makes none pending.                *)
LEMMA DeleteLeaves ==
  ASSUME TypeOK, NEW S, DeleteRows(S)
  PROVE  RowsOnlyLeave /\ Pending' = Pending \ S
<1>1. rows' = [i \in DOMAIN rows \ S |-> rows[i]]
  BY DEF DeleteRows
<1>2. DOMAIN rows' = DOMAIN rows \ S
  BY <1>1
<1>3. \A i \in DOMAIN rows' : rows'[i] = rows[i]
  BY <1>1, <1>2
<1> QED BY <1>2, <1>3 DEF RowsOnlyLeave, Pending

(* UPDATE to sent or expired takes rows out of the queue for good.         *)
LEMMA SetStatusLeaves ==
  ASSUME TypeOK, NEW S, NEW s \in Status \ {"pending"}, SetStatus(S, s)
  PROVE  RowsOnlyLeave /\ Pending' = Pending \ S
<1>1. DOMAIN rows' = DOMAIN rows
  BY DEF SetStatus
<1>2. \A i \in DOMAIN rows :
        /\ rows'[i].kind = rows[i].kind
        /\ rows'[i].status = IF i \in S THEN s ELSE rows[i].status
  BY DEF SetStatus, TypeOK
<1> QED BY <1>1, <1>2 DEF RowsOnlyLeave, Pending

(* A step that does not write the table leaves the queue as it is.         *)
LEMMA SameLeaves ==
  ASSUME UNCHANGED rows
  PROVE  RowsOnlyLeave /\ Pending' = Pending
BY DEF RowsOnlyLeave, Pending

(* INSERT adds one pending row, younger than all others.                   *)
LEMMA InsertAdds ==
  ASSUME TypeOK, NEW p \in Procs, InsertRow(p)
  PROVE  /\ RowsOnlyLeave
         /\ Pending' = Pending \cup {nextId}
         /\ rows'[nextId] = [kind |-> arg[p], status |-> "pending"]
<1>1. nextId \notin DOMAIN rows
  BY ConstantsAssumption DEF TypeOK
<1>2. DOMAIN rows' = DOMAIN rows \cup {nextId}
  BY DEF InsertRow
<1>3. /\ rows'[nextId] = [kind |-> arg[p], status |-> "pending"]
      /\ \A i \in DOMAIN rows : rows'[i] = rows[i]
  BY <1>1 DEF InsertRow
<1> QED BY <1>1, <1>2, <1>3 DEF RowsOnlyLeave, Pending

(* No step makes an old row pending again or changes its kind.             *)
LEMMA StepLeaves ==
  ASSUME TypeOK, [Next]_vars
  PROVE  RowsOnlyLeave
<1>1. ASSUME NEW p \in Procs, Insert(p) PROVE RowsOnlyLeave
  <2>1. CASE \E k \in Kind : InsertBegin(p, k)
    BY <2>1, SameLeaves DEF InsertBegin, dbVars
  <2>2. CASE ScanHeartbeats(p)
    BY <2>2, SameLeaves DEF ScanHeartbeats, dbVars
  <2>3. CASE ScanOldest(p)
    BY <2>3, SameLeaves DEF ScanOldest, dbVars
  <2>4. CASE Evict(p)
    BY <2>4, DeleteLeaves DEF Evict
  <2>5. CASE InsertRow(p)
    BY <2>5, InsertAdds
  <2>6. CASE InsertAborted(p)
    BY <2>6, SameLeaves DEF InsertAborted, dbVars
  <2> QED BY <1>1, <2>1, <2>2, <2>3, <2>4, <2>5, <2>6 DEF Insert
<1>2. ASSUME NEW s \in Senders, Send(s) PROVE RowsOnlyLeave
  <2>1. CASE GetPending(s)
    BY <2>1, SameLeaves DEF GetPending, dbVars
  <2>2. CASE MarkAsSent(s)
    BY <2>2, SetStatusLeaves DEF MarkAsSent, Status
  <2>3. CASE GiveUp(s)
    BY <2>3, SameLeaves DEF GiveUp, dbVars
  <2> QED BY <1>2, <2>1, <2>2, <2>3 DEF Send
<1>3. CASE Maintain
  <2>1. CASE CleanupSelect
    BY <2>1, SameLeaves DEF CleanupSelect, dbVars
  <2>2. CASE CleanupUpdate
    BY <2>2, SetStatusLeaves DEF CleanupUpdate, Status
  <2>3. CASE PurgeSelect
    BY <2>3, SameLeaves DEF PurgeSelect, dbVars
  <2>4. CASE PurgeDelete
    BY <2>4, DeleteLeaves DEF PurgeDelete
  <2> QED BY <1>3, <2>1, <2>2, <2>3, <2>4 DEF Maintain
<1>4. CASE UNCHANGED vars
  BY <1>4, SameLeaves DEF dbVars, vars
<1> QED BY <1>1, <1>2, <1>3, <1>4 DEF Next
-----------------------------------------------------------------------------
(* A process that is about to delete either was so already, with the same  *)
(* victim, or has just chosen it.                                          *)
LEMMA StepVictims ==
  ASSUME TypeOK, [Next]_vars, NEW p \in Procs, pc'[p] \in Deleting
  PROVE  \/ pc'[p] = pc[p] /\ victim'[p] = victim[p]
         \/ /\ ScanHeartbeats(p) /\ pc'[p] = "delete heartbeat"
            /\ victim'[p] = Oldest(Scanned \cap Heartbeats)
            /\ Scanned \cap Heartbeats # {}
         \/ /\ ScanOldest(p) /\ pc'[p] = "delete oldest"
            /\ victim'[p] = Oldest(Pending)
            /\ Pending # {}
<1> DEFINE Kept == pc'[p] = pc[p] /\ victim'[p] = victim[p]
<1> USE DEF TypeOK, Deleting
<1>1. ASSUME NEW q \in Procs, NEW k \in Kind, InsertBegin(q, k) PROVE Kept
  BY <1>1 DEF InsertBegin
<1>2. ASSUME NEW q \in Procs, ScanHeartbeats(q)
      PROVE  \/ Kept
             \/ /\ ScanHeartbeats(p) /\ pc'[p] = "delete heartbeat"
                /\ victim'[p] = Oldest(Scanned \cap Heartbeats)
                /\ Scanned \cap Heartbeats # {}
  <2>1. CASE q = p
    BY <1>2, <2>1 DEF ScanHeartbeats
  <2>2. CASE q # p
    BY <1>2, <2>2 DEF ScanHeartbeats
  <2> QED BY <2>1, <2>2
<1>3. ASSUME NEW q \in Procs, ScanOldest(q)
      PROVE  \/ Kept
             \/ /\ ScanOldest(p) /\ pc'[p] = "delete oldest"
                /\ victim'[p] = Oldest(Pending)
                /\ Pending # {}
  <2>1. CASE q = p
    BY <1>3, <2>1 DEF ScanOldest
  <2>2. CASE q # p
    BY <1>3, <2>2 DEF ScanOldest
  <2> QED BY <2>1, <2>2
<1>4. ASSUME NEW q \in Procs, Evict(q) \/ InsertRow(q) \/ InsertAborted(q) PROVE Kept
  BY <1>4 DEF Evict, InsertRow, InsertAborted
<1>5. ASSUME NEW s \in Senders, Send(s) PROVE Kept
  BY <1>5 DEF Send, GetPending, MarkAsSent, GiveUp, insertVars
<1>6. CASE Maintain
  BY <1>6 DEF Maintain, CleanupSelect, CleanupUpdate, PurgeSelect, PurgeDelete, insertVars
<1>7. CASE UNCHANGED vars
  BY <1>7 DEF insertVars, vars
<1> QED BY <1>1, <1>2, <1>3, <1>4, <1>5, <1>6, <1>7 DEF Next, Insert

(* A scanned row that stays pending stays among the oldest.                *)
LEMMA ScannedStays ==
  ASSUME TypeOK, RowsOnlyLeave, NEW v \in Scanned, v \in Pending'
  PROVE  v \in Scanned'
<1> DEFINE Below == {j \in Pending : j < v}
           After == {j \in Pending' : j < v}
<1>1. v \in Pending /\ v \in Nat /\ v < nextId /\ nextId \in Nat
  BY PendingRange DEF Scanned
<1>2. After \subseteq Below
  <2> SUFFICES ASSUME NEW j \in Pending', j < v PROVE j \in Pending
    OBVIOUS
  <2>1. j \in Pending \/ j = nextId
    BY DEF RowsOnlyLeave
  <2> QED BY <1>1, <2>1
<1>3. IsFiniteSet(Below)
  BY PendingRange, FS_Subset
<1>4. /\ Cardinality(After) <= Cardinality(Below)
      /\ Cardinality(After) \in Nat
      /\ Cardinality(Below) \in Nat
  BY <1>2, <1>3, FS_Subset, FS_CardinalityType
<1>5. Cardinality(Below) < ScanLimit
  BY DEF Scanned
<1>6. Cardinality(After) < ScanLimit
  BY <1>4, <1>5, ConstantsAssumption
<1> QED BY <1>6 DEF Scanned

(* What a sender reads it read before, or it has just taken the head.      *)
LEMMA StepReading ==
  ASSUME TypeOK, [Next]_vars, NEW s \in Senders
  PROVE  \/ reading'[s] = reading[s]
         \/ reading'[s] = 0
         \/ /\ reading'[s] = Oldest(Pending)
            /\ Pending # {}
            /\ UNCHANGED rows
<1> USE DEF TypeOK
<1>1. ASSUME NEW q \in Procs, Insert(q) PROVE UNCHANGED reading
  BY <1>1 DEF Insert, InsertBegin, ScanHeartbeats, ScanOldest, Evict, InsertRow,
              InsertAborted
<1>2. ASSUME NEW t \in Senders, GetPending(t)
      PROVE  \/ reading'[s] = reading[s]
             \/ reading'[s] = Oldest(Pending) /\ Pending # {} /\ UNCHANGED rows
  BY <1>2 DEF GetPending, dbVars
<1>3. ASSUME NEW t \in Senders, MarkAsSent(t) \/ GiveUp(t)
      PROVE  reading'[s] = reading[s] \/ reading'[s] = 0
  BY <1>3 DEF MarkAsSent, GiveUp
<1>4. CASE Maintain \/ UNCHANGED vars
  BY <1>4 DEF Maintain, CleanupSelect, CleanupUpdate, PurgeSelect, PurgeDelete, vars
<1> QED BY <1>1, <1>2, <1>3, <1>4 DEF Next, Send

(* What a restart has selected it had selected before, or it selects now.  *)
LEMMA StepSelected ==
  ASSUME [Next]_vars
  PROVE  /\ \/ stale' \subseteq stale
            \/ UNCHANGED rows /\ stale' = {i \in Pending : ~ IsZoneEvent(rows[i])}
         /\ \/ purge' \subseteq purge
            \/ UNCHANGED rows /\ purge' = Heartbeats
<1>1. ASSUME NEW q \in Procs, Insert(q) PROVE UNCHANGED maintVars
  BY <1>1 DEF Insert, InsertBegin, ScanHeartbeats, ScanOldest, Evict, InsertRow,
              InsertAborted
<1>2. ASSUME NEW t \in Senders, Send(t) PROVE UNCHANGED maintVars
  BY <1>2 DEF Send, GetPending, MarkAsSent, GiveUp
<1>3. CASE Maintain
  BY <1>3 DEF Maintain, CleanupSelect, CleanupUpdate, PurgeSelect, PurgeDelete, dbVars
<1>4. CASE UNCHANGED vars
  BY <1>4 DEF vars, maintVars
<1> QED BY <1>1, <1>2, <1>3, <1>4 DEF Next, maintVars

(* A victim stays the oldest of its class until it is deleted: the rows    *)
(* that may join are younger.                                              *)
LEMMA VictimsStep == OrderInv /\ [Next]_vars => VictimsOldest'
<1> SUFFICES ASSUME OrderInv, [Next]_vars, NEW p \in Procs,
                    pc'[p] \in Deleting, victim'[p] \in Pending'
             PROVE  /\ pc'[p] = "delete heartbeat" =>
                          /\ victim'[p] \in (Scanned \cap Heartbeats)'
                          /\ \A j \in Heartbeats' : victim'[p] <= j
                    /\ pc'[p] = "delete oldest" => \A j \in Pending' : victim'[p] <= j
  BY DEF VictimsOldest, Deleting
<1>a. TypeOK /\ RowsOnlyLeave
  BY StepLeaves DEF OrderInv
<1>b. nextId \in Nat /\ Pending \subseteq Nat /\ \A i \in Pending : i < nextId
  BY <1>a, PendingRange
<1>c. Heartbeats' \subseteq Heartbeats \cup {nextId}
  BY <1>a DEF RowsOnlyLeave, Heartbeats, IsHeartbeat, Pending
<1>1. CASE pc'[p] = pc[p] /\ victim'[p] = victim[p]
  <2>1. victim[p] \in 0 .. nextId - 1
    BY <1>a DEF TypeOK
  <2>2. victim[p] < nextId /\ victim[p] \in Nat
    BY <2>1, <1>b
  <2>3. victim[p] \in Pending
    BY <1>1, <2>2, <1>a, <1>b DEF RowsOnlyLeave
  <2>4. CASE pc[p] = "delete oldest"
    <3>0. \A j \in Pending : victim[p] <= j
      BY <2>3, <2>4 DEF VictimsOldest, OrderInv
    <3>1. ASSUME NEW j \in Pending' PROVE victim[p] <= j
      <4>1. j \in Pending \/ j = nextId
        BY <1>a DEF RowsOnlyLeave
      <4>2. victim[p] <= nextId
        BY <2>2, <1>b
      <4> QED BY <4>1, <4>2, <3>0
    <3> QED BY <3>1, <1>1, <2>4
  <2>5. CASE pc[p] = "delete heartbeat"
    <3>0. /\ victim[p] \in Scanned /\ victim[p] \in Heartbeats
          /\ \A j \in Heartbeats : victim[p] <= j
      BY <2>3, <2>5 DEF VictimsOldest, OrderInv
    <3>1. victim'[p] \in Heartbeats'
      BY <3>0, <1>1, <2>2, <1>a, <1>b DEF RowsOnlyLeave, Heartbeats, IsHeartbeat, Pending
    <3>2. \A j \in Heartbeats' : victim'[p] <= j
      BY <3>0, <1>1, <2>2, <1>b, <1>c
    <3>3. victim'[p] \in Scanned'
      BY <3>0, <1>1, <1>a, ScannedStays
    <3> QED BY <3>1, <3>2, <3>3, <1>1, <2>5
  <2> QED BY <2>4, <2>5, <1>1 DEF Deleting
<1>2. CASE /\ ScanHeartbeats(p) /\ pc'[p] = "delete heartbeat"
           /\ victim'[p] = Oldest(Scanned \cap Heartbeats)
           /\ Scanned \cap Heartbeats # {}
  <2> DEFINE v == Oldest(Scanned \cap Heartbeats)
  <2>1. /\ v \in Scanned \cap Heartbeats
        /\ \A j \in Scanned \cap Heartbeats : v <= j
    BY <1>2, <1>a, PendingRange, OldestIsMin
  <2>2. \A j \in Heartbeats : v <= j
    <3> SUFFICES ASSUME NEW j \in Heartbeats, ~ (v <= j) PROVE FALSE
      OBVIOUS
    <3>1. j \in Nat /\ v \in Nat
      BY <2>1, <1>a, PendingRange
    <3>2. j < v
      BY <3>1
    <3>3. j \in Scanned
      BY <2>1, <3>2, <1>a, ScanFindsOldest
    <3> QED BY <3>3, <2>1
  <2>3. UNCHANGED rows
    BY <1>2 DEF ScanHeartbeats, dbVars
  <2>4. Heartbeats' = Heartbeats /\ Scanned' = Scanned
    BY <2>3 DEF Heartbeats, Pending, Scanned
  <2> QED BY <2>1, <2>2, <2>4, <1>2
<1>3. CASE /\ ScanOldest(p) /\ pc'[p] = "delete oldest"
           /\ victim'[p] = Oldest(Pending)
           /\ Pending # {}
  <2>1. \A j \in Pending : Oldest(Pending) <= j
    BY <1>3, <1>b, OldestIsMin
  <2>2. Pending' = Pending
    BY <1>3, SameLeaves DEF ScanOldest, dbVars
  <2> QED BY <1>3, <2>1, <2>2
<1> QED BY <1>1, <1>2, <1>3, <1>a, StepVictims

(* The row a sender reads stays the head of the queue while it is pending. *)
LEMMA ReadingStep == OrderInv /\ [Next]_vars => ReadingHead'
<1> SUFFICES ASSUME OrderInv, [Next]_vars, NEW s \in Senders,
                    reading'[s] \in Pending', NEW j \in Pending'
             PROVE  reading'[s] <= j
  BY DEF ReadingHead
<1>a. TypeOK /\ RowsOnlyLeave
  BY StepLeaves DEF OrderInv
<1>b. nextId \in Nat /\ Pending \subseteq Nat /\ \A i \in Pending : i < nextId
  BY <1>a, PendingRange
<1>c. j \in Pending \/ j = nextId
  BY <1>a DEF RowsOnlyLeave
<1>1. CASE reading'[s] = reading[s]
  <2>1. reading[s] \in 0 .. nextId - 1
    BY <1>a DEF TypeOK
  <2>2. reading[s] \in Nat /\ reading[s] < nextId
    BY <2>1, <1>b
  <2>3. reading[s] \in Pending
    BY <1>1, <2>2, <1>a, <1>b DEF RowsOnlyLeave
  <2>4. CASE j \in Pending
    BY <1>1, <2>3, <2>4 DEF ReadingHead, OrderInv
  <2>5. CASE j = nextId
    BY <1>1, <2>2, <2>5, <1>b
  <2> QED BY <1>c, <2>4, <2>5
<1>2. CASE reading'[s] = 0
  <2>1. j \in Nat
    BY <1>b, <1>c
  <2> QED BY <1>2, <2>1
<1>3. CASE reading'[s] = Oldest(Pending) /\ Pending # {} /\ UNCHANGED rows
  <2>1. \A i \in Pending : Oldest(Pending) <= i
    BY <1>3, <1>b, OldestIsMin
  <2>2. Pending' = Pending
    BY <1>3, SameLeaves
  <2> QED BY <1>3, <2>1, <2>2
<1> QED BY <1>1, <1>2, <1>3, <1>a, StepReading

(* What a restart has selected stays of the kind it selected.              *)
LEMMA StaleStep == OrderInv /\ [Next]_vars => StaleKinds'
<1> SUFFICES ASSUME OrderInv, [Next]_vars PROVE StaleKinds'
  OBVIOUS
<1>a. TypeOK /\ RowsOnlyLeave /\ StaleKinds
  BY StepLeaves DEF OrderInv
<1>b. /\ nextId \in Nat
      /\ stale \subseteq 1 .. nextId - 1
      /\ purge \subseteq 1 .. nextId - 1
      /\ nextId \notin stale \cup purge
  BY <1>a, PendingRange DEF TypeOK
<1>1. \A i \in stale' \cap DOMAIN rows' : ~ IsZoneEvent(rows'[i])
  <2>1. CASE stale' \subseteq stale
    BY <2>1, <1>a, <1>b DEF StaleKinds, RowsOnlyLeave, IsZoneEvent
  <2>2. CASE UNCHANGED rows /\ stale' = {i \in Pending : ~ IsZoneEvent(rows[i])}
    BY <2>2 DEF IsZoneEvent
  <2> QED BY <2>1, <2>2, StepSelected
<1>2. \A i \in purge' \cap DOMAIN rows' : IsHeartbeat(rows'[i])
  <2>1. CASE purge' \subseteq purge
    BY <2>1, <1>a, <1>b DEF StaleKinds, RowsOnlyLeave, IsHeartbeat
  <2>2. CASE UNCHANGED rows /\ purge' = Heartbeats
    BY <2>2 DEF Heartbeats, IsHeartbeat
  <2> QED BY <2>1, <2>2, StepSelected
<1> QED BY <1>1, <1>2 DEF StaleKinds

(* A row that is expired was so, or a boot of the core has selected it. *)
LEMMA StepExpires ==
  ASSUME TypeOK, [Next]_vars, NEW i \in DOMAIN rows', rows'[i].status = "expired"
  PROVE  /\ i \in DOMAIN rows
         /\ rows[i].status = "expired" \/ i \in stale
<1> DEFINE Goal == /\ i \in DOMAIN rows
                   /\ rows[i].status = "expired" \/ i \in stale
<1>1. CASE UNCHANGED rows
  BY <1>1
<1>2. ASSUME NEW S, DeleteRows(S) PROVE Goal
  BY <1>2 DEF DeleteRows
<1>3. ASSUME NEW p \in Procs, InsertRow(p) PROVE Goal
  BY <1>3 DEF InsertRow
<1>4. ASSUME NEW S, SetStatus(S, "sent") PROVE Goal
  BY <1>4 DEF SetStatus, TypeOK
<1>5. ASSUME SetStatus(stale, "expired") PROVE Goal
  BY <1>5 DEF SetStatus, TypeOK
<1>6. ASSUME NEW p \in Procs, Insert(p) PROVE Goal
  BY <1>1, <1>2, <1>3, <1>6
     DEF Insert, InsertBegin, ScanHeartbeats, ScanOldest, Evict, InsertAborted, dbVars
<1>7. ASSUME NEW s \in Senders, Send(s) PROVE Goal
  BY <1>1, <1>4, <1>7 DEF Send, GetPending, MarkAsSent, GiveUp, dbVars
<1>8. CASE Maintain
  BY <1>1, <1>2, <1>5, <1>8
     DEF Maintain, CleanupSelect, CleanupUpdate, PurgeSelect, PurgeDelete, dbVars
<1>9. CASE UNCHANGED vars
  BY <1>1, <1>9 DEF dbVars, vars
<1> QED BY <1>6, <1>7, <1>8, <1>9 DEF Next

(* No step expires a zone event.                                           *)
LEMMA ZoneStep == OrderInv /\ [Next]_vars => ZoneNotExpired'
<1> SUFFICES ASSUME OrderInv, [Next]_vars, NEW i \in DOMAIN rows',
                    IsZoneEvent(rows'[i]), rows'[i].status = "expired"
             PROVE  FALSE
  BY DEF ZoneNotExpired, IsZoneEvent
<1>1. TypeOK /\ RowsOnlyLeave
  BY StepLeaves DEF OrderInv
<1>2. i \in DOMAIN rows /\ (rows[i].status = "expired" \/ i \in stale)
  BY <1>1, StepExpires
<1>3. i # nextId
  BY <1>1, <1>2, ConstantsAssumption DEF TypeOK
<1>4. IsZoneEvent(rows[i])
  BY <1>1, <1>3 DEF RowsOnlyLeave, IsZoneEvent
<1> QED BY <1>2, <1>4 DEF OrderInv, StaleKinds, ZoneNotExpired

(* The empty table satisfies the invariant of the order.                   *)
LEMMA OrderInitially == Init => OrderInv
<1> SUFFICES ASSUME Init PROVE OrderInv
  OBVIOUS
<1>1. TypeOK
  BY TypeInit
<1>2. VictimsOldest /\ ReadingHead /\ StaleKinds /\ ZoneNotExpired
  BY DEF Init, VictimsOldest, ReadingHead, StaleKinds, ZoneNotExpired, Pending
<1> QED BY <1>1, <1>2 DEF OrderInv

(* A process's victim stays the oldest of its class until it is deleted, a *)
(* row being published stays the head until it is marked, and the rows a   *)
(* restart selected stay of a stale kind until they are updated or deleted *)
(* (payload_manager.py, database_handler.py).                              *)
THEOREM OrderKept == Spec => []OrderInv
<1>1. Init => OrderInv
  BY OrderInitially
<1>2. OrderInv /\ [Next]_vars => OrderInv'
  BY TypeStep, VictimsStep, ReadingStep, StaleStep, ZoneStep DEF OrderInv
<1> QED BY <1>1, <1>2, PTL DEF Spec

(* The row whose eviction a process commits is the victim it chose.        *)
LEMMA StepEvicts ==
  ASSUME [Next]_vars, NEW i \in evicted' \ evicted
  PROVE  \E p \in Procs : pc[p] \in Deleting /\ i = victim[p] /\ i \in Pending
<1>1. ASSUME NEW p \in Procs, Evict(p)
      PROVE  pc[p] \in Deleting /\ i = victim[p] /\ i \in Pending
  BY <1>1 DEF Evict
<1>2. ASSUME NEW p \in Procs, NEW k \in Kind, InsertBegin(p, k) PROVE FALSE
  BY <1>2 DEF InsertBegin
<1>3. ASSUME NEW p \in Procs,
             \/ ScanHeartbeats(p) \/ ScanOldest(p) \/ InsertRow(p) \/ InsertAborted(p)
      PROVE  FALSE
  BY <1>3 DEF ScanHeartbeats, ScanOldest, InsertRow, InsertAborted
<1>4. ASSUME NEW s \in Senders, Send(s) PROVE FALSE
  BY <1>4 DEF Send, GetPending, MarkAsSent, GiveUp
<1>5. CASE Maintain \/ UNCHANGED vars
  BY <1>5 DEF Maintain, CleanupSelect, CleanupUpdate, PurgeSelect, PurgeDelete, vars
<1> QED BY <1>1, <1>2, <1>3, <1>4, <1>5 DEF Next, Insert

(* Concurrent inserts evict the oldest heartbeat, or else the oldest row,  *)
(* of the queue as it is when the eviction commits (payload_manager.py,    *)
(* insert_with_cap).                                                       *)
THEOREM EvictsOldestAlways == Spec => EvictsOldest
<1> DEFINE A == \A i \in evicted' \ evicted :
                   LET rivals == IF IsHeartbeat(rows[i]) THEN Heartbeats ELSE Pending
                   IN  \A j \in rivals : i <= j
<1>1. OrderInv /\ [Next]_vars => A
  <2> SUFFICES ASSUME OrderInv, [Next]_vars, NEW i \in evicted' \ evicted,
                      NEW j \in IF IsHeartbeat(rows[i]) THEN Heartbeats ELSE Pending
               PROVE  i <= j
    OBVIOUS
  <2>1. PICK p \in Procs : pc[p] \in Deleting /\ i = victim[p] /\ i \in Pending
    BY StepEvicts
  <2>2. \/ \A k \in Pending : i <= k
        \/ IsHeartbeat(rows[i]) /\ \A k \in Heartbeats : i <= k
    BY <2>1 DEF OrderInv, VictimsOldest, Deleting, Heartbeats
  <2>3. Heartbeats \subseteq Pending
    BY DEF Heartbeats
  <2> QED BY <2>2, <2>3
<1>2. OrderInv /\ [Next]_vars => [A]_vars
  BY <1>1
<1> QED BY <1>2, OrderKept, PTL DEF Spec, EvictsOldest

(* The rows whose status a step turns into sent are the one a sender reads. *)
LEMMA StepSends ==
  ASSUME TypeOK, [Next]_vars, NEW i \in Pending \cap DOMAIN rows', rows'[i].status = "sent"
  PROVE  \E s \in Senders : i = reading[s]
<1> DEFINE Goal == \E s \in Senders : i = reading[s]
<1>0. i \in DOMAIN rows /\ rows[i].status = "pending"
  BY DEF Pending
<1>1. CASE UNCHANGED rows
  BY <1>0, <1>1
<1>2. ASSUME NEW S, DeleteRows(S) PROVE FALSE
  BY <1>0, <1>2 DEF DeleteRows
<1>3. ASSUME NEW p \in Procs, InsertRow(p) PROVE FALSE
  BY <1>0, <1>3 DEF InsertRow
<1>4. ASSUME NEW S, NEW t, SetStatus(S, t) PROVE i \in S /\ t = "sent"
  BY <1>0, <1>4 DEF SetStatus, TypeOK
<1>5. ASSUME NEW p \in Procs, Insert(p) PROVE Goal
  BY <1>1, <1>2, <1>3, <1>5
     DEF Insert, InsertBegin, ScanHeartbeats, ScanOldest, Evict, InsertAborted, dbVars
<1>6. ASSUME NEW s \in Senders, Send(s) PROVE Goal
  BY <1>1, <1>4, <1>6 DEF Send, GetPending, MarkAsSent, GiveUp, dbVars
<1>7. CASE Maintain
  BY <1>1, <1>2, <1>4, <1>7
     DEF Maintain, CleanupSelect, CleanupUpdate, PurgeSelect, PurgeDelete, dbVars
<1>8. CASE UNCHANGED vars
  BY <1>1, <1>8 DEF dbVars, vars
<1> QED BY <1>5, <1>6, <1>7, <1>8 DEF Next

(* However many senders read the queue, a row goes from pending to sent    *)
(* only while it is the oldest pending row (database_handler.py).          *)
THEOREM SentInOrderAlways == Spec => SentInOrder
<1> DEFINE A == \A i \in Pending \cap DOMAIN rows' :
                   rows'[i].status = "sent" => \A j \in Pending : i <= j
<1>1. OrderInv /\ [Next]_vars => A
  <2> SUFFICES ASSUME OrderInv, [Next]_vars, NEW i \in Pending \cap DOMAIN rows',
                      rows'[i].status = "sent", NEW j \in Pending
               PROVE  i <= j
    OBVIOUS
  <2>1. PICK s \in Senders : i = reading[s]
    BY StepSends DEF OrderInv
  <2> QED BY <2>1 DEF OrderInv, ReadingHead
<1>2. OrderInv /\ [Next]_vars => [A]_vars
  BY <1>1
<1> QED BY <1>2, OrderKept, PTL DEF Spec, SentInOrder

(* A row leaves the table because a purge selected it, or as a victim.     *)
LEMMA StepDeletes ==
  ASSUME [Next]_vars, NEW i \in DOMAIN rows \ DOMAIN rows'
  PROVE  i \in purge \/ i \in evicted' \/ i \notin Pending
<1> DEFINE Goal == i \in purge \/ i \in evicted' \/ i \notin Pending
<1>1. ASSUME NEW p \in Procs, Evict(p) PROVE Goal
  BY <1>1 DEF Evict, DeleteRows
<1>2. ASSUME NEW p \in Procs, Insert(p), ~ Evict(p) PROVE Goal
  BY <1>2 DEF Insert, InsertBegin, ScanHeartbeats, ScanOldest, InsertRow, InsertAborted,
              dbVars
<1>3. ASSUME NEW s \in Senders, Send(s) PROVE Goal
  BY <1>3 DEF Send, GetPending, MarkAsSent, GiveUp, SetStatus, dbVars
<1>4. CASE Maintain
  BY <1>4 DEF Maintain, CleanupSelect, CleanupUpdate, PurgeSelect, PurgeDelete,
              SetStatus, DeleteRows, dbVars
<1>5. CASE UNCHANGED vars
  BY <1>5 DEF dbVars, vars
<1> QED BY <1>1, <1>2, <1>3, <1>4, <1>5 DEF Next

(* No restart expires or purges a zone event, whatever happened to the     *)
(* table between its SELECT and its UPDATE or DELETE (startup_cleanup,     *)
(* startup_purge).                                                         *)
THEOREM ZoneEventsAlwaysSurvive == Spec => ZoneEventsSurviveRestarts
<1> DEFINE A == \A i \in DOMAIN rows :
                   IsZoneEvent(rows[i]) =>
                      IF i \in DOMAIN rows'
                      THEN rows'[i].status # "expired"
                      ELSE i \in evicted' \/ rows[i].status = "sent"
<1>1. OrderInv /\ [Next]_vars => A
  <2> SUFFICES ASSUME OrderInv, [Next]_vars, NEW i \in DOMAIN rows, IsZoneEvent(rows[i])
               PROVE  IF i \in DOMAIN rows'
                      THEN rows'[i].status # "expired"
                      ELSE i \in evicted' \/ rows[i].status = "sent"
    OBVIOUS
  <2>1. CASE i \in DOMAIN rows'
    <3>1. i \notin stale /\ rows[i].status # "expired"
      BY DEF OrderInv, StaleKinds, ZoneNotExpired
    <3> QED BY <2>1, <3>1, StepExpires DEF OrderInv
  <2>2. CASE i \notin DOMAIN rows'
    <3>1. i \notin purge
      BY DEF OrderInv, StaleKinds, IsZoneEvent, IsHeartbeat
    <3>2. rows[i].status \in Status /\ rows[i].status # "expired"
      BY DEF OrderInv, TypeOK, ZoneNotExpired
    <3> QED BY <2>2, <3>1, <3>2, StepDeletes DEF Pending, Status
  <2> QED BY <2>1, <2>2
<1>2. OrderInv /\ [Next]_vars => [A]_vars
  BY <1>1
<1> QED BY <1>2, OrderKept, PTL DEF Spec, ZoneEventsSurviveRestarts
-----------------------------------------------------------------------------
(* The room to insert, and the cap.                                        *)

(* Only InsertRow makes a row pending.                                     *)
LEMMA StepPending ==
  ASSUME TypeOK, [Next]_vars, \A p \in Procs : ~ InsertRow(p)
  PROVE  Pending' \subseteq Pending
<1>1. ASSUME NEW p \in Procs, Insert(p) PROVE Pending' \subseteq Pending
  <2>1. CASE Evict(p)
    BY <2>1, DeleteLeaves DEF Evict
  <2>2. CASE ~ Evict(p)
    BY <1>1, <2>2, SameLeaves
       DEF Insert, InsertBegin, ScanHeartbeats, ScanOldest, InsertAborted, dbVars
  <2> QED BY <2>1, <2>2
<1>2. ASSUME NEW s \in Senders, Send(s) PROVE Pending' \subseteq Pending
  BY <1>2, SameLeaves, SetStatusLeaves DEF Send, GetPending, MarkAsSent, GiveUp, Status, dbVars
<1>3. CASE Maintain
  <2>1. CASE CleanupSelect \/ PurgeSelect
    BY <2>1, SameLeaves DEF CleanupSelect, PurgeSelect, dbVars
  <2>2. CASE CleanupUpdate
    BY <2>2, SetStatusLeaves DEF CleanupUpdate, Status
  <2>3. CASE PurgeDelete
    BY <2>3, DeleteLeaves DEF PurgeDelete
  <2> QED BY <1>3, <2>1, <2>2, <2>3 DEF Maintain
<1>4. CASE UNCHANGED vars
  BY <1>4, SameLeaves DEF dbVars, vars
<1> QED BY <1>1, <1>2, <1>3, <1>4 DEF Next

(* When rows leave the queue, neither it nor any part of it grows.         *)
LEMMA FewerPending ==
  ASSUME TypeOK, Pending' \subseteq Pending
  PROVE  /\ Cardinality(Pending') \in Nat
         /\ Cardinality(Pending') <= Cardinality(Pending)
         /\ \A v : /\ Cardinality(Pending' \ {v}) \in Nat
                   /\ Cardinality(Pending \ {v}) \in Nat
                   /\ Cardinality(Pending' \ {v}) <= Cardinality(Pending \ {v})
<1>1. IsFiniteSet(Pending) /\ IsFiniteSet(Pending')
  BY PendingRange, FS_Subset
<1>2. ASSUME NEW v
      PROVE  /\ IsFiniteSet(Pending \ {v})
             /\ IsFiniteSet(Pending' \ {v})
             /\ Pending' \ {v} \subseteq Pending \ {v}
  BY <1>1, FS_Subset
<1> QED BY <1>1, <1>2, FS_Subset, FS_CardinalityType

(* What RoomForInsert says of one process. *)
RoomOf(p) ==
    /\ pc[p] = "idle" <=> limit[p] = 0
    /\ pc[p] # "idle" => limit[p] >= MAX_PENDING
    /\ pc[p] \in {"scan", "oldest"} => Cardinality(Pending) <= limit[p]
    /\ pc[p] \in Deleting => Cardinality(Pending \ {victim[p]}) < limit[p]
    /\ pc[p] = "insert" => Cardinality(Pending) < limit[p]

(* Who does nothing keeps its room when rows leave the queue.              *)
LEMMA RoomStays ==
  ASSUME TypeOK, RoomForInsert, Pending' \subseteq Pending, NEW q \in Procs,
         pc'[q] = pc[q], victim'[q] = victim[q], limit'[q] = limit[q]
  PROVE  RoomOf(q)'
<1>0. PICK v : v = victim[q]
  OBVIOUS
<1>1. RoomOf(q) /\ limit[q] \in Nat
  BY DEF RoomForInsert, RoomOf, TypeOK
<1>2. /\ Cardinality(Pending) \in Nat
      /\ Cardinality(Pending') \in Nat
      /\ Cardinality(Pending') <= Cardinality(Pending)
  BY PendingRange, FewerPending
<1>3. /\ Cardinality(Pending' \ {v}) \in Nat
      /\ Cardinality(Pending \ {v}) \in Nat
      /\ Cardinality(Pending' \ {v}) <= Cardinality(Pending \ {v})
  BY FewerPending
<1>4. /\ Cardinality(Pending' \ {victim'[q]}) \in Nat
      /\ Cardinality(Pending \ {victim[q]}) \in Nat
      /\ Cardinality(Pending' \ {victim'[q]}) <= Cardinality(Pending \ {victim[q]})
  BY <1>0, <1>3
<1> QED BY <1>1, <1>2, <1>4, ConstantsAssumption DEF RoomOf

(* And when a row joins the queue, its limit grows with it.                *)
LEMMA RoomGrows ==
  ASSUME TypeOK, RoomForInsert, Pending' = Pending \cup {nextId}, NEW q \in Procs,
         pc'[q] = pc[q], victim'[q] = victim[q],
         limit'[q] = IF limit[q] = 0 THEN 0 ELSE limit[q] + 1
  PROVE  RoomOf(q)'
<1>1. RoomOf(q) /\ limit[q] \in Nat /\ victim[q] \in 0 .. nextId - 1
  BY DEF RoomForInsert, RoomOf, TypeOK
<1>2. /\ IsFiniteSet(Pending) /\ nextId \notin Pending /\ nextId \in Nat
      /\ Cardinality(Pending) \in Nat
  BY PendingRange
<1>3. Cardinality(Pending') = Cardinality(Pending) + 1
  BY <1>2, FS_AddElement
<1>4. IsFiniteSet(Pending \ {victim[q]}) /\ Cardinality(Pending \ {victim[q]}) \in Nat
  BY <1>2, FS_Subset, FS_CardinalityType
<1>5. Pending' \ {victim[q]} = (Pending \ {victim[q]}) \cup {nextId}
  BY <1>1, <1>2
<1>6. Cardinality(Pending' \ {victim'[q]}) = Cardinality(Pending \ {victim[q]}) + 1
  <2>1. nextId \notin Pending \ {victim[q]}
    BY <1>2
  <2>2. Cardinality((Pending \ {victim[q]}) \cup {nextId}) =
            Cardinality(Pending \ {victim[q]}) + 1
    BY <1>4, <2>1, FS_AddElement
  <2> QED BY <1>5, <2>2
<1> QED BY <1>1, <1>2, <1>3, <1>4, <1>6, ConstantsAssumption DEF RoomOf

(* It is enough to look at the process that acts.                          *)
LEMMA RoomOfActor ==
  ASSUME TypeOK, RoomForInsert, Pending' \subseteq Pending, NEW p \in Procs, RoomOf(p)',
         \A q \in Procs \ {p} :
            pc'[q] = pc[q] /\ victim'[q] = victim[q] /\ limit'[q] = limit[q]
  PROVE  RoomForInsert'
<1>1. ASSUME NEW q \in Procs PROVE RoomOf(q)'
  BY RoomStays
<1> QED BY <1>1 DEF RoomForInsert, RoomOf

(* The room that a process has counted, or made, is there when it inserts. *)
LEMMA RoomStep == TypeOK /\ RoomForInsert /\ [Next]_vars => RoomForInsert'
<1> SUFFICES ASSUME TypeOK, RoomForInsert, [Next]_vars PROVE RoomForInsert'
  OBVIOUS
<1>a. /\ MAX_PENDING \in Nat \ {0}
      /\ Cardinality(Pending) \in Nat
      /\ IsFiniteSet(Pending)
      /\ \A p \in Procs : limit[p] \in Nat
  BY PendingRange, ConstantsAssumption DEF TypeOK
<1>b. \A p \in Procs : RoomOf(p)
  BY DEF RoomForInsert, RoomOf
<1>c. ASSUME NEW v \in Pending
      PROVE  Cardinality(Pending \ {v}) = Cardinality(Pending) - 1
  BY <1>a, FS_RemoveElement
<1>1. ASSUME NEW p \in Procs, NEW k \in Kind, InsertBegin(p, k) PROVE RoomForInsert'
  <2>1. Pending' = Pending
    BY <1>1, SameLeaves DEF InsertBegin, dbVars
  <2>2. RoomOf(p)'
    BY <1>1, <1>a, <2>1 DEF InsertBegin, RoomOf, TypeOK, Deleting
  <2> QED BY <1>1, <2>1, <2>2, RoomOfActor DEF InsertBegin, TypeOK
<1>2. ASSUME NEW p \in Procs, ScanHeartbeats(p) PROVE RoomForInsert'
  <2>1. Pending' = Pending
    BY <1>2, SameLeaves DEF ScanHeartbeats, dbVars
  <2>2. pc[p] = "scan" /\ limit'[p] = limit[p] /\ Cardinality(Pending) <= limit[p]
                      /\ limit[p] >= MAX_PENDING
    BY <1>2, <1>b DEF ScanHeartbeats, RoomOf
  <2>3. ASSUME Scanned \cap Heartbeats # {} PROVE RoomOf(p)'
    <3>1. pc'[p] = "delete heartbeat" /\ victim'[p] \in Pending
      BY <1>2, <2>3, PendingRange, OldestIsMin DEF ScanHeartbeats, TypeOK
    <3>2. Cardinality(Pending \ {victim'[p]}) < limit[p]
      <4>1. Cardinality(Pending \ {victim'[p]}) = Cardinality(Pending) - 1
        BY <3>1, <1>c
      <4> QED BY <4>1, <2>2, <1>a
    <3>3. Cardinality(Pending' \ {victim'[p]}) < limit'[p]
      BY <2>1, <2>2, <3>2
    <3>4. limit'[p] # 0 /\ limit'[p] >= MAX_PENDING
      BY <2>2, <1>a
    <3> QED BY <3>1, <3>3, <3>4 DEF RoomOf, Deleting
  <2>4. ASSUME Scanned \cap Heartbeats = {} PROVE RoomOf(p)'
    <3>1. pc'[p] = "oldest"
      BY <1>2, <2>4 DEF ScanHeartbeats, TypeOK
    <3>2. limit'[p] # 0 /\ limit'[p] >= MAX_PENDING
      BY <2>2, <1>a
    <3>3. Cardinality(Pending') <= limit'[p]
      BY <2>1, <2>2
    <3> QED BY <3>1, <3>2, <3>3 DEF RoomOf, Deleting
  <2>5. RoomOf(p)'
    BY <2>3, <2>4
  <2> QED BY <1>2, <2>1, <2>5, RoomOfActor DEF ScanHeartbeats, TypeOK
<1>3. ASSUME NEW p \in Procs, ScanOldest(p) PROVE RoomForInsert'
  <2>1. Pending' = Pending
    BY <1>3, SameLeaves DEF ScanOldest, dbVars
  <2>2. pc[p] = "oldest" /\ limit'[p] = limit[p] /\ Cardinality(Pending) <= limit[p]
                        /\ limit[p] >= MAX_PENDING
    BY <1>3, <1>b DEF ScanOldest, RoomOf
  <2>3. ASSUME Pending # {} PROVE RoomOf(p)'
    <3>1. pc'[p] = "delete oldest" /\ victim'[p] \in Pending
      BY <1>3, <2>3, PendingRange, OldestIsMin DEF ScanOldest, TypeOK
    <3>2. Cardinality(Pending \ {victim'[p]}) < limit[p]
      <4>1. Cardinality(Pending \ {victim'[p]}) = Cardinality(Pending) - 1
        BY <3>1, <1>c
      <4> QED BY <4>1, <2>2, <1>a
    <3>3. Cardinality(Pending' \ {victim'[p]}) < limit'[p]
      BY <2>1, <2>2, <3>2
    <3>4. limit'[p] # 0 /\ limit'[p] >= MAX_PENDING
      BY <2>2, <1>a
    <3> QED BY <3>1, <3>3, <3>4 DEF RoomOf, Deleting
  <2>4. ASSUME Pending = {} PROVE RoomOf(p)'
    <3>1. pc'[p] = "insert" /\ Cardinality(Pending) = 0
      BY <1>3, <2>4, FS_EmptySet DEF ScanOldest, TypeOK
    <3>2. limit'[p] # 0 /\ limit'[p] >= MAX_PENDING
      BY <2>2, <1>a
    <3>3. Cardinality(Pending') < limit'[p]
      BY <2>1, <2>2, <3>1, <1>a
    <3> QED BY <2>4, <3>1, <3>2, <3>3 DEF RoomOf, Deleting
  <2>5. RoomOf(p)'
    BY <2>3, <2>4
  <2> QED BY <1>3, <2>1, <2>5, RoomOfActor DEF ScanOldest, TypeOK
<1>4. ASSUME NEW p \in Procs, Evict(p) PROVE RoomForInsert'
  <2>1. Pending' = Pending \ {victim[p]}
    BY <1>4, DeleteLeaves DEF Evict
  <2>2. pc'[p] = "insert" /\ limit'[p] = limit[p]
    BY <1>4 DEF Evict, TypeOK
  <2>3. Cardinality(Pending') < limit[p] /\ limit[p] >= MAX_PENDING
    BY <1>4, <1>b, <2>1 DEF Evict, RoomOf, Deleting
  <2>4. RoomOf(p)'
    BY <2>2, <2>3, <1>a DEF RoomOf, Deleting
  <2> QED BY <1>4, <2>1, <2>4, RoomOfActor DEF Evict, TypeOK
<1>5. ASSUME NEW p \in Procs, InsertRow(p) PROVE RoomForInsert'
  <2>1. Pending' = Pending \cup {nextId}
    BY <1>5, InsertAdds
  <2>2. pc'[p] = "idle" /\ limit'[p] = 0
    BY <1>5 DEF InsertRow, CountInsert, TypeOK
  <2>3. RoomOf(p)'
    BY <2>2 DEF RoomOf, Deleting
  <2>4. ASSUME NEW q \in Procs, q # p PROVE RoomOf(q)'
    BY <1>5, <2>1, <2>4, RoomGrows DEF InsertRow, CountInsert, TypeOK
  <2>5. \A q \in Procs : RoomOf(q)'
    BY <2>3, <2>4
  <2> QED BY <2>5 DEF RoomForInsert, RoomOf
<1>6. ASSUME NEW p \in Procs, InsertAborted(p) PROVE RoomForInsert'
  <2>1. Pending' = Pending
    BY <1>6, SameLeaves DEF InsertAborted, dbVars
  <2>2. pc'[p] = "idle" /\ limit'[p] = 0
    BY <1>6 DEF InsertAborted, TypeOK
  <2>3. RoomOf(p)'
    BY <2>2 DEF RoomOf, Deleting
  <2> QED BY <1>6, <2>1, <2>3, RoomOfActor DEF InsertAborted, TypeOK
<1>7. ASSUME UNCHANGED insertVars, Pending' \subseteq Pending PROVE RoomForInsert'
  <2>1. ASSUME NEW q \in Procs PROVE RoomOf(q)'
    BY <1>7, RoomStays DEF insertVars
  <2> QED BY <2>1 DEF RoomForInsert, RoomOf
<1>8. CASE (\E s \in Senders : Send(s)) \/ Maintain \/ UNCHANGED vars
  <2>1. UNCHANGED insertVars
    BY <1>8 DEF Send, GetPending, MarkAsSent, GiveUp, Maintain, CleanupSelect,
                CleanupUpdate, PurgeSelect, PurgeDelete, insertVars, vars
  <2>2. \A p \in Procs : InsertRow(p) => pc'[p] = "idle" /\ pc[p] = "insert"
    BY DEF InsertRow, TypeOK
  <2>3. \A p \in Procs : ~ InsertRow(p)
    BY <2>1, <2>2 DEF insertVars
  <2> QED BY <1>7, <2>1, <2>3, StepPending
<1> QED BY <1>1, <1>2, <1>3, <1>4, <1>5, <1>6, <1>8 DEF Next, Insert

(* Who is about to insert has room, as its COUNT has found it or as its    *)
(* eviction has made it, but for what others have inserted since           *)
(* (insert_with_cap).                                                      *)
LEMMA RoomKept == Spec => []RoomForInsert
<1>1. Init => RoomForInsert
  BY DEF Init, RoomForInsert, Deleting
<1>2. TypeOK /\ RoomForInsert /\ [Next]_vars => RoomForInsert'
  BY RoomStep
<1> QED BY <1>1, <1>2, TypeCorrect, PTL DEF Spec

(* A limit is kept, dropped, or what the COUNT allows.                     *)
LEMMA StepLimit ==
  ASSUME TypeOK, [Next]_vars, \A q \in Procs : ~ InsertRow(q), NEW p \in Procs
  PROVE  \/ limit'[p] = limit[p] \/ limit'[p] = 0
         \/ limit'[p] = IF Cardinality(Pending) > MAX_PENDING
                        THEN Cardinality(Pending) ELSE MAX_PENDING
<1> DEFINE Goal == \/ limit'[p] = limit[p] \/ limit'[p] = 0
                   \/ limit'[p] = IF Cardinality(Pending) > MAX_PENDING
                                  THEN Cardinality(Pending) ELSE MAX_PENDING
<1>1. ASSUME NEW q \in Procs, NEW k \in Kind, InsertBegin(q, k) PROVE Goal
  BY <1>1 DEF InsertBegin, TypeOK
<1>2. ASSUME NEW q \in Procs, ScanHeartbeats(q) \/ ScanOldest(q) \/ Evict(q) PROVE Goal
  BY <1>2 DEF ScanHeartbeats, ScanOldest, Evict
<1>3. ASSUME NEW q \in Procs, InsertAborted(q) PROVE Goal
  BY <1>3 DEF InsertAborted, TypeOK
<1>4. ASSUME NEW s \in Senders, Send(s) PROVE Goal
  BY <1>4 DEF Send, GetPending, MarkAsSent, GiveUp, insertVars
<1>5. CASE Maintain \/ UNCHANGED vars
  BY <1>5 DEF Maintain, CleanupSelect, CleanupUpdate, PurgeSelect, PurgeDelete,
              insertVars, vars
<1> QED BY <1>1, <1>2, <1>3, <1>4, <1>5 DEF Next, Insert

(* With one writer nobody else inserts, so its limit is the cap.           *)
LEMMA CapStep ==
  ASSUME TypeOK, RoomForInsert, SingleWriter, CapInv, [Next]_vars
  PROVE  CapInv'
<1>a. /\ MAX_PENDING \in Nat
      /\ Cardinality(Pending) \in Nat
      /\ Cardinality(Pending) <= MAX_PENDING
      /\ IsFiniteSet(Pending)
      /\ nextId \notin Pending
  BY PendingRange, ConstantsAssumption DEF CapInv, CapHolds
<1>1. CASE \E q \in Procs : InsertRow(q)
  <2>1. PICK q \in Procs : InsertRow(q)
    BY <1>1
  <2>2. /\ Cardinality(Pending) < limit[q]
        /\ limit[q] <= MAX_PENDING
        /\ limit[q] \in Nat
    BY <2>1 DEF InsertRow, CapInv, LimitIsCap, RoomForInsert, TypeOK
  <2>3. Cardinality(Pending') = Cardinality(Pending) + 1
    BY <2>1, <1>a, InsertAdds, FS_AddElement
  <2>4. CapHolds'
    BY <2>2, <2>3, <1>a DEF CapHolds
  <2>5. \A p \in Procs : limit'[p] = 0
    BY <2>1 DEF SingleWriter, InsertRow, CountInsert
  <2> QED BY <2>4, <2>5, <1>a DEF CapInv, LimitIsCap
<1>2. CASE \A q \in Procs : ~ InsertRow(q)
  <2>1. Pending' \subseteq Pending
    BY <1>2, StepPending
  <2>2. CapHolds'
    BY <2>1, <1>a, FewerPending DEF CapHolds
  <2>3. ASSUME NEW p \in Procs PROVE limit'[p] <= MAX_PENDING
    BY <1>2, <1>a, StepLimit DEF CapInv, LimitIsCap
  <2> QED BY <2>2, <2>3 DEF CapInv, LimitIsCap
<1> QED BY <1>1, <1>2

(* With one writing process the room found by the count, or made by the    *)
(* eviction, is room under the cap (insert_with_cap).                      *)
LEMMA CapKept == SingleWriter => (Spec => []CapInv)
<1> SUFFICES ASSUME SingleWriter PROVE Spec => []CapInv
  OBVIOUS
<1>1. Init => CapInv
  <2> SUFFICES ASSUME Init PROVE CapInv
    OBVIOUS
  <2>1. Pending = {}
    BY DEF Init, Pending
  <2>2. Cardinality(Pending) = 0
    BY <2>1, FS_EmptySet
  <2> QED BY <2>2, ConstantsAssumption DEF Init, CapInv, CapHolds, LimitIsCap
<1>2. TypeOK /\ RoomForInsert /\ CapInv /\ [Next]_vars => CapInv'
  BY CapStep
<1> QED BY <1>1, <1>2, TypeCorrect, RoomKept, PTL DEF Spec

(* One process that inserts never overfills the queue, whatever is sent,   *)
(* expired and purged meanwhile (payload_manager.py, insert_with_cap).     *)
THEOREM CapAlwaysHolds == SingleWriter => (Spec => []CapHolds)
<1>1. CapInv => CapHolds
  BY DEF CapInv
<1> QED BY <1>1, CapKept, PTL
-----------------------------------------------------------------------------
(* The refinement.                                                         *)

(* FiniteSets reached through the instance is FiniteSets.                  *)
LEMMA SameCount == ASSUME NEW S PROVE Backlog!Cardinality(S) = Cardinality(S)
BY DEF Backlog!Cardinality, Cardinality

(* What a process may give up, where it stands.                            *)
LEMMA MayDropCases ==
  /\ MayDrop("idle") = "nothing" /\ MayDrop("insert") = "nothing"
  /\ MayDrop("scan") = "heartbeat" /\ MayDrop("delete heartbeat") = "heartbeat"
  /\ MayDrop("oldest") = "oldest" /\ MayDrop("delete oldest") = "oldest"
BY DEF MayDrop

(* A process moves alone: so does what it may give up.                     *)
LEMMA MayDropMoves ==
  ASSUME TypeOK, NEW p \in Procs, NEW s, pc' = [pc EXCEPT ![p] = s],
         NEW what, what = MayDrop(s)
  PROVE  Backlog!May(p, what)
<1>1. ASSUME NEW q \in Procs PROVE pc'[q] = IF q = p THEN s ELSE pc[q]
  BY DEF TypeOK
<1>2. ASSUME NEW q \in Procs PROVE MayDrop(pc'[q]) = IF q = p THEN what ELSE MayDrop(pc[q])
  BY <1>1
<1>3. [q \in Procs |-> MayDrop(pc'[q])] =
         [[q \in Procs |-> MayDrop(pc[q])] EXCEPT ![p] = what]
  BY <1>2
<1> QED BY <1>3 DEF Backlog!May

(* And if what it may give up is the same, it is the same for all.         *)
LEMMA MayDropStays ==
  ASSUME TypeOK, NEW p \in Procs, NEW s, pc' = [pc EXCEPT ![p] = s],
         MayDrop(s) = MayDrop(pc[p])
  PROVE  [q \in Procs |-> MayDrop(pc'[q])] = [q \in Procs |-> MayDrop(pc[q])]
<1>1. ASSUME NEW q \in Procs PROVE pc'[q] = IF q = p THEN s ELSE pc[q]
  BY DEF TypeOK
<1>2. ASSUME NEW q \in Procs PROVE MayDrop(pc'[q]) = MayDrop(pc[q])
  BY <1>1
<1> QED BY <1>2

(* The scanned rows are the front of the backlog.                          *)
LEMMA FrontScanned == Backlog!Waiting = Pending /\ Backlog!Front = Scanned
<1>1. Backlog!Waiting = Pending
  BY DEF Backlog!Waiting
<1> QED BY <1>1, SameCount DEF Backlog!Front, Scanned

(* The empty table is the empty backlog.                                   *)
LEMMA RefinementInit == Init => Backlog!Init
<1> SUFFICES ASSUME Init PROVE Backlog!Init
  OBVIOUS
<1>1. Pending = {}
  BY DEF Init, Pending
<1>2. [p \in Procs |-> MayDrop(pc[p])] = [p \in Procs |-> "nothing"]
  BY MayDropCases DEF Init
<1> QED BY <1>1, <1>2 DEF Init, Backlog!Init

(* The ids that leave the backlog, at their new values.                    *)
LEMMA BacklogShrinks ==
  ASSUME TypeOK, RowsOnlyLeave, NEW S, Pending' = Pending \ S
  PROVE  [i \in Pending' |-> rows'[i].kind] = Backlog!WithoutIds(S)
<1>1. \A i \in Pending' : i \in DOMAIN rows' /\ i # nextId
  BY PendingRange DEF Pending
<1>2. \A i \in Pending' : rows'[i].kind = rows[i].kind
  BY <1>1 DEF RowsOnlyLeave
<1> QED BY <1>2 DEF Backlog!WithoutIds, Backlog!Waiting

(* A step that does not write the table does not change the backlog.       *)
LEMMA BacklogSame ==
  ASSUME UNCHANGED rows
  PROVE  [i \in Pending' |-> rows'[i].kind] = [i \in Pending |-> rows[i].kind]
BY DEF Pending

(* The COUNT is Look.                                                      *)
LEMMA RefinementBegin ==
  ASSUME TypeOK, RoomForInsert, NEW p \in Procs, NEW k \in Kind, InsertBegin(p, k)
  PROVE  Backlog!Look(p)
<1>0. PICK s : s = IF Cardinality(Pending) >= MAX_PENDING THEN "scan" ELSE "insert"
  OBVIOUS
<1>1. pc[p] = "idle" /\ limit[p] = 0 /\ pc' = [pc EXCEPT ![p] = s]
  BY <1>0 DEF InsertBegin, RoomForInsert
<1>2. Backlog!Crowd = Cardinality(Pending)
  BY SameCount, FrontScanned DEF Backlog!Crowd
<1>3. MayDrop(s) = IF Backlog!Crowd >= MAX_PENDING THEN "heartbeat" ELSE "nothing"
  BY <1>0, <1>2, MayDropCases
<1>4. Backlog!May(p, IF Backlog!Crowd >= MAX_PENDING THEN "heartbeat" ELSE "nothing")
  <2>1. PICK what : what = IF Backlog!Crowd >= MAX_PENDING THEN "heartbeat" ELSE "nothing"
    OBVIOUS
  <2>2. Backlog!May(p, what)
    BY <1>1, <1>3, <2>1, MayDropMoves
  <2> QED BY <2>1, <2>2
<1>5. [q \in Procs |-> MayDrop(pc[q])][p] = "nothing"
  BY <1>1, MayDropCases
<1>6. limit' = [limit EXCEPT ![p] = IF Backlog!Crowd > MAX_PENDING
                                    THEN Backlog!Crowd ELSE MAX_PENDING]
  BY <1>2 DEF InsertBegin
<1>7. [i \in Pending' |-> rows'[i].kind] = [i \in Pending |-> rows[i].kind]
  BY BacklogSame DEF InsertBegin, dbVars
<1>8. UNCHANGED <<nextId, evicted>>
  BY DEF InsertBegin, dbVars
<1> QED BY <1>1, <1>4, <1>5, <1>6, <1>7, <1>8 DEF Backlog!Look

(* A scan that finds a heartbeat is a stutter, one that does not is        *)
(* FindNoHeartbeat.                                                        *)
LEMMA RefinementScan ==
  ASSUME TypeOK, NEW p \in Procs, ScanHeartbeats(p)
  PROVE  [Backlog!Next]_(Backlog!vars)
<1>1. /\ pc[p] = "scan"
      /\ UNCHANGED <<rows, nextId, evicted, limit>>
  BY DEF ScanHeartbeats, dbVars
<1>2. [i \in Pending' |-> rows'[i].kind] = [i \in Pending |-> rows[i].kind]
  BY <1>1, BacklogSame
<1>3. CASE Scanned \cap Heartbeats # {}
  <2>1. pc' = [pc EXCEPT ![p] = "delete heartbeat"]
    BY <1>3 DEF ScanHeartbeats
  <2>2. [q \in Procs |-> MayDrop(pc'[q])] = [q \in Procs |-> MayDrop(pc[q])]
    BY <1>1, <2>1, MayDropStays, MayDropCases
  <2> QED BY <1>1, <1>2, <2>2 DEF Backlog!vars
<1>4. CASE Scanned \cap Heartbeats = {}
  <2>1. pc' = [pc EXCEPT ![p] = "oldest"]
    BY <1>4 DEF ScanHeartbeats
  <2>2. Backlog!May(p, "oldest")
    BY <2>1, MayDropMoves, MayDropCases
  <2>3. [q \in Procs |-> MayDrop(pc[q])][p] = "heartbeat"
    BY <1>1, MayDropCases
  <2>4. \A i \in Backlog!Front : ~ Backlog!IsHeartbeat(i)
    BY <1>4, FrontScanned DEF Backlog!IsHeartbeat, Heartbeats, IsHeartbeat, Scanned
  <2>5. Backlog!FindNoHeartbeat(p)
    BY <1>1, <1>2, <2>2, <2>3, <2>4 DEF Backlog!FindNoHeartbeat
  <2> QED BY <2>5 DEF Backlog!Next, Backlog!Write
<1> QED BY <1>3, <1>4

(* The choice of the oldest row is a stutter, or DropNothing.              *)
LEMMA RefinementScanOldest ==
  ASSUME TypeOK, NEW p \in Procs, ScanOldest(p)
  PROVE  [Backlog!Next]_(Backlog!vars)
<1>1. /\ pc[p] = "oldest"
      /\ UNCHANGED <<rows, nextId, evicted, limit>>
  BY DEF ScanOldest, dbVars
<1>2. [i \in Pending' |-> rows'[i].kind] = [i \in Pending |-> rows[i].kind]
  BY <1>1, BacklogSame
<1>3. CASE Pending # {}
  <2>1. pc' = [pc EXCEPT ![p] = "delete oldest"]
    BY <1>3 DEF ScanOldest
  <2>2. [q \in Procs |-> MayDrop(pc'[q])] = [q \in Procs |-> MayDrop(pc[q])]
    BY <1>1, <2>1, MayDropStays, MayDropCases
  <2> QED BY <1>1, <1>2, <2>2 DEF Backlog!vars
<1>4. CASE Pending = {}
  <2>1. pc' = [pc EXCEPT ![p] = "insert"]
    BY <1>4 DEF ScanOldest
  <2>2. Backlog!May(p, "nothing")
    BY <2>1, MayDropMoves, MayDropCases
  <2>3. Backlog!DropNothing(p)
    BY <1>1, <1>2, <2>2 DEF Backlog!DropNothing
  <2> QED BY <2>3 DEF Backlog!Next, Backlog!Write
<1> QED BY <1>3, <1>4

(* InsertRow is Accept: the room is there.                                 *)
LEMMA RefinementInsert ==
  ASSUME OrderInv, RoomForInsert, NEW p \in Procs, InsertRow(p), NEW k, k = arg[p]
  PROVE  Backlog!Accept(p, k)
<1>1. TypeOK /\ RowsOnlyLeave
  BY InsertAdds DEF OrderInv
<1>2. pc[p] = "insert" /\ pc' = [pc EXCEPT ![p] = "idle"]
  BY DEF InsertRow
<1>3. /\ Pending' = Pending \cup {nextId}
      /\ rows'[nextId].kind = k
  <2>1. /\ Pending' = Pending \cup {nextId}
        /\ rows'[nextId] = [kind |-> arg[p], status |-> "pending"]
    BY <1>1, InsertAdds
  <2> QED BY <2>1
<1>4. \A i \in Pending : i # nextId /\ i \in DOMAIN rows' /\ rows'[i].kind = rows[i].kind
  <2>1. \A i \in Pending : i # nextId /\ i \in DOMAIN rows'
    BY <1>1, <1>3, PendingRange DEF Pending
  <2> QED BY <2>1, <1>1 DEF RowsOnlyLeave
<1>5. [i \in Pending' |-> rows'[i].kind] =
         [i \in Pending \cup {nextId} |-> IF i = nextId THEN k ELSE rows[i].kind]
  BY <1>3, <1>4
<1>6. nextId' = nextId + 1 /\ evicted' = evicted
  BY DEF InsertRow
<1>7. Backlog!Waiting = Pending /\ Backlog!Crowd < limit[p]
  BY <1>2, FrontScanned, SameCount DEF Backlog!Crowd, RoomForInsert
<1>8. [i \in Pending \cup {nextId} |-> IF i = nextId THEN k ELSE rows[i].kind] =
         [i \in Pending \cup {nextId} |->
            IF i = nextId THEN k ELSE [j \in Pending |-> rows[j].kind][i]]
  OBVIOUS
<1>9. /\ [q \in Procs |-> MayDrop(pc[q])][p] = "nothing"
      /\ [q \in Procs |-> MayDrop(pc'[q])] = [q \in Procs |-> MayDrop(pc[q])]
  BY <1>1, <1>2, MayDropStays, MayDropCases
<1>10. limit' = [v \in Procs |-> IF v = p \/ limit[v] = 0 THEN 0 ELSE limit[v] + 1]
  BY DEF InsertRow, CountInsert
<1> QED BY <1>5, <1>6, <1>7, <1>8, <1>9, <1>10 DEF Backlog!Accept

(* A failure or a crash is Abort.                                          *)
LEMMA RefinementAbort ==
  ASSUME TypeOK, NEW p \in Procs, InsertAborted(p)
  PROVE  Backlog!Abort(p)
<1>1. /\ pc' = [pc EXCEPT ![p] = "idle"]
      /\ limit' = [limit EXCEPT ![p] = 0]
      /\ UNCHANGED <<rows, nextId, evicted>>
  BY DEF InsertAborted, dbVars
<1>2. Backlog!May(p, "nothing")
  BY <1>1, MayDropMoves, MayDropCases
<1> QED BY <1>1, <1>2, BacklogSame DEF Backlog!Abort

(* Evict is Drop, or DropNothing if the victim is no longer pending.       *)
LEMMA RefinementEvict ==
  ASSUME OrderInv, NEW p \in Procs, Evict(p)
  PROVE  Backlog!Next
<1>0. PICK v : v = victim[p]
  OBVIOUS
<1>1. TypeOK /\ RowsOnlyLeave /\ Pending' = Pending \ {v}
  BY <1>0, DeleteLeaves DEF OrderInv, Evict
<1>2. [i \in Pending' |-> rows'[i].kind] = Backlog!WithoutIds({v})
  BY <1>1, BacklogShrinks
<1>3. /\ pc[p] \in Deleting /\ pc' = [pc EXCEPT ![p] = "insert"]
      /\ nextId' = nextId /\ limit' = limit
      /\ evicted' = evicted \cup ({v} \cap Pending)
  BY <1>0 DEF Evict
<1>4. Backlog!May(p, "nothing")
  BY <1>1, <1>3, MayDropMoves, MayDropCases
<1>5. CASE v \in Pending
  <2>1. \/ /\ [q \in Procs |-> MayDrop(pc[q])][p] = "heartbeat"
           /\ v \in Backlog!Front /\ Backlog!IsHeartbeat(v)
           /\ \A j \in Backlog!Waiting : Backlog!IsHeartbeat(j) => v <= j
        \/ /\ [q \in Procs |-> MayDrop(pc[q])][p] = "oldest"
           /\ \A j \in Backlog!Waiting : v <= j
    <3>1. CASE pc[p] = "delete heartbeat"
      <4>1. v \in Scanned \cap Heartbeats /\ \A j \in Heartbeats : v <= j
        BY <1>0, <1>5, <3>1 DEF OrderInv, VictimsOldest
      <4> QED BY <3>1, <4>1, FrontScanned, MayDropCases
              DEF Backlog!IsHeartbeat, Heartbeats, IsHeartbeat
    <3>2. CASE pc[p] = "delete oldest"
      <4>1. \A j \in Pending : v <= j
        BY <1>0, <1>5, <3>2 DEF OrderInv, VictimsOldest
      <4> QED BY <3>2, <4>1, FrontScanned, MayDropCases
    <3> QED BY <1>3, <3>1, <3>2 DEF Deleting
  <2>2. evicted' = evicted \cup {v}
    BY <1>3, <1>5
  <2>3. Backlog!Drop(p, v)
    BY <1>2, <1>3, <1>4, <2>1, <2>2 DEF Backlog!Drop
  <2>4. v \in Backlog!Waiting
    BY <1>5, FrontScanned
  <2>5. Backlog!Write(p)
    BY <2>3, <2>4, Zenon DEF Backlog!Write
  <2> QED BY <2>5, Zenon DEF Backlog!Next
<1>6. CASE v \notin Pending
  <2>1. evicted' = evicted
    BY <1>3, <1>6
  <2>2. Backlog!WithoutIds({v}) = [i \in Pending |-> rows[i].kind]
    BY <1>6 DEF Backlog!WithoutIds, Backlog!Waiting
  <2>3. Backlog!DropNothing(p)
    BY <1>2, <1>3, <1>4, <2>1, <2>2 DEF Backlog!DropNothing
  <2>4. Backlog!Write(p)
    BY <2>3, Zenon DEF Backlog!Write
  <2> QED BY <2>4, Zenon DEF Backlog!Next
<1> QED BY <1>5, <1>6

(* mark_as_sent is HandOver, or nothing if the row is no longer pending.   *)
LEMMA RefinementSend ==
  ASSUME OrderInv, NEW s \in Senders, MarkAsSent(s)
  PROVE  [Backlog!Next]_(Backlog!vars)
<1>0. PICK r : r = reading[s]
  OBVIOUS
<1>1. TypeOK /\ RowsOnlyLeave /\ Pending' = Pending \ {r}
  BY <1>0, SetStatusLeaves DEF OrderInv, MarkAsSent, Status
<1>2. [i \in Pending' |-> rows'[i].kind] = Backlog!WithoutIds({r})
  BY <1>1, BacklogShrinks
<1>3. UNCHANGED <<nextId, evicted, pc, limit>>
  BY DEF MarkAsSent, insertVars
<1>6. [q \in Procs |-> MayDrop(pc'[q])] = [q \in Procs |-> MayDrop(pc[q])]
  BY <1>3
<1>4. CASE r \in Pending
  <2>1. \A j \in Pending : r <= j
    BY <1>0, <1>4 DEF OrderInv, ReadingHead
  <2>2. Backlog!HandOver(r)
    BY <1>2, <1>3, <1>6, <2>1 DEF Backlog!HandOver, Backlog!Waiting
  <2>3. r \in Backlog!Waiting
    BY <1>4 DEF Backlog!Waiting
  <2>4. Backlog!Next
    BY <2>2, <2>3, Zenon DEF Backlog!Next
  <2> QED BY <2>4
<1>5. CASE r \notin Pending
  <2>2. Backlog!WithoutIds({r}) = [i \in Pending |-> rows[i].kind]
    BY <1>5 DEF Backlog!WithoutIds, Backlog!Waiting
  <2> QED BY <1>2, <1>3, <1>6, <2>2 DEF Backlog!vars
<1> QED BY <1>4, <1>5

(* What a restart expires or purges is an Expire: there is no zone event   *)
(* in it.                                                                  *)
LEMMA RefinementExpire ==
  ASSUME TypeOK, RowsOnlyLeave, UNCHANGED <<nextId, evicted, pc, limit>>, NEW S,
         Pending' = Pending \ S, \A i \in S \cap DOMAIN rows : ~ IsZoneEvent(rows[i])
  PROVE  Backlog!Next
<1>0. PICK T : T = S \cap Pending
  OBVIOUS
<1>1. [i \in Pending' |-> rows'[i].kind] = Backlog!WithoutIds(T)
  BY <1>0, BacklogShrinks
<1>2. \A i \in T : [j \in Pending |-> rows[j].kind][i] # "zone"
  BY <1>0 DEF IsZoneEvent, Pending
<1>3. Backlog!Expire(T)
  <2>1. pc' = pc
    OBVIOUS
  <2>2. [q \in Procs |-> MayDrop(pc'[q])] = [q \in Procs |-> MayDrop(pc[q])]
    BY <2>1
  <2> QED BY <1>1, <1>2, <2>2 DEF Backlog!Expire
<1>4. T \in SUBSET Backlog!Waiting
  BY <1>0 DEF Backlog!Waiting
<1> QED BY <1>3, <1>4 DEF Backlog!Next

(* Every step of the queue is a step of the backlog or a stutter.          *)
LEMMA RefinementStep ==
  ASSUME OrderInv, RoomForInsert, [Next]_vars
  PROVE  [Backlog!Next]_(Backlog!vars)
<1> DEFINE Goal == [Backlog!Next]_(Backlog!vars)
<1>a. TypeOK
  BY DEF OrderInv
<1>b. ASSUME UNCHANGED <<rows, nextId, evicted, pc, limit>> PROVE Goal
  <2>1. [q \in Procs |-> MayDrop(pc'[q])] = [q \in Procs |-> MayDrop(pc[q])]
    BY <1>b
  <2> QED BY <1>b, <2>1, BacklogSame DEF Backlog!vars
<1>1. ASSUME NEW p \in Procs, Insert(p) PROVE Goal
  <2>0. ASSUME Backlog!Write(p) PROVE Goal
    BY <2>0, Zenon DEF Backlog!Next
  <2>1. CASE Evict(p)
    BY <2>1, RefinementEvict
  <2>2. CASE InsertRow(p)
    <3>0. PICK k : k = arg[p]
      OBVIOUS
    <3>1. k \in Backlog!Kind
      BY <1>a, <3>0 DEF TypeOK, Kind, Backlog!Kind
    <3>2. Backlog!Accept(p, k)
      BY <2>2, <3>0, RefinementInsert
    <3>3. Backlog!Write(p)
      BY <3>1, <3>2, Zenon DEF Backlog!Write
    <3> QED BY <2>0, <3>3
  <2>3. CASE \E k \in Kind : InsertBegin(p, k)
    <3>1. Backlog!Look(p)
      BY <1>a, <2>3, RefinementBegin
    <3>2. Backlog!Write(p)
      BY <3>1, Zenon DEF Backlog!Write
    <3> QED BY <2>0, <3>2
  <2>4. CASE ScanHeartbeats(p)
    BY <1>a, <2>4, RefinementScan
  <2>5. CASE ScanOldest(p)
    BY <1>a, <2>5, RefinementScanOldest
  <2>6. CASE InsertAborted(p)
    <3>1. Backlog!Abort(p)
      BY <1>a, <2>6, RefinementAbort
    <3>2. Backlog!Write(p)
      BY <3>1, Zenon DEF Backlog!Write
    <3> QED BY <2>0, <3>2
  <2> QED BY <1>1, <2>1, <2>2, <2>3, <2>4, <2>5, <2>6 DEF Insert
<1>2. ASSUME NEW s \in Senders, Send(s) PROVE Goal
  <2>1. CASE MarkAsSent(s)
    BY <2>1, RefinementSend
  <2>2. CASE ~ MarkAsSent(s)
    BY <1>2, <1>b, <2>2 DEF Send, GetPending, GiveUp, dbVars, insertVars
  <2> QED BY <2>1, <2>2
<1>3. CASE Maintain
  <2>1. CASE CleanupSelect \/ PurgeSelect
    BY <1>b, <2>1 DEF CleanupSelect, PurgeSelect, dbVars, insertVars
  <2>2. CASE CleanupUpdate
    BY <1>a, <2>2, SetStatusLeaves, RefinementExpire
       DEF CleanupUpdate, Status, OrderInv, StaleKinds, insertVars
  <2>3. CASE PurgeDelete
    <3>1. \A i \in purge \cap DOMAIN rows : ~ IsZoneEvent(rows[i])
      BY DEF OrderInv, StaleKinds, IsHeartbeat, IsZoneEvent
    <3> QED BY <1>a, <2>3, <3>1, DeleteLeaves, RefinementExpire DEF PurgeDelete, insertVars
  <2> QED BY <1>3, <2>1, <2>2, <2>3 DEF Maintain
<1>4. CASE UNCHANGED vars
  BY <1>4, <1>b DEF vars
<1> QED BY <1>1, <1>2, <1>3, <1>4 DEF Next

(* However many processes insert, payloads.db behaves as a bounded backlog *)
(* handed over oldest first: who finds the cap reached gives up one        *)
(* payload at most, the oldest heartbeat of the scanned rows or, only if   *)
(* its scan saw none, the oldest of all, and adds its own only where there *)
(* is room but for what others have added (payload_manager.py,             *)
(* database_handler.py).                                                   *)
THEOREM QueueImplementsBacklog == Spec => ImplementsBacklog
<1>1. Init => Backlog!Init
  BY RefinementInit
<1>2. OrderInv /\ RoomForInsert /\ [Next]_vars => [Backlog!Next]_(Backlog!vars)
  BY RefinementStep
<1> QED BY <1>1, <1>2, OrderKept, RoomKept, PTL DEF Spec, ImplementsBacklog, Backlog!Spec

-----------------------------------------------------------------------------
(* AmcIntegration.                                                         *)

(* The two steps that a device with a panel and one without can take.      *)
AmcActs == AlarmPanel \/ Integration

LEMMA StepCases ==
  ASSUME [AmcNext]_everything
  PROVE  (fitted' = fitted /\ AmcActs) \/ UNCHANGED amcVars
BY DEF AmcNext, AmcStep, QueueStep, OnDevice, AmcActs, everything

(* A frame is an alarm or a restore of a point, or a test.                 *)
LEMMA FrameTypes ==
  /\ TestFrame \in Frames
  /\ \A p \in Points : [kind |-> "alarm", point |-> p] \in Frames
  /\ \A p \in Points : [kind |-> "restore", point |-> p] \in Frames
  /\ \A f \in Frames : f # TestFrame => f.point \in Points /\ f.kind \in {"alarm", "restore"}
BY DEF Frames, TestFrame

(* What the panel does keeps the types.                                    *)
LEMMA PanelTypes == AmcTypeOK /\ fitted' = fitted /\ AlarmPanel => AmcTypeOK'
<1> SUFFICES ASSUME AmcTypeOK, fitted' = fitted, AlarmPanel PROVE AmcTypeOK'
  OBVIOUS
<1> USE FrameTypes DEF AmcTypeOK, threadVars, superVars, reportVars, panelVars
<1>1. ASSUME NEW p \in Points, Change(p) PROVE AmcTypeOK'
  <2>1. [kind |-> IF zone[p] = "normal" THEN "alarm" ELSE "restore", point |-> p] \in Frames
    BY <1>1
  <2>2. outbox' \in Seq(Frames)
    BY <1>1, <2>1 DEF Change
  <2>3. zone' \in [Points -> {"normal", "alarm"}]
    BY <1>1 DEF Change
  <2> QED BY <1>1, <2>2, <2>3 DEF Change
<1>2. ASSUME NEW p \in Points, Repeat(p) PROVE AmcTypeOK'
  <2>1. outbox' \in Seq(Frames)
    BY <1>2 DEF Repeat
  <2> QED BY <1>2, <2>1 DEF Repeat
<1>3. CASE Test
  <2>1. outbox' \in Seq(Frames)
    BY <1>3 DEF Test
  <2> QED BY <1>3, <2>1 DEF Test
<1>4. CASE Null
  BY <1>4 DEF Null
<1>5. CASE Elapse
  BY <1>5 DEF Elapse
<1> QED BY <1>1, <1>2, <1>3, <1>4, <1>5 DEF AlarmPanel

(* What a connection does keeps the types.                                 *)
LEMMA ProcessTypes ==
  ASSUME AmcTypeOK, fitted' = fitted, NEW t \in Threads, Process(t)
  PROVE  AmcTypeOK'
<1> USE FrameTypes DEF AmcTypeOK, superVars, reportVars, panelVars, Done
<1>1. CASE Update(t)
  BY <1>1 DEF Update
<1>2. CASE Suppress(t)
  BY <1>2 DEF Suppress
<1>3. CASE PassAlarm(t)
  BY <1>3 DEF PassAlarm
<1>4. CASE PassOther(t)
  BY <1>4 DEF PassOther
<1>5. CASE Store(t)
  <2>1. last' \in [Points -> {"none", "alarm", "restore"}]
    BY <1>5 DEF Store
  <2>2. wrong' \in [Points -> BOOLEAN]
    <3>1. CASE frame[t] = TestFrame
      BY <1>5, <3>1 DEF Store
    <3>2. CASE frame[t] # TestFrame
      BY <1>5, <3>2 DEF Store
    <3> QED BY <3>1, <3>2
  <2> QED BY <1>5, <2>1, <2>2 DEF Store
<1>6. CASE StoreFails(t)
  BY <1>6 DEF StoreFails
<1> QED BY <1>1, <1>2, <1>3, <1>4, <1>5, <1>6 DEF Process

(* So do the other steps of the process.                                   *)
LEMMA IntegrationTypes == AmcTypeOK /\ fitted' = fitted /\ Integration => AmcTypeOK'
<1> SUFFICES ASSUME AmcTypeOK, fitted' = fitted, Integration PROVE AmcTypeOK'
  OBVIOUS
<1> USE FrameTypes DEF AmcTypeOK, threadVars, superVars, reportVars, panelVars
<1>1. ASSUME NEW t \in Threads, Receive(t) PROVE AmcTypeOK'
  <2>1. Head(outbox) \in Frames /\ Tail(outbox) \in Seq(Frames)
    BY <1>1 DEF Receive
  <2>2. outbox' \in Seq(Frames)
    BY <1>1, <2>1 DEF Receive
  <2>3. order' \in [Threads -> {"alone", "newer", "overtaken"}]
    BY <1>1 DEF Receive
  <2>4. /\ at' \in [Threads -> {"idle", "update", "hook", "insert"}]
        /\ frame' \in [Threads -> Frames]
    BY <1>1, <2>1 DEF Receive
  <2>5. UNCHANGED <<zone, flag, service, keys, superVars, reportVars>>
    BY <1>1 DEF Receive
  <2> QED BY <2>2, <2>3, <2>4, <2>5
<1>2. ASSUME NEW t \in Threads, Process(t) PROVE AmcTypeOK'
  BY <1>2, ProcessTypes
<1>3. CASE Supervise
  BY <1>3 DEF Supervise
<1>4. ASSUME Stopped, UNCHANGED <<panelVars, last, told, missed>>, flag' \in BOOLEAN
      PROVE  AmcTypeOK'
  <2>1. wrong' \in [Points -> BOOLEAN]
    BY <1>4 DEF Stopped
  <2> QED BY <1>4, <2>1 DEF Stopped
<1>5. CASE Crash
  BY <1>4, <1>5 DEF Crash
<1>6. CASE LcdToggles
  <2>1. CASE Stopped
    BY <1>4, <1>6, <2>1 DEF LcdToggles
  <2>2. CASE UNCHANGED <<service, threadVars, keys, superVars, wrong, due>>
    BY <1>6, <2>2 DEF LcdToggles
  <2> QED BY <1>6, <2>1, <2>2 DEF LcdToggles
<1>7. CASE Start
  BY <1>7 DEF Start
<1> QED BY <1>1, <1>2, <1>3, <1>5, <1>6, <1>7 DEF Integration

(* Frames, threads, the set of keys and the state of the panel keep to     *)
(* their types (amc_integration.py).                                       *)
THEOREM AmcTypeCorrect == AmcSafeSpec => []AmcTypeOK
<1>1. AmcInit => AmcTypeOK
  <2> SUFFICES ASSUME AmcInit PROVE AmcTypeOK
    OBVIOUS
  <2>1. outbox \in Seq(Frames)
    BY DEF AmcInit
  <2>2. /\ at \in [Threads -> {"idle", "update", "hook", "insert"}]
        /\ frame \in [Threads -> Frames]
        /\ order \in [Threads -> {"alone", "newer", "overtaken"}]
    BY FrameTypes DEF AmcInit
  <2>3. /\ zone \in [Points -> {"normal", "alarm"}]
        /\ last \in [Points -> {"none", "alarm", "restore"}]
        /\ wrong \in [Points -> BOOLEAN]
    BY DEF AmcInit
  <2> QED BY <2>1, <2>2, <2>3 DEF AmcInit, AmcTypeOK
<1>2. AmcTypeOK /\ [AmcNext]_everything => AmcTypeOK'
  <2> SUFFICES ASSUME AmcTypeOK, [AmcNext]_everything PROVE AmcTypeOK'
    OBVIOUS
  <2>1. CASE UNCHANGED amcVars
    BY <2>1 DEF AmcTypeOK, amcVars, panelVars, threadVars, superVars, reportVars
  <2>2. CASE fitted' = fitted /\ AmcActs
    BY <2>2, PanelTypes, IntegrationTypes DEF AmcActs
  <2> QED BY <2>1, <2>2, StepCases
<1> QED BY <1>1, <1>2, PTL DEF AmcSafeSpec
-----------------------------------------------------------------------------
(* No step lets a panel be held offline without having been reported.      *)
LEMMA OfflineStep == AmcTypeOK /\ OfflineInv /\ [AmcNext]_everything => OfflineInv'
<1> SUFFICES ASSUME AmcTypeOK, OfflineInv, [AmcNext]_everything PROVE OfflineInv'
  OBVIOUS
<1> USE DEF AmcTypeOK, OfflineInv, OfflineIsTold, threadVars, superVars, reportVars
<1>1. CASE UNCHANGED amcVars
  BY <1>1 DEF amcVars
<1>2. CASE AlarmPanel
  <2>1. CASE (\E p \in Points : Change(p) \/ Repeat(p)) \/ Test
    <3>1. UNCHANGED <<threadVars, superVars, reportVars>>
      BY <2>1 DEF Change, Repeat, Test
    <3> QED BY <3>1
  <2>2. CASE Null
    BY <2>2 DEF Null
  <2>3. CASE Elapse
    BY <2>3 DEF Elapse
  <2> QED BY <1>2, <2>1, <2>2, <2>3 DEF AlarmPanel
<1>3. ASSUME NEW t \in Threads, Receive(t) PROVE OfflineInv'
  BY <1>3 DEF Receive
<1>4. ASSUME NEW t \in Threads, Process(t) PROVE OfflineInv'
  <2>1. CASE Update(t)
    BY <2>1 DEF Update
  <2>2. CASE Suppress(t) \/ PassAlarm(t) \/ PassOther(t)
    BY <2>2 DEF Suppress, PassAlarm, PassOther, Done
  <2>3. CASE Store(t)
    <3>1. ~ silent
      BY <2>3 DEF Store
    <3> QED BY <2>3, <3>1 DEF Store, Done
  <2>4. CASE StoreFails(t)
    BY <2>4 DEF StoreFails, Done
  <2> QED BY <1>4, <2>1, <2>2, <2>3, <2>4 DEF Process
<1>5. CASE Supervise
  BY <1>5 DEF Supervise
<1>6. CASE Crash \/ LcdToggles
  BY <1>6 DEF Crash, LcdToggles, Stopped
<1>7. CASE Start
  BY <1>7 DEF Start
<1> QED BY <1>1, <1>2, <1>3, <1>4, <1>5, <1>6, <1>7, StepCases DEF AmcActs, Integration

(* However often the panel went and came back, over whichever connections  *)
(* and restarts: one that the supervision holds offline has been reported  *)
(* so, unless the report was refused or the thread is dead                 *)
(* (start_supervision, process_raw, parse_frame).                          *)
THEOREM OfflineIsAlwaysTold == AmcSafeSpec => []OfflineIsTold
<1>1. AmcInit => OfflineInv
  BY DEF AmcInit, OfflineInv, OfflineIsTold
<1>2. OfflineInv => OfflineIsTold
  BY DEF OfflineInv
<1> QED BY <1>1, <1>2, OfflineStep, AmcTypeCorrect, PTL DEF AmcSafeSpec
-----------------------------------------------------------------------------
(* First activations.  What the panel has said of each point, after each   *)
(* of the frames that it still keeps, is a history that these frames       *)
(* determine; an alarm among them is new if the last word before it was a  *)
(* restore.                                                                *)
One(b) == IF b THEN 1 ELSE 0

Kinds == {"alarm", "restore"}
Alarm(p) == [kind |-> "alarm", point |-> p]

Histories(s) == [0 .. Len(s) -> [Points -> Kinds]]
After(f, said) == IF f = TestFrame THEN said ELSE [said EXCEPT ![f.point] = f.kind]
Follows(s, said) == \A n \in 1 .. Len(s) : said[n] = After(s[n], said[n - 1])
NewAlarms(s, said, p) == {n \in 1 .. Len(s) : s[n] = Alarm(p) /\ said[n - 1][p] = "restore"}

(* The connections that report an alarm of p, or may let one be reported   *)
(* out of turn: theirs has been overtaken by what says the contrary.       *)
Claims(p) ==
    {t \in Threads : \/ at[t] = "insert" /\ frame[t] = Alarm(p)
                     \/ /\ at[t] \in {"update", "hook"} /\ order[t] = "overtaken"
                        /\ frame[t] # TestFrame /\ frame[t].point = p}

(* The last word is how the zone is now.                                   *)
SaysZone(said) ==
    \A p \in Points : said[Len(outbox)][p] = IF zone[p] = "alarm" THEN "alarm" ELSE "restore"

(* What a connection has in hand and has not been overtaken is the last    *)
(* word of the panel that was received.                                    *)
InTurn(said) ==
    \A t \in Threads : at[t] # "idle" /\ order[t] # "overtaken" /\ frame[t] # TestFrame
                          => frame[t].kind = said[0][frame[t].point]

(* Activations, restarts and frames overtaken pay for the alarms to be     *)
(* reported: those claimed, those new in the frames to come, and the one   *)
(* that the panel would repeat while its key is not in the set.            *)
PaysFor(said) ==
    \A p \in Points :
        due[p] >= Cardinality(Claims(p)) + Cardinality(NewAlarms(outbox, said, p))
                     + One(said[0][p] = "alarm" /\ p \notin keys)

Account(said) == Follows(outbox, said) /\ SaysZone(said) /\ InTurn(said) /\ PaysFor(said)

ActivationInv ==
    /\ due \in [Points -> Int]
    /\ \A t \in Threads : at[t] = "idle" => order[t] = "alone"
    /\ \E said \in Histories(outbox) : Account(said)

(* Counting connections and frames.                                        *)
LEMMA CountSub ==
  ASSUME NEW S, IsFiniteSet(S), NEW T, T \subseteq S
  PROVE  /\ IsFiniteSet(T)
         /\ Cardinality(S) \in Nat /\ Cardinality(T) \in Nat
         /\ Cardinality(T) <= Cardinality(S)
BY FS_Subset, FS_CardinalityType

LEMMA CountAdd ==
  ASSUME NEW S, IsFiniteSet(S), NEW x, NEW T, T \subseteq S \cup {x}
  PROVE  /\ Cardinality(S) \in Nat /\ Cardinality(T) \in Nat
         /\ Cardinality(T) <= Cardinality(S) + 1
<1>1. /\ IsFiniteSet(S \cup {x})
      /\ Cardinality(S \cup {x}) = IF x \in S THEN Cardinality(S) ELSE Cardinality(S) + 1
  BY FS_AddElement
<1>2. Cardinality(S) \in Nat
  BY FS_CardinalityType
<1>3. Cardinality(T) \in Nat /\ Cardinality(T) <= Cardinality(S \cup {x})
  BY <1>1, CountSub
<1> QED BY <1>1, <1>2, <1>3

LEMMA CountDrop ==
  ASSUME NEW S, IsFiniteSet(S), NEW x \in S, NEW T, T \subseteq S \ {x}
  PROVE  /\ Cardinality(S) \in Nat /\ Cardinality(T) \in Nat
         /\ Cardinality(T) <= Cardinality(S) - 1
<1>1. IsFiniteSet(S \ {x}) /\ Cardinality(S \ {x}) = Cardinality(S) - 1
  BY FS_RemoveElement
<1>2. Cardinality(S) \in Nat
  BY FS_CardinalityType
<1>3. Cardinality(T) \in Nat /\ Cardinality(T) <= Cardinality(S \ {x})
  BY <1>1, CountSub
<1> QED BY <1>1, <1>2, <1>3

LEMMA CountUnion ==
  ASSUME NEW S, IsFiniteSet(S), NEW U, IsFiniteSet(U), NEW T, T \subseteq S \cup U
  PROVE  /\ Cardinality(S) \in Nat /\ Cardinality(U) \in Nat /\ Cardinality(T) \in Nat
         /\ Cardinality(T) <= Cardinality(S) + Cardinality(U)
<1>1. /\ IsFiniteSet(S \cup U)
      /\ Cardinality(S \cup U) = Cardinality(S) + Cardinality(U) - Cardinality(S \cap U)
  BY FS_Union
<1>2. Cardinality(S) \in Nat /\ Cardinality(U) \in Nat
  BY FS_CardinalityType
<1>3. Cardinality(S \cap U) \in Nat
  BY CountSub
<1>4. Cardinality(T) \in Nat /\ Cardinality(T) <= Cardinality(S \cup U)
  BY <1>1, CountSub
<1> QED BY <1>1, <1>2, <1>3, <1>4

(* The frames that are left when the first is gone are as many at most.    *)
LEMMA CountShift ==
  ASSUME NEW S, IsFiniteSet(S), NEW T, T \subseteq Nat, \A n \in T : n + 1 \in S
  PROVE  /\ IsFiniteSet(T)
         /\ Cardinality(S) \in Nat /\ Cardinality(T) \in Nat
         /\ Cardinality(T) <= Cardinality(S)
<1> DEFINE f == [n \in T |-> n + 1]
<1>1. f \in [T -> S]
  OBVIOUS
<1>2. \A m, n \in T : f[m] = f[n] => m = n
  OBVIOUS
<1>3. f \in Injection(T, S)
  BY <1>1, <1>2 DEF Injection, IsInjective
<1>4. IsFiniteSet(T) /\ Cardinality(T) <= Cardinality(S)
  BY <1>3, FS_Injection
<1> QED BY <1>4, FS_CardinalityType

(* Connections and kept frames are finitely many.                          *)
LEMMA ClaimsFinite ==
  ASSUME NEW S, S \subseteq Threads
  PROVE  IsFiniteSet(S) /\ Cardinality(S) \in Nat
BY AmcAssumption, CountSub

LEMMA NewFinite ==
  ASSUME NEW s \in Seq(Frames), NEW said, NEW p
  PROVE  IsFiniteSet(NewAlarms(s, said, p)) /\ Cardinality(NewAlarms(s, said, p)) \in Nat
<1>1. IsFiniteSet(1 .. Len(s))
  BY FS_Interval
<1> QED BY <1>1, CountSub DEF NewAlarms

LEMMA FrameIsAlarm ==
  ASSUME NEW f \in Frames, NEW p \in Points
  PROVE  f = Alarm(p) <=> f # TestFrame /\ f.kind = "alarm" /\ f.point = p
BY DEF Frames, TestFrame, Alarm

LEMMA AfterTypes ==
  ASSUME NEW f \in Frames, NEW said \in [Points -> Kinds]
  PROVE  /\ After(f, said) \in [Points -> Kinds]
         /\ f = TestFrame => After(f, said) = said
         /\ f # TestFrame => \A p \in Points :
               After(f, said)[p] = IF p = f.point THEN f.kind ELSE said[p]
<1>1. CASE f = TestFrame
  BY <1>1 DEF After
<1>2. CASE f # TestFrame
  <2>1. f.point \in Points /\ f.kind \in Kinds
    BY <1>2, FrameTypes DEF Kinds
  <2>2. After(f, said) = [said EXCEPT ![f.point] = f.kind]
    BY <1>2 DEF After
  <2> QED BY <1>2, <2>1, <2>2
<1> QED BY <1>1, <1>2

(* What the panel does: a new alarm has paid for itself, and an alarm that *)
(* is repeated is the last word received.                                  *)
LEMMA PanelPays ==
  ASSUME AmcTypeOK, ActivationInv, AlarmPanel
  PROVE  ActivationInv'
<1> USE FrameTypes DEF AmcTypeOK
<1>1. UNCHANGED <<threadVars, keys>>
  BY DEF AlarmPanel, Change, Repeat, Test, Null, Elapse, threadVars
<1>2. \A p \in Points : Claims(p)' = Claims(p)
  BY <1>1 DEF Claims, threadVars
<1>3. \A t \in Threads : at'[t] = "idle" => order'[t] = "alone"
  BY <1>1 DEF ActivationInv, threadVars
<1>4. PICK said \in Histories(outbox) : Account(said)
  BY DEF ActivationInv
<1>5. Len(outbox) \in Nat /\ said \in [0 .. Len(outbox) -> [Points -> Kinds]]
  BY <1>4 DEF Histories
<1>6. CASE Null \/ Elapse
  <2>1. UNCHANGED <<zone, outbox, due>>
    BY <1>6 DEF Null, Elapse, panelVars, counts
  <2>2. InTurn(said)'
    BY <1>1, <1>4 DEF InTurn, Account, threadVars
  <2>3. Account(said)'
    BY <1>1, <1>2, <1>4, <2>1, <2>2 DEF Account, SaysZone, PaysFor
  <2> QED BY <1>3, <1>4, <2>1, <2>3 DEF ActivationInv
(* A frame that is appended to those kept. *)
<1>7. ASSUME NEW f \in Frames, outbox' = Append(outbox, f), due' \in [Points -> Int],
             \A p \in Points : zone'[p] = (IF f # TestFrame /\ f.point = p
                                           THEN IF f.kind = "alarm" THEN "alarm" ELSE "normal"
                                           ELSE zone[p]),
             \A p \in Points : \/ due'[p] = due[p] + 1
                               \/ due'[p] = due[p] /\ f # Alarm(p)
                               \/ due'[p] = due[p] /\ said[Len(outbox)][p] = "alarm"
      PROVE  ActivationInv'
  <2>1. /\ Len(outbox') = Len(outbox) + 1
        /\ \A n \in 1 .. Len(outbox) : outbox'[n] = outbox[n]
        /\ outbox'[Len(outbox) + 1] = f
    BY <1>5, <1>7
  <2>2. PICK later : later = [n \in 0 .. Len(outbox) + 1 |->
                                 IF n <= Len(outbox) THEN said[n]
                                                     ELSE After(f, said[Len(outbox)])]
    OBVIOUS
  <2>3. said[Len(outbox)] \in [Points -> Kinds]
    BY <1>5
  <2>4. After(f, said[Len(outbox)]) \in [Points -> Kinds]
    BY <2>3, AfterTypes
  <2>5. /\ later \in [0 .. Len(outbox) + 1 -> [Points -> Kinds]]
        /\ \A n \in 0 .. Len(outbox) : later[n] = said[n]
        /\ later[Len(outbox) + 1] = After(f, said[Len(outbox)])
    BY <1>5, <2>2, <2>4
  <2>6. later \in Histories(outbox')
    BY <2>1, <2>5 DEF Histories
  <2>7. Follows(outbox', later)
    <3> SUFFICES ASSUME NEW n \in 1 .. Len(outbox) + 1
                 PROVE  later[n] = After(outbox'[n], later[n - 1])
      BY <2>1 DEF Follows
    <3>1. CASE n \in 1 .. Len(outbox)
      BY <1>4, <1>5, <2>1, <2>5, <3>1 DEF Account, Follows
    <3>2. CASE n = Len(outbox) + 1
      BY <1>5, <2>1, <2>5, <3>2
    <3> QED BY <1>5, <3>1, <3>2
  <2>8. SaysZone(later)'
    <3> SUFFICES ASSUME NEW p \in Points
                 PROVE  later[Len(outbox')][p] = IF zone'[p] = "alarm" THEN "alarm" ELSE "restore"
      BY DEF SaysZone
    <3>1. later[Len(outbox')] = After(f, said[Len(outbox)])
      BY <2>1, <2>5
    <3>2. said[Len(outbox)][p] = IF zone[p] = "alarm" THEN "alarm" ELSE "restore"
      BY <1>4 DEF Account, SaysZone
    <3>3. After(f, said[Len(outbox)])[p] = IF f # TestFrame /\ f.point = p THEN f.kind
                                                                    ELSE said[Len(outbox)][p]
      <4> HIDE DEF AmcTypeOK
      <4>1. CASE f = TestFrame
        BY <2>3, <4>1, AfterTypes
      <4>2. CASE f # TestFrame
        BY <2>3, <4>2, AfterTypes
      <4> QED BY <4>1, <4>2
    <3>4. f # TestFrame => f.kind \in {"alarm", "restore"}
      BY FrameTypes
    <3> QED BY <1>7, <3>1, <3>2, <3>3, <3>4
  <2>9. InTurn(later)'
    <3>1. later[0] = said[0]
      BY <1>5, <2>5
    <3>2. InTurn(said)
      BY <1>4 DEF Account
    <3> QED BY <1>1, <3>1, <3>2 DEF InTurn, threadVars
  <2>10. PaysFor(later)'
    <3> SUFFICES ASSUME NEW p \in Points
                 PROVE  due'[p] >= Cardinality(Claims(p)) + Cardinality(NewAlarms(outbox', later, p))
                                     + One(said[0][p] = "alarm" /\ p \notin keys)
      BY <1>1, <1>2, <1>5, <2>5 DEF PaysFor
    <3>1. due[p] >= Cardinality(Claims(p)) + Cardinality(NewAlarms(outbox, said, p))
                       + One(said[0][p] = "alarm" /\ p \notin keys)
      BY <1>4 DEF Account, PaysFor
    <3>2. Cardinality(Claims(p)) \in Nat
      BY ClaimsFinite DEF Claims
    <3>3. /\ IsFiniteSet(NewAlarms(outbox, said, p))
          /\ Cardinality(NewAlarms(outbox, said, p)) \in Nat
      BY NewFinite
    <3>4. One(said[0][p] = "alarm" /\ p \notin keys) \in 0 .. 1 /\ due[p] \in Int
      BY DEF One, ActivationInv
    <3>5. NewAlarms(outbox', later, p) \subseteq NewAlarms(outbox, said, p) \cup {Len(outbox) + 1}
      BY <1>5, <2>1, <2>5 DEF NewAlarms
    <3>6. CASE due'[p] = due[p] + 1
      <4>1. /\ Cardinality(NewAlarms(outbox', later, p)) \in Nat
            /\ Cardinality(NewAlarms(outbox', later, p))
                  <= Cardinality(NewAlarms(outbox, said, p)) + 1
        BY <3>3, <3>5, CountAdd
      <4> QED BY <3>1, <3>2, <3>3, <3>4, <3>6, <4>1
    <3>7. CASE due'[p] = due[p] /\ (f # Alarm(p) \/ said[Len(outbox)][p] = "alarm")
      <4>1. Len(outbox) + 1 \notin NewAlarms(outbox', later, p)
        BY <1>5, <2>1, <2>5, <3>7 DEF NewAlarms
      <4>2. NewAlarms(outbox', later, p) \subseteq NewAlarms(outbox, said, p)
        BY <3>5, <4>1
      <4>3. /\ Cardinality(NewAlarms(outbox', later, p)) \in Nat
            /\ Cardinality(NewAlarms(outbox', later, p))
                  <= Cardinality(NewAlarms(outbox, said, p))
        BY <3>3, <4>2, CountSub
      <4> QED BY <3>1, <3>2, <3>3, <3>4, <3>7, <4>3
    <3> QED BY <1>7, <3>6, <3>7
  <2> QED BY <1>3, <1>7, <2>6, <2>7, <2>8, <2>9, <2>10 DEF ActivationInv, Account
<1>8. ASSUME NEW p \in Points, Change(p) PROVE ActivationInv'
  <2>1. PICK f : f = [kind |-> IF zone[p] = "normal" THEN "alarm" ELSE "restore", point |-> p]
    OBVIOUS
  <2>2. f \in Frames /\ outbox' = Append(outbox, f)
    BY <1>8, <2>1 DEF Change
  <2>3. /\ f # TestFrame /\ f.point = p
        /\ f.kind = IF zone[p] = "normal" THEN "alarm" ELSE "restore"
    BY <2>1 DEF TestFrame
  <2>4. \A q \in Points : f = Alarm(q) => q = p /\ zone[p] = "normal"
    BY <2>2, <2>3, FrameIsAlarm
  <2>5. /\ due' \in [Points -> Int]
        /\ \A q \in Points : due'[q] = IF q = p /\ zone[p] = "normal" THEN due[q] + 1 ELSE due[q]
    BY <1>8 DEF Change, ActivationInv
  <2>6. \A q \in Points : zone'[q] = IF q = p THEN IF zone[p] = "alarm" THEN "normal" ELSE "alarm"
                                              ELSE zone[q]
    BY <1>8 DEF Change
  <2>7. \A q \in Points : due'[q] = due[q] + 1 \/ (due'[q] = due[q] /\ f # Alarm(q))
    BY <2>4, <2>5
  <2> QED BY <1>7, <2>2, <2>3, <2>5, <2>6, <2>7
<1>9. ASSUME NEW p \in Points, Repeat(p) PROVE ActivationInv'
  <2>1. /\ outbox = << >> /\ outbox' = <<Alarm(p)>> /\ zone[p] = "alarm"
        /\ UNCHANGED <<zone, due>>
    BY <1>9 DEF Repeat, Alarm, counts
  <2>2. Alarm(p) \in Frames /\ outbox' = Append(outbox, Alarm(p))
    BY <2>1 DEF Alarm
  <2>3. Alarm(p) # TestFrame /\ Alarm(p).point = p /\ Alarm(p).kind = "alarm"
    BY DEF Alarm, TestFrame
  <2>4. said[Len(outbox)][p] = "alarm"
    BY <1>4, <2>1 DEF Account, SaysZone
  <2>5. \A q \in Points : Alarm(p) = Alarm(q) => q = p
    BY DEF Alarm
  <2>6. due' \in [Points -> Int]
    BY <2>1 DEF ActivationInv
  <2> QED BY <1>7, <2>1, <2>2, <2>3, <2>4, <2>5, <2>6
<1>10. CASE Test
  <2>1. outbox' = Append(outbox, TestFrame) /\ UNCHANGED <<zone, due>>
    BY <1>10 DEF Test, counts
  <2>2. \A q \in Points : TestFrame # Alarm(q)
    BY FrameIsAlarm
  <2>3. due' \in [Points -> Int]
    BY <2>1 DEF ActivationInv
  <2> QED BY <1>7, <2>1, <2>2, <2>3
<1> QED BY <1>6, <1>8, <1>9, <1>10 DEF AlarmPanel

(* A frame that is received takes its turn: those that it overtakes, or    *)
(* that the panel will have to send again, are paid for.                   *)
LEMMA ReceivePays ==
  ASSUME AmcTypeOK, ActivationInv, NEW t \in Threads, Receive(t)
  PROVE  ActivationInv'
<1> USE FrameTypes DEF AmcTypeOK
<1>1. PICK said \in Histories(outbox) : Account(said)
  BY DEF ActivationInv
<1>2. PICK f : f = Head(outbox)
  OBVIOUS
<1>3. /\ outbox # << >> /\ at[t] = "idle" /\ order[t] = "alone"
      /\ at' = [at EXCEPT ![t] = "update"]
      /\ frame' = [frame EXCEPT ![t] = f]
      /\ outbox' = Tail(outbox) \/ outbox' = outbox
      /\ UNCHANGED <<zone, keys>>
  BY <1>2 DEF Receive, ActivationInv
<1>4. /\ Len(outbox) \in Nat \ {0}
      /\ f = outbox[1] /\ f \in Frames
      /\ said \in [0 .. Len(outbox) -> [Points -> Kinds]]
  BY <1>1, <1>2, <1>3 DEF Histories
<1> DEFINE passed == {u \in Threads : at[u] # "idle" /\ Contrary(frame[u], f)}
           fresh  == {u \in passed : order[u] # "overtaken"}
<1>5. /\ order' = [u \in Threads |-> IF u \in passed THEN "overtaken"
                                     ELSE IF u = t /\ passed # {} THEN "newer"
                                     ELSE order[u]]
      /\ due' = IF Cardinality(fresh) = 0 THEN due
                ELSE [due EXCEPT ![f.point] = @ + Cardinality(fresh)]
  BY <1>2 DEF Receive
<1>6. IsFiniteSet(fresh) /\ Cardinality(fresh) \in Nat
  BY ClaimsFinite
<1>7. f = TestFrame => Cardinality(fresh) = 0
  <2> SUFFICES ASSUME f = TestFrame PROVE fresh = {}
    BY FS_EmptySet
  <2> QED BY DEF Contrary
<1>8. /\ due' \in [Points -> Int]
      /\ \A p \in Points : due'[p] = IF f # TestFrame /\ p = f.point
                                     THEN due[p] + Cardinality(fresh) ELSE due[p]
  <2> HIDE DEF fresh
  <2>1. due \in [Points -> Int]
    BY DEF ActivationInv
  <2>2. f # TestFrame => f.point \in Points
    BY <1>4
  <2> QED BY <1>5, <1>6, <1>7, <2>1, <2>2
<1>9. \A u \in Threads : at'[u] = "idle" => order'[u] = "alone"
  BY <1>3, <1>5 DEF ActivationInv
<1>10. t \notin passed
  BY <1>3
<1>11. outbox' # outbox => /\ Len(outbox') = Len(outbox) - 1
                           /\ \A n \in 1 .. Len(outbox) - 1 : outbox'[n] = outbox[n + 1]
  <2>1. outbox \in Seq(Frames)
    OBVIOUS
  <2> HIDE DEF AmcTypeOK
  <2>2. Len(Tail(outbox)) = Len(outbox) - 1
    BY <1>3, <2>1
  <2>3. \A n \in 1 .. Len(outbox) - 1 : Tail(outbox)[n] = outbox[n + 1]
    BY <1>3, <2>1
  <2> QED BY <1>3, <2>2, <2>3, Zenon
(* The frame is the last word now. *)
<1>12. /\ said[0] \in [Points -> Kinds] /\ said[1] \in [Points -> Kinds]
       /\ said[1] = After(f, said[0])
  BY <1>1, <1>4 DEF Account, Follows
<1>13. PICK later : later = IF outbox' = outbox THEN [said EXCEPT ![0] = said[1]]
                            ELSE [n \in 0 .. Len(outbox) - 1 |-> said[n + 1]]
  OBVIOUS
<1>14. later[0] = said[1] /\ later \in Histories(outbox')
  <2>1. CASE outbox' = outbox
    BY <1>4, <1>12, <1>13, <2>1 DEF Histories
  <2>2. CASE outbox' # outbox
    <3>1. Len(outbox') = Len(outbox) - 1
      BY <1>11, <2>2
    <3> QED BY <1>4, <1>13, <2>2, <3>1 DEF Histories
  <2> QED BY <2>1, <2>2
<1>15. Follows(outbox', later)
  <2>1. \A n \in 1 .. Len(outbox) : said[n] = After(outbox[n], said[n - 1])
    BY <1>1 DEF Account, Follows
  <2>2. CASE outbox' = outbox
    <3> SUFFICES ASSUME NEW n \in 1 .. Len(outbox) PROVE later[n] = After(outbox[n], later[n - 1])
      BY <2>2 DEF Follows
    <3>1. later[n] = said[n] /\ (n # 1 => later[n - 1] = said[n - 1])
      BY <1>4, <1>13, <2>2
    <3>2. CASE n # 1
      BY <2>1, <3>1, <3>2
    <3>3. CASE n = 1
      <4>1. later[1] = After(f, said[0]) /\ later[0] = After(f, said[0])
        BY <1>12, <1>14, <3>1, <3>3
      <4>2. After(f, After(f, said[0])) = After(f, said[0])
        BY <1>4, <1>12 DEF After
      <4> QED BY <1>4, <3>3, <4>1, <4>2
    <3> QED BY <3>2, <3>3
  <2>3. CASE outbox' # outbox
    <3>1. /\ Len(outbox') = Len(outbox) - 1
          /\ \A n \in 1 .. Len(outbox) - 1 : outbox'[n] = outbox[n + 1]
      BY <1>11, <2>3
    <3>2. \A n \in 0 .. Len(outbox) - 1 : later[n] = said[n + 1]
      BY <1>13, <2>3
    <3> SUFFICES ASSUME NEW n \in 1 .. Len(outbox) - 1
                 PROVE  later[n] = After(outbox'[n], later[n - 1])
      BY <3>1 DEF Follows
    <3>3. /\ later[n] = said[n + 1] /\ later[n - 1] = said[n]
          /\ outbox'[n] = outbox[n + 1] /\ n + 1 \in 1 .. Len(outbox)
      BY <1>4, <3>1, <3>2
    <3>4. said[n + 1] = After(outbox[n + 1], said[(n + 1) - 1])
      BY <2>1, <3>3
    <3> QED BY <3>3, <3>4
  <2> QED BY <2>2, <2>3
<1>16. SaysZone(later)'
  <2>1. later[Len(outbox')] = said[Len(outbox)]
    <3>1. CASE outbox' = outbox
      BY <1>4, <1>13, <3>1
    <3>2. CASE outbox' # outbox
      <4>1. Len(outbox') = Len(outbox) - 1
        BY <1>11, <3>2
      <4> QED BY <1>4, <1>13, <3>2, <4>1
    <3> QED BY <3>1, <3>2
  <2> QED BY <1>1, <1>3, <2>1 DEF SaysZone, Account
<1>17. InTurn(later)'
  <2> SUFFICES ASSUME NEW u \in Threads, at'[u] # "idle", order'[u] # "overtaken",
                      frame'[u] # TestFrame
               PROVE  frame'[u].kind = said[1][frame'[u].point]
    BY <1>14 DEF InTurn
  <2>1. CASE u = t
    BY <1>3, <1>4, <1>12, <2>1, AfterTypes
  <2>2. CASE u # t
    <3>1. /\ at[u] # "idle" /\ frame'[u] = frame[u] /\ frame[u] # TestFrame
          /\ order[u] # "overtaken" /\ u \notin passed
      BY <1>3, <1>5, <2>2
    <3>2. frame[u].kind = said[0][frame[u].point]
      BY <1>1, <3>1 DEF Account, InTurn
    <3>3. frame[u].point \in Points
      BY <3>1
    <3>4. ~ Contrary(frame[u], f)
      BY <3>1
    <3>5. \/ f = TestFrame
          \/ f # TestFrame /\ f.point # frame[u].point
          \/ f # TestFrame /\ f.kind = frame[u].kind
      BY <3>1, <3>4 DEF Contrary
    <3> QED BY <1>4, <1>12, <3>1, <3>2, <3>3, <3>5, AfterTypes
  <2> QED BY <2>1, <2>2
<1>18. PaysFor(later)'
  <2> SUFFICES ASSUME NEW p \in Points
               PROVE  due'[p] >= Cardinality(Claims(p)') + Cardinality(NewAlarms(outbox', later, p))
                                   + One(said[1][p] = "alarm" /\ p \notin keys)
    BY <1>3, <1>14 DEF PaysFor
  <2>1. due[p] >= Cardinality(Claims(p)) + Cardinality(NewAlarms(outbox, said, p))
                     + One(said[0][p] = "alarm" /\ p \notin keys)
    BY <1>1 DEF Account, PaysFor
  <2>2. IsFiniteSet(Claims(p)) /\ Cardinality(Claims(p)) \in Nat
    BY ClaimsFinite DEF Claims
  <2>3. ASSUME NEW u \in Claims(p)' PROVE u \in Claims(p) \/ (u \in fresh /\ p = f.point)
    <3>1. u \in Threads /\ u # t
      BY <1>3, <1>5, <1>10, <2>3 DEF Claims
    <3>2. at'[u] = at[u] /\ frame'[u] = frame[u]
      BY <1>3, <3>1
    <3>3. CASE at[u] = "insert" /\ frame[u] = Alarm(p)
      BY <3>1, <3>3 DEF Claims
    <3>4. CASE /\ at[u] \in {"update", "hook"} /\ order'[u] = "overtaken"
               /\ frame[u] # TestFrame /\ frame[u].point = p
      <4>1. CASE order[u] = "overtaken"
        BY <3>1, <3>4, <4>1 DEF Claims
      <4>2. CASE order[u] # "overtaken"
        <5>1. u \in passed
          BY <1>5, <3>1, <3>4, <4>2
        <5> QED BY <3>4, <4>2, <5>1 DEF Contrary
      <4> QED BY <4>1, <4>2
    <3> QED BY <2>3, <3>2, <3>3, <3>4 DEF Claims
  <2>4. /\ Cardinality(Claims(p)') \in Nat
        /\ due'[p] - Cardinality(Claims(p)') >= due[p] - Cardinality(Claims(p))
    <3> HIDE DEF fresh
    <3>1. f # TestFrame => f.point \in Points
      BY <1>4
    <3>2. due[p] \in Int /\ Claims(p)' \subseteq Claims(p) \cup fresh
      BY <2>3 DEF ActivationInv
    <3>3. /\ Cardinality(Claims(p)') \in Nat
          /\ Cardinality(Claims(p)') <= Cardinality(Claims(p)) + Cardinality(fresh)
      BY <1>6, <2>2, <3>2, CountUnion
    <3>4. CASE f # TestFrame /\ p = f.point
      BY <1>6, <1>8, <2>2, <3>2, <3>3, <3>4
    <3>5. CASE ~ (f # TestFrame /\ p = f.point)
      <4>1. due'[p] = due[p]
        BY <1>8, <3>5
      <4>2. Claims(p)' \subseteq Claims(p)
        <5>1. CASE f = TestFrame
          <6>1. fresh = {}
            BY <1>6, <1>7, <5>1, FS_EmptySet
          <6> QED BY <3>2, <6>1
        <5>2. CASE p # f.point
          BY <2>3, <5>2
        <5> QED BY <3>5, <5>1, <5>2
      <4>3. Cardinality(Claims(p)') <= Cardinality(Claims(p))
        BY <2>2, <4>2, CountSub
      <4> QED BY <2>2, <3>2, <3>3, <4>1, <4>3
    <3> QED BY <3>4, <3>5
  <2>5. /\ IsFiniteSet(NewAlarms(outbox, said, p) \ {1})
        /\ Cardinality(NewAlarms(outbox, said, p)) \in Nat
        /\ Cardinality(NewAlarms(outbox, said, p) \ {1}) =
              Cardinality(NewAlarms(outbox, said, p))
                - One(1 \in NewAlarms(outbox, said, p))
    <3>1. /\ IsFiniteSet(NewAlarms(outbox, said, p))
          /\ Cardinality(NewAlarms(outbox, said, p)) \in Nat
      BY NewFinite
    <3> QED BY <3>1, FS_RemoveElement DEF One
  <2>6. /\ Cardinality(NewAlarms(outbox', later, p)) \in Nat
        /\ Cardinality(NewAlarms(outbox', later, p))
              <= Cardinality(NewAlarms(outbox, said, p) \ {1})
    <3>1. CASE outbox' = outbox
      <4>1. \A n \in 1 .. Len(outbox) : n # 1 => later[n - 1] = said[n - 1]
        BY <1>4, <1>13, <3>1
      <4>2. outbox[1] = Alarm(p) => later[0][p] # "restore"
        BY <1>4, <1>12, <1>14, AfterTypes, FrameIsAlarm
      <4>3. NewAlarms(outbox', later, p) \subseteq NewAlarms(outbox, said, p) \ {1}
        BY <1>4, <3>1, <4>1, <4>2 DEF NewAlarms
      <4> QED BY <2>5, <4>3, CountSub
    <3>2. CASE outbox' # outbox
      <4>1. /\ Len(outbox') = Len(outbox) - 1
            /\ \A n \in 1 .. Len(outbox) - 1 : outbox'[n] = outbox[n + 1]
        BY <1>11, <3>2
      <4>2. \A n \in 0 .. Len(outbox) - 1 : later[n] = said[n + 1]
        BY <1>13, <3>2
      <4>3. ASSUME NEW n \in NewAlarms(outbox', later, p)
            PROVE  n \in Nat /\ n + 1 \in NewAlarms(outbox, said, p) \ {1}
        <5>1. /\ n \in 1 .. Len(outbox) - 1 /\ outbox'[n] = Alarm(p)
              /\ later[n - 1][p] = "restore"
          BY <4>1, <4>3 DEF NewAlarms
        <5>2. /\ outbox[n + 1] = Alarm(p) /\ said[n][p] = "restore"
              /\ n + 1 \in 1 .. Len(outbox) /\ (n + 1) - 1 = n /\ n + 1 # 1
          BY <1>4, <4>1, <4>2, <5>1
        <5> QED BY <1>4, <5>1, <5>2 DEF NewAlarms
      <4>4. NewAlarms(outbox', later, p) \subseteq Nat
        BY <4>3
      <4> QED BY <2>5, <4>3, <4>4, CountShift
    <3> QED BY <3>1, <3>2
  <2>7. One(said[1][p] = "alarm" /\ p \notin keys)
          <= One(1 \in NewAlarms(outbox, said, p)) + One(said[0][p] = "alarm" /\ p \notin keys)
    <3>1. said[0][p] \in Kinds
      BY <1>12
    <3>2. CASE said[1][p] = said[0][p]
      BY <3>2 DEF One
    <3>3. CASE said[1][p] # said[0][p] /\ said[1][p] = "alarm"
      <4>1. f # TestFrame /\ f.point = p /\ f.kind = "alarm"
        BY <1>4, <1>12, <3>3, AfterTypes
      <4>2. outbox[1] = Alarm(p) /\ said[0][p] = "restore"
        BY <1>4, <3>1, <3>3, <4>1, FrameIsAlarm DEF Kinds
      <4>3. 1 \in NewAlarms(outbox, said, p)
        BY <1>4, <4>2 DEF NewAlarms
      <4> QED BY <4>3 DEF One
    <3>4. CASE said[1][p] # "alarm"
      BY <3>4 DEF One
    <3> QED BY <3>2, <3>3, <3>4
  <2>8. /\ One(said[1][p] = "alarm" /\ p \notin keys) \in 0 .. 1
        /\ One(said[0][p] = "alarm" /\ p \notin keys) \in 0 .. 1
        /\ One(1 \in NewAlarms(outbox, said, p)) \in 0 .. 1
        /\ due[p] \in Int /\ due'[p] \in Int
    BY <1>8 DEF One, ActivationInv
  <2> QED BY <2>1, <2>2, <2>4, <2>5, <2>6, <2>7, <2>8
<1> QED BY <1>8, <1>9, <1>14, <1>15, <1>16, <1>17, <1>18 DEF ActivationInv, Account

(* A connection that reports an alarm gives up its claim; one that clears  *)
(* the key, when the panel says alarm, has been overtaken.                 *)
LEMMA ProcessPays ==
  ASSUME AmcTypeOK, ActivationInv, NEW t \in Threads, Process(t)
  PROVE  ActivationInv'
<1> USE FrameTypes DEF AmcTypeOK
<1>1. PICK said \in Histories(outbox) : Account(said)
  BY DEF ActivationInv
<1>2. UNCHANGED <<zone, outbox>>
  BY DEF Process, Update, Suppress, PassAlarm, PassOther, Store, StoreFails, panelVars
<1>3. \A u \in Threads : u # t => UNCHANGED <<at[u], frame[u], order[u]>>
  BY DEF Process, Update, Suppress, PassAlarm, PassOther, Store, StoreFails, Done
<1>4. /\ at[t] # "idle"
      /\ \/ at'[t] = "idle" /\ order'[t] = "alone"
         \/ at'[t] # "idle" /\ frame'[t] = frame[t] /\ order'[t] = order[t]
  BY DEF Process, Update, Suppress, PassAlarm, PassOther, Store, StoreFails, Done
<1>5. \A u \in Threads : at'[u] = "idle" => order'[u] = "alone"
  BY <1>3, <1>4 DEF ActivationInv
<1>6. InTurn(said)'
  <2> SUFFICES ASSUME NEW u \in Threads, at'[u] # "idle", order'[u] # "overtaken",
                      frame'[u] # TestFrame
               PROVE  frame'[u].kind = said[0][frame'[u].point]
    BY DEF InTurn
  <2>1. at[u] # "idle" /\ frame'[u] = frame[u] /\ order'[u] = order[u]
    BY <1>3, <1>4
  <2> QED BY <1>1, <2>1 DEF Account, InTurn
<1>7. due' \in [Points -> Int]
  BY DEF Process, Update, Suppress, PassAlarm, PassOther, Store, StoreFails, counts,
         ActivationInv
<1>8. PaysFor(said)'
  <2> SUFFICES ASSUME NEW p \in Points
               PROVE  due'[p] >= Cardinality(Claims(p)') + Cardinality(NewAlarms(outbox, said, p))
                                   + One(said[0][p] = "alarm" /\ p \notin keys')
    BY <1>2 DEF PaysFor
  <2>1. due[p] >= Cardinality(Claims(p)) + Cardinality(NewAlarms(outbox, said, p))
                     + One(said[0][p] = "alarm" /\ p \notin keys)
    BY <1>1 DEF Account, PaysFor
  <2>2. /\ IsFiniteSet(Claims(p))
        /\ Cardinality(Claims(p)) \in Nat
        /\ Cardinality(Claims(p)') \in Nat
        /\ Cardinality(NewAlarms(outbox, said, p)) \in Nat
        /\ due[p] \in Int
        /\ said[0][p] \in Kinds
    <3>1. said[0] \in [Points -> Kinds]
      BY <1>1 DEF Histories
    <3> QED BY <3>1, ClaimsFinite, NewFinite DEF Claims, ActivationInv
  <2>3. /\ One(said[0][p] = "alarm" /\ p \notin keys) \in 0 .. 1
        /\ One(said[0][p] = "alarm" /\ p \notin keys') \in 0 .. 1
    BY DEF One
  <2>4. \A u : u # t /\ u \in Claims(p)' => u \in Claims(p)
    BY <1>3 DEF Claims
  (* The connection makes no new claim, or gives one up. *)
  <2>5. ASSUME t \notin Claims(p)' \/ t \in Claims(p)
        PROVE  Cardinality(Claims(p)') <= Cardinality(Claims(p))
    <3>1. Claims(p)' \subseteq Claims(p)
      BY <2>4, <2>5
    <3> QED BY <2>2, <3>1, CountSub
  <2>6. ASSUME t \notin Claims(p)', t \in Claims(p)
        PROVE  Cardinality(Claims(p)') <= Cardinality(Claims(p)) - 1
    <3>1. Claims(p)' \subseteq Claims(p) \ {t}
      BY <2>4, <2>6
    <3> QED BY <2>2, <2>6, <3>1, CountDrop
  <2>7. Cardinality(Claims(p)') <= Cardinality(Claims(p)) + 1
    <3>1. Claims(p)' \subseteq Claims(p) \cup {t}
      BY <2>4
    <3> QED BY <2>2, <3>1, CountAdd
  <2>8. CASE Update(t) \/ Suppress(t) \/ StoreFails(t)
    <3>1. keys' = keys /\ due' = due
      BY <2>8 DEF Update, Suppress, StoreFails, counts
    <3>2. t \notin Claims(p)' \/ t \in Claims(p)
      BY <2>8 DEF Update, Suppress, StoreFails, Done, Claims
    <3> QED BY <2>1, <2>2, <2>3, <2>5, <3>1, <3>2
  <2>9. CASE PassAlarm(t)
    <3>1. /\ at[t] = "hook" /\ frame[t] # TestFrame
          /\ frame[t].kind = "alarm" /\ frame[t].point \notin keys
          /\ keys' = keys \cup {frame[t].point} /\ due' = due
          /\ UNCHANGED <<frame, order>>
      BY <2>9 DEF PassAlarm, counts
    <3>2. CASE frame[t].point # p
      <4>1. t \notin Claims(p)'
        BY <3>1, <3>2, FrameIsAlarm DEF Claims
      <4>2. p \in keys' <=> p \in keys
        BY <3>1, <3>2
      <4> QED BY <2>1, <2>2, <2>5, <3>1, <4>1, <4>2 DEF One
    <3>3. CASE frame[t].point = p /\ order[t] = "overtaken"
      <4>1. t \in Claims(p)
        BY <3>1, <3>3 DEF Claims
      <4>2. One(said[0][p] = "alarm" /\ p \notin keys') = 0
        BY <3>1, <3>3 DEF One
      <4> QED BY <2>1, <2>2, <2>3, <2>5, <3>1, <4>1, <4>2
    <3>4. CASE frame[t].point = p /\ order[t] # "overtaken"
      <4>1. said[0][p] = "alarm"
        BY <1>1, <3>1, <3>4 DEF Account, InTurn
      <4>2. /\ One(said[0][p] = "alarm" /\ p \notin keys) = 1
            /\ One(said[0][p] = "alarm" /\ p \notin keys') = 0
        BY <3>1, <3>4, <4>1 DEF One
      <4> QED BY <2>1, <2>2, <2>7, <3>1, <4>2
    <3> QED BY <3>2, <3>3, <3>4
  <2>10. CASE PassOther(t)
    <3>1. /\ at[t] = "hook" /\ at'[t] = "insert"
          /\ frame[t] = TestFrame \/ frame[t].kind = "restore"
          /\ keys' = IF frame[t] = TestFrame \/ fitted = "ADM-CID" THEN keys
                                                                  ELSE keys \ {frame[t].point}
          /\ due' = due
          /\ UNCHANGED <<frame, order>>
      BY <2>10 DEF PassOther, counts
    <3>2. t \notin Claims(p)'
      BY <3>1, FrameIsAlarm DEF Claims
    <3>3. CASE p \notin keys' => p \notin keys
      <4>1. One(said[0][p] = "alarm" /\ p \notin keys')
               <= One(said[0][p] = "alarm" /\ p \notin keys)
        BY <3>3 DEF One
      <4> QED BY <2>1, <2>2, <2>3, <2>5, <3>1, <3>2, <4>1
    <3>4. CASE p \notin keys' /\ p \in keys
      <4>1. frame[t] # TestFrame /\ frame[t].point = p /\ frame[t].kind = "restore"
        BY <3>1, <3>4
      <4>2. CASE order[t] = "overtaken"
        <5>1. t \in Claims(p)
          BY <3>1, <4>1, <4>2 DEF Claims
        <5> QED BY <2>1, <2>2, <2>3, <2>6, <3>1, <3>2, <5>1
      <4>3. CASE order[t] # "overtaken"
        <5>1. said[0][p] = "restore"
          BY <1>1, <3>1, <4>1, <4>3 DEF Account, InTurn
        <5>2. One(said[0][p] = "alarm" /\ p \notin keys') = 0
          BY <5>1 DEF One
        <5> QED BY <2>1, <2>2, <2>3, <2>5, <3>1, <3>2, <5>2
      <4> QED BY <4>2, <4>3
    <3> QED BY <3>3, <3>4
  <2>11. CASE Store(t)
    <3>1. /\ at[t] = "insert" /\ at'[t] = "idle" /\ keys' = keys
          /\ due' = IF frame[t] = TestFrame THEN due
                    ELSE [due EXCEPT ![frame[t].point] =
                             IF frame[t].kind = "alarm" THEN @ - 1 ELSE @]
      BY <2>11 DEF Store, Done
    <3>2. t \notin Claims(p)'
      BY <3>1 DEF Claims
    <3>3. CASE frame[t] = Alarm(p)
      <4>1. t \in Claims(p)
        BY <3>1, <3>3 DEF Claims
      <4>2. due'[p] = due[p] - 1
        BY <3>1, <3>3, FrameIsAlarm DEF ActivationInv
      <4> QED BY <2>1, <2>2, <2>3, <2>6, <3>1, <3>2, <4>1, <4>2
    <3>4. CASE frame[t] # Alarm(p)
      <4>1. due'[p] = due[p]
        <5>1. CASE frame[t] = TestFrame
          BY <3>1, <5>1
        <5>2. CASE frame[t] # TestFrame
          <6>1. frame[t].kind # "alarm" \/ frame[t].point # p
            BY <3>4, <5>2, FrameIsAlarm
          <6> QED BY <3>1, <5>2, <6>1 DEF ActivationInv
        <5> QED BY <5>1, <5>2
      <4> QED BY <2>1, <2>2, <2>3, <2>5, <3>1, <3>2, <4>1
    <3> QED BY <3>3, <3>4
  <2> QED BY <2>8, <2>9, <2>10, <2>11 DEF Process
<1>9. Account(said)'
  <2>1. Follows(outbox', said) /\ SaysZone(said)'
    BY <1>1, <1>2 DEF Account, SaysZone
  <2> QED BY <1>6, <1>8, <2>1 DEF Account
<1> QED BY <1>1, <1>2, <1>5, <1>7, <1>9 DEF ActivationInv

(* A restart forgets the keys and every claim, and is counted.             *)
LEMMA RestartPays ==
  ASSUME AmcTypeOK, ActivationInv, Stopped, UNCHANGED panelVars
  PROVE  ActivationInv'
<1> USE DEF AmcTypeOK
<1>1. PICK said \in Histories(outbox) : Account(said)
  BY DEF ActivationInv
<1>2. /\ UNCHANGED <<zone, outbox>>
      /\ at' = [t \in Threads |-> "idle"] /\ order' = [t \in Threads |-> "alone"]
      /\ due' = [p \in Points |-> due[p] + 1]
  BY DEF Stopped, panelVars
<1>3. due' \in [Points -> Int]
  BY <1>2 DEF ActivationInv
<1>4. \A p \in Points : Claims(p)' = {}
  BY <1>2 DEF Claims
<1>5. PaysFor(said)'
  <2> SUFFICES ASSUME NEW p \in Points
               PROVE  due'[p] >= Cardinality(Claims(p)') + Cardinality(NewAlarms(outbox, said, p))
                                   + One(said[0][p] = "alarm" /\ p \notin keys')
    BY <1>2 DEF PaysFor
  <2>1. due[p] >= Cardinality(Claims(p)) + Cardinality(NewAlarms(outbox, said, p))
                     + One(said[0][p] = "alarm" /\ p \notin keys)
    BY <1>1 DEF Account, PaysFor
  <2>2. Cardinality(Claims(p)') = 0
    BY <1>4, FS_EmptySet
  <2>3. /\ Cardinality(Claims(p)) \in Nat
        /\ Cardinality(NewAlarms(outbox, said, p)) \in Nat
        /\ due[p] \in Int /\ due'[p] = due[p] + 1
    BY <1>2, ClaimsFinite, NewFinite DEF Claims, ActivationInv
  <2>4. /\ One(said[0][p] = "alarm" /\ p \notin keys) \in 0 .. 1
        /\ One(said[0][p] = "alarm" /\ p \notin keys') \in 0 .. 1
    BY DEF One
  <2> QED BY <2>1, <2>2, <2>3, <2>4
<1>6. Account(said)'
  <2>1. Follows(outbox', said) /\ SaysZone(said)' /\ InTurn(said)'
    BY <1>1, <1>2 DEF Account, SaysZone, InTurn
  <2> QED BY <1>5, <2>1 DEF Account
<1> QED BY <1>1, <1>2, <1>3, <1>6 DEF ActivationInv

(* So every step keeps the account.                                        *)
LEMMA ActivationStep == AmcTypeOK /\ ActivationInv /\ [AmcNext]_everything => ActivationInv'
<1> SUFFICES ASSUME AmcTypeOK, ActivationInv, [AmcNext]_everything PROVE ActivationInv'
  OBVIOUS
(* Where neither the panel nor a connection has moved. *)
<1>1. ASSUME UNCHANGED <<zone, outbox, threadVars, keys, due>> PROVE ActivationInv'
  <2>1. PICK said \in Histories(outbox) : Account(said)
    BY DEF ActivationInv
  <2>2. \A p \in Points : Claims(p)' = Claims(p)
    BY <1>1 DEF Claims, threadVars
  <2>3. Account(said)'
    BY <1>1, <2>1, <2>2 DEF Account, SaysZone, InTurn, PaysFor, threadVars
  <2> QED BY <1>1, <2>1, <2>3 DEF ActivationInv, threadVars
<1>2. CASE UNCHANGED amcVars
  BY <1>1, <1>2 DEF amcVars, panelVars, counts
<1>3. CASE AlarmPanel
  BY <1>3, PanelPays
<1>4. ASSUME NEW t \in Threads, Receive(t) \/ Process(t) PROVE ActivationInv'
  BY <1>4, ReceivePays, ProcessPays
<1>5. CASE Supervise \/ Start
  BY <1>1, <1>5 DEF Supervise, Start, panelVars, counts
<1>6. CASE Crash \/ LcdToggles
  <2>1. UNCHANGED panelVars
    BY <1>6 DEF Crash, LcdToggles
  <2>2. CASE Stopped
    BY <2>1, <2>2, RestartPays
  <2>3. CASE UNCHANGED <<service, threadVars, keys, superVars, wrong, due>>
    BY <1>1, <2>1, <2>3 DEF panelVars
  <2> QED BY <1>6, <2>2, <2>3 DEF Crash, LcdToggles
<1> QED BY <1>2, <1>3, <1>4, <1>5, <1>6, StepCases DEF AmcActs, Integration

(* However many connections there are, and however often the panel sends   *)
(* or repeats an alarm: only its first activation is reported, and one     *)
(* more only for a restart or for a frame that was overtaken while it was  *)
(* processed (handle_client, dexter_event_hook, _active_alarm_keys).       *)
THEOREM OnlyFirstActivations == AmcSafeSpec => []FirstActivationOnly
<1>1. AmcInit => ActivationInv
  <2> SUFFICES ASSUME AmcInit PROVE ActivationInv
    OBVIOUS
  <2>1. /\ outbox = << >> /\ keys = {} /\ zone = [p \in Points |-> "normal"]
        /\ at = [t \in Threads |-> "idle"] /\ order = [t \in Threads |-> "alone"]
        /\ due = [p \in Points |-> 0]
    BY DEF AmcInit
  <2>2. PICK said : said = [n \in 0 .. 0 |-> [p \in Points |-> "restore"]]
    OBVIOUS
  <2>3. said \in Histories(outbox)
    BY <2>1, <2>2 DEF Histories, Kinds
  <2>4. Follows(outbox, said) /\ SaysZone(said) /\ InTurn(said)
    BY <2>1, <2>2 DEF Follows, SaysZone, InTurn
  <2>5. PaysFor(said)
    <3> SUFFICES ASSUME NEW p \in Points
                 PROVE  due[p] >= Cardinality(Claims(p)) + Cardinality(NewAlarms(outbox, said, p))
                                     + One(said[0][p] = "alarm" /\ p \notin keys)
      BY DEF PaysFor
    <3>1. Claims(p) = {} /\ NewAlarms(outbox, said, p) = {}
      BY <2>1 DEF Claims, NewAlarms
    <3>2. One(said[0][p] = "alarm" /\ p \notin keys) = 0
      BY <2>2 DEF One
    <3>3. Cardinality(Claims(p)) = 0 /\ Cardinality(NewAlarms(outbox, said, p)) = 0
      BY <3>1, FS_EmptySet
    <3> QED BY <2>1, <3>2, <3>3
  <2> QED BY <2>1, <2>3, <2>4, <2>5 DEF ActivationInv, Account
<1>2. AmcTypeOK /\ ActivationInv => FirstActivationOnly
  <2> SUFFICES ASSUME AmcTypeOK, ActivationInv, NEW p \in Points PROVE due[p] >= 0
    BY DEF FirstActivationOnly
  <2>1. PICK said \in Histories(outbox) : PaysFor(said)
    BY DEF ActivationInv, Account
  <2>2. /\ Cardinality(Claims(p)) \in Nat
        /\ Cardinality(NewAlarms(outbox, said, p)) \in Nat
        /\ due[p] \in Int
    BY ClaimsFinite, NewFinite DEF Claims, ActivationInv, AmcTypeOK
  <2>3. One(said[0][p] = "alarm" /\ p \notin keys) \in 0 .. 1
    BY DEF One
  <2> QED BY <2>1, <2>2, <2>3 DEF PaysFor
<1> QED BY <1>1, <1>2, ActivationStep, AmcTypeCorrect, PTL DEF AmcSafeSpec
=============================================================================
