--------------------------- MODULE AmcIntegration ---------------------------
(***************************************************************************)
(* The active integration of an AMC alarm panel (amc_integration.py), a    *)
(* process of its own: the panel sends frames over TCP, one thread for     *)
(* each connection acknowledges and processes them, a set of keys keeps    *)
(* the repetitions of an alarm away from ThingsBoard, and a supervision    *)
(* thread reports a panel that has fallen silent.                          *)
(*                                                                         *)
(* Not every device has such a panel.  On one that has, payloads.db shows  *)
(* only as whether insert_with_cap has stored the row.                     *)
(***************************************************************************)
EXTENDS PayloadQueue, Sequences

CONSTANTS Fitted,        (* which AMC panel there is: the cases looked at      *)
          Points,        (* an alarm of _REPEATING_ALARM_EVENTS, zone and area *)
          Threads,       (* the connections                                    *)
          MaxOutbox,     (* bounds of the model: frames the panel keeps,       *)
          MaxChanges,    (* alarms and restores,                               *)
          MaxRestarts,   (* crashes, and restarts asked for on the LCD,        *)
          MaxFaults      (* rows not stored, acknowledgements lost             *)

ASSUME AmcAssumption ==
    /\ Fitted \subseteq {"none", "SIA-DCS", "ADM-CID"}
    /\ IsFiniteSet(Threads)
    /\ MaxOutbox \in Nat \ {0}
    /\ MaxChanges \in Nat /\ MaxRestarts \in Nat /\ MaxFaults \in Nat

VARIABLES fitted,        (* the panel of the device, by its protocol           *)
          zone,          (* per point: whether it is in alarm                  *)
          outbox,        (* the frames the panel has not got acknowledged      *)
          flag,          (* active_integration_amc_bas                         *)
          service,       (* the container                                      *)
          at,            (* per thread: where handle_client stands             *)
          frame,         (* per thread: the frame it processes                 *)
          keys,          (* _active_alarm_keys                                 *)
          known,         (* the panel is in _panels                            *)
          online,        (* its PanelState.online                              *)
          silent,        (* its last_seen is over SUPERVISION_TIMEOUT ago      *)
          supervising,   (* the supervision thread lives                       *)
          last,          (* per point: what ThingsBoard is told last           *)
          told,          (* and of the panel as a whole                        *)
          order,         (* history, per thread: whether its frame has been in *)
                         (* hand together with one that says the contrary, as  *)
                         (* the "newer" only, or as the older ("overtaken")    *)
          wrong,         (* history, per point: a report was lost, or crossed  *)
          missed,        (* history: so was the last report of silence         *)
          due,           (* history, per point: activations, restarts and      *)
                         (* frames overtaken, less the alarms reported         *)
          tally          (* history: what the bounds count                     *)

panelVars   == <<zone, outbox>>
threadVars  == <<at, frame, order>>
superVars   == <<known, online, silent, supervising>>
reportVars  == <<last, told, wrong, missed>>
counts      == <<due, tally>>
amcVars == <<fitted, panelVars, flag, service, threadVars, keys, superVars, reportVars,
             counts>>

TestFrame == [kind |-> "test"]      (* SUPERVISORY_TEST, PERIODIC_TEST *)
Frames == [kind : {"alarm", "restore"}, point : Points] \cup {TestFrame}

Contrary(f, g) ==
    f # TestFrame /\ g # TestFrame /\ f.point = g.point /\ f.kind # g.kind

AmcInit ==
    /\ Init
    /\ fitted \in Fitted
    /\ zone = [p \in Points |-> "normal"]
    /\ outbox = << >>
    /\ flag \in BOOLEAN
    /\ service = "starting"
    /\ at = [t \in Threads |-> "idle"]
    /\ frame = [t \in Threads |-> TestFrame]
    /\ order = [t \in Threads |-> "alone"]
    /\ keys = {}
    /\ known = FALSE /\ online = FALSE /\ silent = FALSE
    /\ supervising = TRUE
    /\ last = [p \in Points |-> "none"]
    /\ told = "none"
    /\ wrong = [p \in Points |-> FALSE]
    /\ missed = FALSE
    /\ due = [p \in Points |-> 0]
    /\ tally = [changes |-> 0, restarts |-> 0, faults |-> 0]

Count(what) == tally' = [tally EXCEPT ![what] = @ + 1]
Fault == tally.faults < MaxFaults /\ Count("faults")
-----------------------------------------------------------------------------
(* The panel *)

Change(p) ==
    /\ Len(outbox) < MaxOutbox
    /\ tally.changes < MaxChanges
    /\ zone' = [zone EXCEPT ![p] = IF @ = "alarm" THEN "normal" ELSE "alarm"]
    /\ outbox' = Append(outbox,
                    [kind |-> IF zone[p] = "normal" THEN "alarm" ELSE "restore",
                     point |-> p])
    /\ Count("changes")
    /\ due' = [due EXCEPT ![p] = IF zone[p] = "normal" THEN @ + 1 ELSE @]
    /\ UNCHANGED <<flag, service, threadVars, keys, superVars, reportVars>>

(* "The AMC panel sends the same alarm event repeatedly at intervals while  *)
(* the zone is still active."                                              *)
Repeat(p) ==
    /\ outbox = << >>
    /\ zone[p] = "alarm"
    /\ outbox' = <<[kind |-> "alarm", point |-> p]>>
    /\ UNCHANGED <<zone, flag, service, threadVars, keys, superVars, reportVars, counts>>

Test ==
    /\ outbox = << >>
    /\ outbox' = <<TestFrame>>
    /\ UNCHANGED <<zone, flag, service, threadVars, keys, superVars, reportVars, counts>>

-----------------------------------------------------------------------------
(* A connection *)

(* A line is received and acknowledged, before anything is done about it.  *)
(* The panel keeps it, to send it again, if the acknowledgement is lost.   *)
(* The next may come over another connection while this one is processed.  *)
Receive(t) ==
    /\ service = "up"
    /\ at[t] = "idle"
    /\ outbox # << >>
    /\ at' = [at EXCEPT ![t] = "update"]
    /\ frame' = [frame EXCEPT ![t] = Head(outbox)]
    /\ LET passed == {u \in Threads : at[u] # "idle" /\ Contrary(frame[u], Head(outbox))}
           newly == Cardinality({u \in passed : order[u] # "overtaken"})
       IN  /\ order' = [u \in Threads |-> IF u \in passed THEN "overtaken"
                                          ELSE IF u = t /\ passed # {} THEN "newer"
                                          ELSE order[u]]
           /\ due' = IF newly = 0 THEN due ELSE [due EXCEPT ![Head(outbox).point] = @ + newly]
    /\ \/ outbox' = Tail(outbox) /\ UNCHANGED tally
       \/ Fault /\ UNCHANGED outbox
    /\ UNCHANGED <<zone, flag, service, keys, superVars, reportVars>>

Done(t) ==
    /\ at' = [at EXCEPT ![t] = "idle"]
    /\ frame' = [frame EXCEPT ![t] = TestFrame]
    /\ order' = [order EXCEPT ![t] = "alone"]

(* Mutant: online is set where a panel is registered, and not here. *)
Update_LeavesOffline(t) ==
    /\ at[t] = "update"
    /\ at' = [at EXCEPT ![t] = "hook"]
    /\ known' = TRUE
    /\ online' = IF known THEN online ELSE TRUE
    /\ silent' = FALSE
    /\ UNCHANGED <<panelVars, flag, service, frame, order, keys, supervising,
                   reportVars, counts>>

(* process_raw, under the lock of the panels. *)
Update(t) ==
    /\ at[t] = "update"
    /\ at' = [at EXCEPT ![t] = "hook"]
    /\ known' = TRUE /\ online' = TRUE /\ silent' = FALSE
    /\ UNCHANGED <<panelVars, flag, service, frame, order, keys, supervising,
                   reportVars, counts>>

(* A NULL frame only refreshes a panel that is in _panels already. *)
Null ==
    /\ service = "up"
    /\ known
    /\ online' = TRUE /\ silent' = FALSE
    /\ UNCHANGED <<panelVars, flag, service, threadVars, keys, known, supervising,
                   reportVars, counts>>

(* dexter_event_hook, up to the insert.  A CID event with the qualifier 3  *)
(* is named BURGLARY_ALARM_RESTORE: no member of _RESTORE_EVENTS.          *)
Suppress(t) ==
    /\ at[t] = "hook"
    /\ frame[t] # TestFrame
    /\ frame[t].kind = "alarm" /\ frame[t].point \in keys
    /\ Done(t)
    /\ UNCHANGED <<panelVars, flag, service, keys, superVars, reportVars, counts>>

(* Mutant: the key is looked up and not added. *)
PassAlarm_NoKey(t) ==
    /\ at[t] = "hook"
    /\ frame[t] # TestFrame
    /\ frame[t].kind = "alarm" /\ frame[t].point \notin keys
    /\ at' = [at EXCEPT ![t] = "insert"]
    /\ UNCHANGED <<panelVars, flag, service, frame, order, keys, superVars, reportVars,
                   counts>>

PassAlarm(t) ==
    /\ at[t] = "hook"
    /\ frame[t] # TestFrame
    /\ frame[t].kind = "alarm" /\ frame[t].point \notin keys
    /\ keys' = keys \cup {frame[t].point}
    /\ at' = [at EXCEPT ![t] = "insert"]
    /\ UNCHANGED <<panelVars, flag, service, frame, order, superVars, reportVars, counts>>

(* Mutant: a restore does not clear the key. *)
PassOther_KeepsKey(t) ==
    /\ at[t] = "hook"
    /\ frame[t] = TestFrame \/ frame[t].kind = "restore"
    /\ at' = [at EXCEPT ![t] = "insert"]
    /\ UNCHANGED <<panelVars, flag, service, frame, order, keys, superVars, reportVars,
                   counts>>

PassOther(t) ==
    /\ at[t] = "hook"
    /\ frame[t] = TestFrame \/ frame[t].kind = "restore"
    /\ keys' = IF frame[t] = TestFrame \/ fitted = "ADM-CID" THEN keys
                                                            ELSE keys \ {frame[t].point}
    /\ at' = [at EXCEPT ![t] = "insert"]
    /\ UNCHANGED <<panelVars, flag, service, frame, order, superVars, reportVars, counts>>

(* insert_with_cap stores the row, or swallows the error. *)
Store(t) ==
    /\ at[t] = "insert"
    /\ IF frame[t] = TestFrame
       THEN /\ told' = "online" /\ missed' = FALSE
            /\ UNCHANGED <<last, wrong, due>>
       ELSE /\ last' = [last EXCEPT ![frame[t].point] = frame[t].kind]
            /\ wrong' = [wrong EXCEPT ![frame[t].point] = order[t] # "alone"]
            /\ due' = [due EXCEPT ![frame[t].point] =
                          IF frame[t].kind = "alarm" THEN @ - 1 ELSE @]
            /\ UNCHANGED <<told, missed>>
    /\ Done(t)
    /\ UNCHANGED <<panelVars, flag, service, keys, superVars, tally>>

StoreFails(t) ==
    /\ at[t] = "insert"
    /\ Fault
    /\ wrong' = IF frame[t] = TestFrame THEN wrong
                ELSE [wrong EXCEPT ![frame[t].point] = TRUE]
    /\ Done(t)
    /\ UNCHANGED <<panelVars, flag, service, keys, superVars, last, told, missed, due>>

-----------------------------------------------------------------------------
(* The supervision *)

(* Ten minutes are longer than any call of a connection. *)
Elapse ==
    /\ known /\ ~ silent
    /\ \A t \in Threads : at[t] = "idle"
    /\ silent' = TRUE
    /\ UNCHANGED <<panelVars, flag, service, threadVars, keys, known, online, supervising,
                   reportVars, counts>>

(* The panel is offline before it is reported to be.  insert_json_to_db    *)
(* raises if it cannot open buffer.db, and the loop ends there for good;   *)
(* otherwise the report is lost only if both databases refuse it.          *)
Supervise ==
    /\ service = "up" /\ supervising
    /\ known /\ online /\ silent
    /\ online' = FALSE
    /\ \/ told' = "offline" /\ missed' = FALSE /\ UNCHANGED <<supervising, tally>>
       \/ Fault /\ missed' = TRUE /\ UNCHANGED <<told, supervising>>
       \/ Fault /\ supervising' = FALSE /\ UNCHANGED <<told, missed>>
    /\ UNCHANGED <<panelVars, flag, service, threadVars, keys, known, silent, last, wrong,
                   due>>

-----------------------------------------------------------------------------
(* The process *)

(* What is in memory is lost, a frame acknowledged and not stored with it. *)
Stopped ==
    /\ tally.restarts < MaxRestarts
    /\ Count("restarts")
    /\ due' = [p \in Points |-> due[p] + 1]
    /\ service' = "starting"
    /\ at' = [t \in Threads |-> "idle"]
    /\ frame' = [t \in Threads |-> TestFrame]
    /\ order' = [t \in Threads |-> "alone"]
    /\ keys' = {}
    /\ known' = FALSE /\ online' = FALSE /\ silent' = FALSE
    /\ supervising' = TRUE
    /\ wrong' = [p \in Points |-> \/ wrong[p]
                                  \/ \E t \in Threads : /\ at[t] # "idle"
                                                        /\ frame[t] # TestFrame
                                                        /\ frame[t].point = p
                                                        /\ frame[t].kind = "restore"]

Crash ==
    /\ service = "up"
    /\ Stopped
    /\ UNCHANGED <<panelVars, flag, last, told, missed>>

(* The LCD inverts the flag and restarts the container, or fails to. *)
LcdToggles ==
    /\ flag' = ~ flag
    /\ \/ Stopped
       \/ Fault /\ UNCHANGED <<service, threadVars, keys, superVars, wrong, due>>
    /\ UNCHANGED <<panelVars, last, told, missed>>

(* A process that finds the flag off exits cleanly and is not restarted. *)
Start ==
    /\ service = "starting"
    /\ service' = IF flag THEN "up" ELSE "exited"
    /\ UNCHANGED <<panelVars, flag, threadVars, keys, superVars, reportVars, counts>>

-----------------------------------------------------------------------------
Process(t) ==
    Update(t) \/ Suppress(t) \/ PassAlarm(t) \/ PassOther(t) \/ Store(t) \/ StoreFails(t)

AlarmPanel == \/ \E p \in Points : Change(p) \/ Repeat(p)
              \/ Test
              \/ Null
              \/ Elapse

Integration == \/ \E t \in Threads : Receive(t) \/ Process(t)
               \/ Supervise \/ Crash \/ LcdToggles \/ Start

OnDevice(A) == fitted # "none" /\ A /\ UNCHANGED <<vars, fitted>>

AmcStep == OnDevice(AlarmPanel \/ Integration)
QueueStep == fitted = "none" /\ Next /\ UNCHANGED amcVars

AmcNext == AmcStep \/ QueueStep
everything == <<vars, amcVars>>

AmcSafeSpec == AmcInit /\ [][AmcNext]_everything

(* Threads, the restart policy of the container and the supervision go on; *)
(* the panel sends what it keeps, and repeats each alarm.                  *)
AmcSpec ==
    /\ AmcSafeSpec
    /\ WF_everything(OnDevice(Start))
    /\ WF_everything(OnDevice(Supervise))
    /\ WF_everything(OnDevice(\E t \in Threads : Receive(t)))
    /\ \A t \in Threads : WF_everything(OnDevice(Process(t)))
    /\ \A p \in Points : SF_everything(OnDevice(Repeat(p)))
-----------------------------------------------------------------------------
AmcTypeOK ==
    /\ fitted \in Fitted
    /\ zone \in [Points -> {"normal", "alarm"}]
    /\ outbox \in Seq(Frames)
    /\ flag \in BOOLEAN
    /\ service \in {"starting", "up", "exited"}
    /\ at \in [Threads -> {"idle", "update", "hook", "insert"}]
    /\ frame \in [Threads -> Frames]
    /\ order \in [Threads -> {"alone", "newer", "overtaken"}]
    /\ keys \subseteq Points
    /\ known \in BOOLEAN /\ online \in BOOLEAN /\ silent \in BOOLEAN
    /\ supervising \in BOOLEAN /\ missed \in BOOLEAN
    /\ last \in [Points -> {"none", "alarm", "restore"}]
    /\ told \in {"none", "online", "offline"}
    /\ wrong \in [Points -> BOOLEAN]

(* Of an alarm only the first activation is reported, however often the    *)
(* panel repeats it and over whichever connections: once more only for a   *)
(* restart of the process, or where a later frame that said the contrary   *)
(* was taken before this one was done ("We only want to send the FIRST     *)
(* activation to SWatch").                                                 *)
FirstActivationOnly ==
    \A p \in Points : due[p] >= 0

(* What ThingsBoard was told last of a point is true in the end, if the    *)
(* panel speaks SIA: over frames sent again, other connections, restarts   *)
(* and toggles, unless a report was lost after the acknowledgement, or two *)
(* crossed ("A RESTORE event for the same zone/area clears the key so the  *)
(* next real alarm can fire again").                                       *)
ReportsFollowPanel ==
    \A p \in Points :
        /\ <>[](fitted = "SIA-DCS" /\ service = "up" /\ zone[p] = "alarm" /\ ~ wrong[p])
              => <>[](last[p] = "alarm")
        /\ <>[](fitted = "SIA-DCS" /\ service = "up" /\ zone[p] = "normal" /\ ~ wrong[p])
              => <>[](last[p] # "alarm")

(* A panel that the supervision holds offline has been reported so, and no *)
(* event of it has been reported since, for that would have brought it     *)
(* back online; unless no database took the report or the thread is dead   *)
(* (start_supervision, process_raw).                                       *)
OfflineIsTold == known /\ ~ online => told = "offline" \/ missed \/ ~ supervising

(* Why that holds: a thread that is about to report an event has refreshed *)
(* the panel, and a panel that is held offline has not been heard since.   *)
OfflineInv ==
    /\ OfflineIsTold
    /\ known /\ ~ online => silent
    /\ silent => \A t \in Threads : at[t] \in {"idle", "update"}

(* A panel that has been heard since the start and is silent for good is   *)
(* reported offline, however often it went and came back before, unless    *)
(* no database took the report or the supervision thread is dead.          *)
SilenceIsTold ==
    <>[](fitted # "none" /\ service = "up" /\ known /\ silent /\ supervising)
        => <>[](told = "offline" \/ missed)
=============================================================================
