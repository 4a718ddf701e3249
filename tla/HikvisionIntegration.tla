------------------------ MODULE HikvisionIntegration ------------------------
(***************************************************************************)
(* The active integration of a Hikvision alarm panel                       *)
(* (hikvision_bas_integration.py), a process of its own.  Three threads    *)
(* ask the panel over HTTP: one reads its event stream and, as an event    *)
(* only says that something has changed, polls the zones; one supervises   *)
(* the panel and polls its faults; one polls the rest of its status.  Each *)
(* keeps in memory what it has reported, to report changes only.           *)
(*                                                                         *)
(* payloads.db shows only as whether a report has been stored.             *)
(***************************************************************************)
EXTENDS Naturals, Sequences, FiniteSets

CONSTANTS Zones,         (* of the panel                                     *)
          Subjects,      (* bounds of the model: what of the panel changes,  *)
                         (* besides the way to it, one at a time,            *)
          MaxStream,     (* events on their way,                             *)
          MaxChanges,    (* changes at the panel and of the way to it,       *)
          MaxRestarts,   (* crashes, and restarts asked for on the LCD,      *)
          MaxFaults,     (* rows not stored, polls not answered and restarts *)
                         (* that docker refuses,                             *)
          MaxOccasions   (* all of these together                            *)

ASSUME ConstantsAssumption ==
    /\ Subjects \subseteq {"zones", "fault", "status"}
    /\ {"link", "fault", "status"} \cap Zones = {}
    /\ MaxStream \in Nat \ {0}
    /\ {MaxChanges, MaxRestarts, MaxFaults, MaxOccasions} \subseteq Nat

VARIABLES subject,         (* what of the panel changes, and the way to it   *)
          alarming,        (* the panel's zones that are in alarm            *)
          faulty,          (* it has a fault, such as a missing battery      *)
          condition,       (* what the status polls read                     *)
          reachable,       (* it answers                                     *)
          stream,          (* the events on their way                        *)
          enabled,         (* active_integration_hik_bas                     *)
          hik,             (* the container                                  *)
          streamAt,        (* where _stream_alert stands                     *)
          todo,            (* the zones it has to report, or to look at      *)
          zone_area_map,   (* the zones whose alarm has been reported        *)
          gates,           (* what was done too recently to be done again    *)
          superAt,         (* where _supervision_loop stands                 *)
          overdue,         (* last_ok is over SUPERVISION_TIMEOUT ago        *)
          panel_was_online,
          active_faults,   (* the fault is among them                        *)
          statusAt,        (* where _status_poll_loop stands                 *)
          status_cache,
          zoneTold,        (* what ThingsBoard is told last: of each zone,   *)
          faultTold, statusTold, linkTold,
          dropped,         (* history: what the last report of was not stored *)
          unheard,         (* history: what a restore of was missed, or will *)
                           (* be because the process has forgotten the alarm *)
          crossed,         (* history: the report of the link stored last    *)
                           (* contradicts the state, changed in the meantime *)
          spent            (* history: what the bounds count                 *)

panelState  == <<subject, alarming, faulty, condition, reachable>>
streamState == <<streamAt, todo, zone_area_map>>
superState  == <<superAt, overdue, active_faults>>
statusState == <<statusAt, status_cache>>
toldState   == <<zoneTold, faultTold, statusTold, linkTold>>
vars == <<panelState, stream, enabled, hik, streamState, gates, superState,
             panel_was_online, statusState, toldState, dropped, unheard, crossed, spent>>

Init ==
    /\ subject \in Subjects
    /\ alarming = {} /\ faulty = FALSE /\ condition = 0 /\ reachable = TRUE
    /\ stream = << >>
    /\ enabled \in BOOLEAN
    /\ hik = "starting"
    /\ streamAt = "down" /\ todo = {} /\ zone_area_map = {}
    /\ gates = {}
    /\ superAt = "sleep" /\ overdue = FALSE /\ active_faults = FALSE
    /\ panel_was_online = TRUE
    /\ statusAt = "sleep" /\ status_cache = 0
    /\ zoneTold = [z \in Zones |-> "none"]
    /\ faultTold = "none" /\ statusTold = 0 /\ linkTold = "none"
    /\ dropped = {} /\ unheard = {} /\ crossed = FALSE
    /\ spent = [changes |-> 0, restarts |-> 0, faults |-> 0]

Spend(what) ==
    /\ spent.changes + spent.restarts + spent.faults < MaxOccasions
    /\ spent' = [spent EXCEPT ![what] = @ + 1]
Fails == spent.faults < MaxFaults /\ Spend("faults")
-----------------------------------------------------------------------------
(* The panel *)

Connected == streamAt \notin {"down", "LinkFail"}

(* A zone changes and the panel says so, a burst of equal events standing  *)
(* for one; to no one, if it cannot be reached or nobody listens.          *)
ZoneChanges(z) ==
    /\ subject = "zones" /\ spent.changes < MaxChanges /\ Spend("changes")
    /\ alarming' = IF z \in alarming THEN alarming \ {z} ELSE alarming \cup {z}
    /\ IF Connected /\ reachable
       THEN /\ Len(stream) < MaxStream
            /\ stream' = Append(stream, IF z \in alarming THEN "inactive" ELSE "active")
            /\ UNCHANGED unheard
       ELSE /\ unheard' = IF z \in alarming THEN unheard \cup {z} ELSE unheard
            /\ UNCHANGED stream
    /\ UNCHANGED <<subject, faulty, condition, reachable, enabled, hik, streamState, gates,
                   superState, panel_was_online, statusState, toldState, dropped, crossed>>

(* "The panel re-sends active bursts every ~27s while alarm is ongoing."   *)
Resend ==
    /\ alarming # {} /\ Connected /\ reachable /\ stream = << >>
    /\ stream' = <<"active">>
    /\ UNCHANGED <<panelState, enabled, hik, streamState, gates, superState,
                   panel_was_online, statusState, toldState, dropped, unheard, crossed, spent>>

OtherChange ==
    /\ spent.changes < MaxChanges /\ Spend("changes")
    /\ \/ subject = "fault" /\ faulty' = ~ faulty /\ UNCHANGED <<condition, reachable>>
       \/ /\ subject = "status" /\ condition' \in 1 .. 2 \ {condition}
          /\ UNCHANGED <<faulty, reachable>>
       \/ reachable' = ~ reachable /\ UNCHANGED <<faulty, condition>>
    /\ UNCHANGED <<subject, alarming, stream, enabled, hik, streamState, gates, superState,
                   panel_was_online, statusState, toldState, dropped, unheard, crossed>>

Panel == OtherChange \/ Resend \/ \E z \in Zones : ZoneChanges(z)

-----------------------------------------------------------------------------
(* What the threads share *)

(* A report is stored; or it is dropped, as the integration is off, or     *)
(* insert_with_cap swallows the error.                                     *)
Stored(topic) ==
    /\ enabled
    /\ dropped' = dropped \ {topic}
    /\ UNCHANGED spent

Lost(topic) ==
    /\ dropped' = dropped \cup {topic}
    /\ \/ ~ enabled /\ UNCHANGED spent
       \/ enabled /\ Fails

(* The report of dexter_state_hook, or of a heartbeat that is due: neither *)
(* a lock nor an order keeps the two threads apart between the change of   *)
(* the state and its report.                                               *)
ReportLink(status) ==
    \/ /\ Stored("link")
       /\ linkTold' = status
       /\ gates' = gates \cup {"beat"}
       /\ crossed' = ((status = "online") # panel_was_online)
    \/ /\ Lost("link")
       /\ gates' = IF enabled THEN gates \cup {"beat"} ELSE gates
       /\ UNCHANGED <<linkTold, crossed>>

-----------------------------------------------------------------------------
(* The event stream *)

streamRest == <<panelState, enabled, hik, superState, statusState, faultTold, statusTold>>

(* dexter_state_hook of a connection made, of one refused and of one that  *)
(* breaks: of the events on their way nobody hears.                        *)
Connect ==
    /\ hik = "up" /\ streamAt = "down" /\ reachable
    /\ panel_was_online' = TRUE
    /\ streamAt' = IF panel_was_online THEN "read" ELSE "online"
    /\ UNCHANGED <<streamRest, stream, todo, zone_area_map, gates, zoneTold, linkTold,
                   dropped, unheard, crossed, spent>>

Disconnect ==
    /\ panel_was_online' = FALSE
    /\ streamAt' = IF panel_was_online THEN "LinkFail" ELSE "down"
    /\ UNCHANGED <<streamRest, todo, zone_area_map, gates, zoneTold, linkTold, dropped,
                   crossed>>

ConnectFails ==
    /\ hik = "up" /\ streamAt = "down" /\ ~ reachable
    /\ panel_was_online
    /\ Disconnect
    /\ UNCHANGED <<stream, unheard, spent>>

Break ==
    /\ streamAt = "read"
    /\ Disconnect
    /\ stream' = << >>
    /\ unheard' = IF \E i \in DOMAIN stream : stream[i] = "inactive"
                  THEN unheard \cup (zone_area_map \ alarming) ELSE unheard
    /\ \/ ~ reachable /\ UNCHANGED spent
       \/ reachable /\ Fails

StreamReports ==
    /\ streamAt \in {"online", "LinkFail"}
    /\ ReportLink(streamAt)
    /\ streamAt' = IF streamAt = "online" THEN "read" ELSE "down"
    /\ UNCHANGED <<streamRest, stream, todo, zone_area_map, panel_was_online, zoneTold,
                   unheard>>

streamOther == <<streamRest, panel_was_online, linkTold, crossed>>

(* _get_alarmed_zones: a poll that is not answered finds no alarm.         *)
AlarmedZones(found) ==
    \/ found = (IF reachable THEN alarming ELSE {}) /\ UNCHANGED spent
    \/ found = {} /\ reachable /\ alarming # {} /\ Fails

(* An alarm event polls all the zones, at most once a second; a poll that  *)
(* comes too late finds no alarm either.                                   *)
ReadActive ==
    /\ streamAt = "read" /\ stream # << >> /\ Head(stream) = "active"
    /\ stream' = Tail(stream)
    /\ \/ /\ "active" \in gates
          /\ UNCHANGED <<streamAt, todo, gates, unheard, spent>>
       \/ /\ "active" \notin gates
          /\ gates' = gates \cup {"active"}
          /\ \E found \in {alarming, {}} :
                /\ AlarmedZones(found)
                /\ todo' = found
                /\ streamAt' = IF found = {} THEN "read" ELSE "zones"
                /\ unheard' = unheard \ (found \ zone_area_map)
    /\ UNCHANGED <<streamOther, zone_area_map, zoneTold, dropped>>

(* Each zone found is reported unless it has been before.  Only this       *)
(* thread uses the map, so that the entry and the report are one step.     *)
PassOver(z) ==
    /\ streamAt = "zones" /\ z \in todo /\ z \in zone_area_map
    /\ todo' = todo \ {z}
    /\ streamAt' = IF todo' = {} THEN "read" ELSE "zones"
    /\ UNCHANGED <<streamOther, stream, zone_area_map, gates, zoneTold, dropped, unheard,
                   spent>>

ReportAlarm(z) ==
    /\ streamAt = "zones" /\ z \in todo /\ z \notin zone_area_map
    /\ zone_area_map' = zone_area_map \cup {z}
    /\ todo' = todo \ {z}
    /\ streamAt' = IF todo' = {} THEN "read" ELSE "zones"
    /\ \/ Stored(z) /\ zoneTold' = [zoneTold EXCEPT ![z] = "activate"]
       \/ Lost(z) /\ UNCHANGED zoneTold
    /\ UNCHANGED <<streamOther, stream, gates, unheard>>

(* A restore event looks at each zone of the map, at most every three      *)
(* seconds; one that comes too early is forgotten.  The map is rebuilt     *)
(* after the last look and the restores are inserted then; as nothing else *)
(* looks at either, each zone is one step here.                            *)
ReadInactive ==
    /\ streamAt = "read" /\ stream # << >> /\ Head(stream) = "inactive"
    /\ stream' = Tail(stream)
    /\ IF zone_area_map # {} /\ "inactive" \notin gates
       THEN /\ gates' = gates \cup {"inactive"}
            /\ todo' = zone_area_map
            /\ streamAt' = "check"
            /\ UNCHANGED unheard
       ELSE /\ unheard' = unheard \cup (zone_area_map \ alarming)
            /\ UNCHANGED <<gates, todo, streamAt>>
    /\ UNCHANGED <<streamOther, zone_area_map, zoneTold, dropped, spent>>

Check(z) ==
    /\ streamAt = "check" /\ z \in todo
    /\ todo' = todo \ {z}
    /\ streamAt' = IF todo' = {} THEN "read" ELSE "check"
    /\ UNCHANGED <<streamOther, stream, gates>>

StillAlarming(z) ==
    /\ Check(z)
    /\ reachable /\ z \in alarming
    /\ UNCHANGED <<zone_area_map, zoneTold, dropped, unheard, spent>>

(* Mutant: the map is not rebuilt. *)
ReportRestore_KeepsZone(z) ==
    /\ Check(z)
    /\ ~ reachable \/ z \notin alarming
    /\ unheard' = unheard \ {z}
    /\ \/ Stored(z) /\ zoneTold' = [zoneTold EXCEPT ![z] = "restored"]
       \/ Lost(z) /\ UNCHANGED zoneTold
    /\ UNCHANGED zone_area_map

(* "If poll fails we allow the restore."                                   *)
ReportRestore(z) ==
    /\ Check(z)
    /\ zone_area_map' = zone_area_map \ {z}
    /\ unheard' = unheard \ {z}
    /\ \/ /\ ~ reachable \/ z \notin alarming
          /\ \/ Stored(z) /\ zoneTold' = [zoneTold EXCEPT ![z] = "restored"]
             \/ Lost(z) /\ UNCHANGED zoneTold
       \/ /\ reachable /\ z \in alarming /\ Fails
          /\ zoneTold' = IF enabled THEN [zoneTold EXCEPT ![z] = "restored"] ELSE zoneTold
          /\ dropped' = IF enabled THEN dropped \ {z} ELSE dropped \cup {z}

StreamThread ==
    \/ Connect \/ ConnectFails \/ Break \/ StreamReports \/ ReadActive \/ ReadInactive
    \/ \E z \in Zones : PassOver(z) \/ ReportAlarm(z) \/ StillAlarming(z) \/ ReportRestore(z)

-----------------------------------------------------------------------------
(* The supervision *)

superRest == <<panelState, stream, enabled, streamState, statusState, zoneTold, statusTold>>

Overdue ==
    /\ hik = "up" /\ superAt = "sleep" /\ ~ reachable /\ ~ overdue
    /\ overdue' = TRUE
    /\ UNCHANGED <<superRest, hik, superAt, active_faults, gates, panel_was_online, faultTold,
                   linkTold, dropped, unheard, crossed, spent>>

SuperPolls ==
    /\ hik = "up" /\ superAt = "sleep"
    /\ \/ /\ reachable
          /\ panel_was_online' = TRUE /\ overdue' = FALSE
          /\ superAt' = IF panel_was_online THEN "rate" ELSE "online"
       \/ /\ ~ reachable /\ overdue /\ panel_was_online
          /\ panel_was_online' = FALSE /\ UNCHANGED overdue
          /\ superAt' = "LinkFail"
    /\ UNCHANGED <<superRest, hik, active_faults, gates, faultTold, linkTold, dropped, unheard,
                   crossed, spent>>

SuperReports ==
    /\ superAt \in {"online", "LinkFail", "beat"}
    /\ ReportLink(IF superAt = "LinkFail" THEN "LinkFail" ELSE "online")
    /\ superAt' = CASE superAt = "online" -> "rate"
                    [] superAt = "LinkFail" -> "sleep"
                    [] superAt = "beat" -> "faults"
    /\ UNCHANGED <<superRest, hik, overdue, active_faults, panel_was_online, faultTold,
                   unheard>>

(* Mutant: the state that has not changed is not reported again. *)
Rate_Never ==
    /\ superAt = "rate"
    /\ superAt' = "faults"
    /\ UNCHANGED <<superRest, hik, overdue, active_faults, gates, panel_was_online, faultTold,
                   linkTold, dropped, unheard, crossed, spent>>

(* _send_hik_heartbeat: every ten minutes the panel is online once more.   *)
Rate ==
    /\ superAt = "rate"
    /\ superAt' = IF "beat" \in gates THEN "faults" ELSE "beat"
    /\ UNCHANGED <<superRest, hik, overdue, active_faults, gates, panel_was_online, faultTold,
                   linkTold, dropped, unheard, crossed, spent>>

(* _poll_system_fault and _process_sys_faults, up to the report: a poll    *)
(* that is not answered finds no fault.                                    *)
PollFaults ==
    /\ superAt = "faults"
    /\ \/ active_faults' = (faulty /\ reachable) /\ UNCHANGED spent
       \/ active_faults' = FALSE /\ faulty /\ reachable /\ Fails
    /\ superAt' = IF active_faults' = active_faults THEN "sleep"
                  ELSE IF active_faults' THEN "activate" ELSE "restored"
    /\ UNCHANGED <<superRest, hik, overdue, gates, panel_was_online, faultTold, linkTold,
                   dropped, unheard, crossed>>

ReportFault ==
    /\ superAt \in {"activate", "restored"}
    /\ superAt' = "sleep"
    /\ unheard' = unheard \ {"fault"}
    /\ \/ Stored("fault") /\ faultTold' = superAt
       \/ Lost("fault") /\ UNCHANGED faultTold
    /\ UNCHANGED <<superRest, hik, overdue, active_faults, gates, panel_was_online, linkTold,
                   crossed>>

SuperThread == SuperPolls \/ SuperReports \/ Rate \/ PollFaults \/ ReportFault

-----------------------------------------------------------------------------
(* The rest of the status *)

statusRest == <<panelState, stream, hik, enabled, streamState, gates, superState,
                panel_was_online, zoneTold, faultTold, linkTold, unheard, crossed>>

(* _send_if_changed: the cache is changed before the report.  The snapshot *)
(* of main is the first poll, which finds the cache empty.                 *)
PollStatus ==
    /\ hik = "up" /\ statusAt = "sleep"
    /\ enabled /\ reachable /\ status_cache # condition
    /\ status_cache' = condition
    /\ statusAt' = "insert"
    /\ UNCHANGED <<statusRest, statusTold, dropped, spent>>

ReportStatus ==
    /\ statusAt = "insert"
    /\ statusAt' = "sleep"
    /\ \/ Stored("status") /\ statusTold' = status_cache
       \/ Lost("status") /\ UNCHANGED statusTold
    /\ UNCHANGED <<statusRest, status_cache>>

StatusThread == PollStatus \/ ReportStatus

-----------------------------------------------------------------------------
(* The process *)

(* A second, three seconds and ten minutes; these are longer than a round  *)
(* of the supervision.                                                     *)
Pass(gate) ==
    /\ gate \in gates
    /\ gate = "beat" => superAt = "sleep"
    /\ gates' = gates \ {gate}
    /\ UNCHANGED <<panelState, stream, enabled, hik, streamState, superState,
                   panel_was_online, statusState, toldState, dropped, unheard, crossed, spent>>

(* Its memory is lost, and with it what it would have to restore.          *)
Stopped ==
    /\ spent.restarts < MaxRestarts /\ Spend("restarts")
    /\ hik' = "starting"
    /\ stream' = << >> /\ streamAt' = "down" /\ todo' = {} /\ zone_area_map' = {}
    /\ gates' = {}
    /\ superAt' = "sleep" /\ overdue' = FALSE /\ active_faults' = FALSE
    /\ panel_was_online' = TRUE
    /\ statusAt' = "sleep" /\ status_cache' = 0
    /\ unheard' = unheard \cup {z \in Zones : zoneTold[z] = "activate"}
                          \cup IF faultTold = "activate" THEN {"fault"} ELSE {}
    /\ UNCHANGED <<panelState, toldState, dropped, crossed>>

Crash == hik \in {"startup", "up"} /\ Stopped /\ UNCHANGED enabled

LcdToggles ==
    /\ enabled' = ~ enabled
    /\ \/ Stopped
       \/ /\ Fails
          /\ UNCHANGED <<panelState, stream, hik, streamState, gates, superState,
                         panel_was_online, statusState, toldState, dropped, unheard, crossed>>

(* Mutant: the start is not reported. *)
Start_Silent ==
    /\ hik = "starting"
    /\ \/ ~ enabled /\ hik' = "exited" /\ UNCHANGED superAt
       \/ enabled /\ reachable /\ hik' = "startup" /\ superAt' = "faults"
    /\ UNCHANGED <<panelState, stream, enabled, streamState, gates, overdue, active_faults,
                   panel_was_online, statusState, toldState, dropped, unheard, crossed, spent>>

(* Off, it exits cleanly and stays so; without the panel it exits in error *)
(* and is started again.  main reports the panel online and its faults     *)
(* before the threads start.                                               *)
Start ==
    /\ hik = "starting"
    /\ \/ ~ enabled /\ hik' = "exited" /\ UNCHANGED superAt
       \/ enabled /\ reachable /\ hik' = "startup" /\ superAt' = "beat"
    /\ UNCHANGED <<panelState, stream, enabled, streamState, gates, overdue, active_faults,
                   panel_was_online, statusState, toldState, dropped, unheard, crossed, spent>>

StartThreads ==
    /\ hik = "startup" /\ superAt = "sleep"
    /\ hik' = "up"
    /\ UNCHANGED <<panelState, stream, enabled, streamState, gates, superState,
                   panel_was_online, statusState, toldState, dropped, unheard, crossed, spent>>

-----------------------------------------------------------------------------
Next ==
    \/ Panel
    \/ StreamThread \/ SuperThread \/ StatusThread
    \/ Overdue \/ \E gate \in gates : Pass(gate)
    \/ Crash \/ LcdToggles \/ Start \/ StartThreads

(* The threads go on, time passes, the container is restarted, and the     *)
(* panel sends its active alarms again.                                    *)
Fairness ==
    /\ WF_vars(Start) /\ WF_vars(StartThreads)
    /\ WF_vars(StreamThread) /\ WF_vars(SuperThread) /\ WF_vars(StatusThread)
    /\ \A gate \in {"active", "inactive", "beat"} : SF_vars(Pass(gate))
    /\ SF_vars(Resend)

Spec == Init /\ [][Next]_vars
FairSpec == Spec /\ Fairness
-----------------------------------------------------------------------------
TypeOK ==
    /\ subject \in Subjects
    /\ alarming \subseteq Zones /\ todo \subseteq Zones /\ zone_area_map \subseteq Zones
    /\ faulty \in BOOLEAN /\ reachable \in BOOLEAN /\ enabled \in BOOLEAN
    /\ condition \in 0 .. 2 /\ status_cache \in 0 .. 2 /\ statusTold \in 0 .. 2
    /\ stream \in Seq({"active", "inactive"})
    /\ hik \in {"starting", "startup", "up", "exited"}
    /\ streamAt \in {"down", "online", "LinkFail", "read", "zones", "check"}
    /\ superAt \in {"sleep", "online", "LinkFail", "rate", "beat", "faults", "activate",
                    "restored"}
    /\ statusAt \in {"sleep", "insert"}
    /\ gates \subseteq {"active", "inactive", "beat"}
    /\ overdue \in BOOLEAN /\ panel_was_online \in BOOLEAN /\ active_faults \in BOOLEAN
    /\ zoneTold \in [Zones -> {"none", "activate", "restored"}]
    /\ faultTold \in {"none", "activate", "restored"}
    /\ linkTold \in {"none", "online", "LinkFail"}
    /\ dropped \subseteq Zones \cup {"link", "fault", "status"}
    /\ unheard \subseteq Zones \cup {"fault"}
    /\ crossed \in BOOLEAN

(* The zones that are taken for reported have been reported in alarm, and  *)
(* a zone that was last reported so is taken for it.                       *)
ZonesTold ==
    \A z \in Zones \ dropped :
        /\ z \in zone_area_map => zoneTold[z] = "activate"
        /\ zoneTold[z] = "activate" =>
              z \in zone_area_map \cup unheard \/ (streamAt = "zones" /\ z \in todo)

FaultTold ==
    \/ superAt \in {"activate", "restored"}
    \/ "fault" \in dropped \cup unheard
    \/ active_faults <=> faultTold = "activate"

StatusTold ==
    statusAt = "sleep" /\ status_cache # 0 =>
        statusTold = status_cache \/ "status" \in dropped

(* With two threads, a state that ThingsBoard is not told has its report   *)
(* under way, unless a report was lost, or stored when it was out of date. *)
LinkTold ==
    LET status == IF panel_was_online THEN "online" ELSE "LinkFail"
    IN  \/ hik \in {"starting", "exited"}
        \/ linkTold = status
        \/ streamAt = status \/ superAt = status \/ (panel_was_online /\ superAt = "beat")
        \/ "link" \in dropped
        \/ crossed

(* What the threads remember to have reported, and keep quiet about, is    *)
(* what ThingsBoard was told last, over failed inserts, false restores,    *)
(* restarts and both orders of the threads; where it is not, the report    *)
(* was lost, overtaken, or forgotten with the process (zone_area_map,      *)
(* active_faults, _STATUS_CACHE, _panel_was_online, each changed before    *)
(* its report is stored).                                                  *)
MemoryIsTold == ZonesTold /\ FaultTold /\ StatusTold /\ LinkTold

Lasting == <>[](hik = "up" /\ enabled) /\ <>[][FALSE]_panelState

(* What ThingsBoard is told last of each zone, of the faults and of the    *)
(* status is true in the end, if the panel answers and changes no more:    *)
(* over polls that fail, gates, connections that break and restarts;       *)
(* unless that report was not stored, or of what has cleared the restore   *)
(* was missed or the alarm forgotten (dexter_event_hook,                   *)
(* _process_sys_faults, _send_if_changed: "fire exactly ONE per alarm      *)
(* event", "safer than never restoring").                                  *)
ToldIsTrue ==
    Lasting => <>[](reachable =>
        /\ \A z \in Zones \ dropped :
              /\ z \in alarming => zoneTold[z] = "activate"
              /\ z \notin alarming \cup unheard => zoneTold[z] # "activate"
        /\ faulty /\ "fault" \notin dropped => faultTold = "activate"
        /\ ~ faulty /\ "fault" \notin dropped \cup unheard => faultTold # "activate"
        /\ condition # 0 /\ "status" \notin dropped => statusTold = condition)

(* A panel that answers is reported online in the end, whatever reports    *)
(* were lost or crossed before; one that does not is reported LinkFail,    *)
(* unless the last report was not stored, or stored after the other thread *)
(* had changed the state (dexter_state_hook, _send_hik_heartbeat).         *)
LinkIsTold ==
    Lasting => <>[](IF reachable THEN linkTold = "online"
                    ELSE linkTold = "LinkFail" \/ "link" \in dropped \/ crossed)
=============================================================================
