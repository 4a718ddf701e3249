------------------------ MODULE BasIntegrationProofs ------------------------
(***************************************************************************)
(* The integrations of the alarm panels, proved.  HikvisionIntegration for *)
(* every set of zones and for every number of changes, restarts and        *)
(* failures: its types, and that what the threads remember to have         *)
(* reported is what ThingsBoard was told.  TexecomIntegration for every    *)
(* set of zones, number of tries and number of changes and failures: its   *)
(* types, and that what the panel has said is told once nothing is under   *)
(* way.                                                                    *)
(***************************************************************************)
EXTENDS HikvisionIntegration, TexecomIntegration, WellFoundedInduction, TLAPS

-----------------------------------------------------------------------------
(* HikvisionIntegration.                                                   *)

(* What is on the way of the stream stays a sequence of events.            *)
LEMMA StreamSequences ==
  ASSUME TypeOK
  PROVE  /\ << >> \in Seq({"active", "inactive"})
         /\ <<"active">> \in Seq({"active", "inactive"})
         /\ \A e \in {"active", "inactive"} : Append(stream, e) \in Seq({"active", "inactive"})
         /\ stream # << >> => Tail(stream) \in Seq({"active", "inactive"})
BY DEF TypeOK

(* A report keeps the types of the history.                                *)
LEMMA ReportTypes ==
  ASSUME TypeOK, NEW subj \in Zones \cup {"link", "fault", "status"},
         Stored(subj) \/ Lost(subj)
  PROVE  dropped' \subseteq Zones \cup {"link", "fault", "status"}
BY DEF TypeOK, Stored, Lost

(* What the panel does keeps the types.                                    *)
LEMMA PanelTypes == ASSUME TypeOK, Panel PROVE TypeOK'
<1> USE StreamSequences DEF TypeOK, panelState, streamState, superState, statusState, toldState
<1>1. ASSUME NEW z \in Zones, ZoneChanges(z) PROVE TypeOK'
  <2>1. stream' \in Seq({"active", "inactive"}) /\ unheard' \subseteq Zones \cup {"fault"}
    BY <1>1 DEF ZoneChanges
  <2> QED BY <1>1, <2>1 DEF ZoneChanges
<1>2. CASE Resend
  BY <1>2 DEF Resend
<1>3. CASE OtherChange
  <2>1. faulty' \in BOOLEAN /\ reachable' \in BOOLEAN
    BY <1>3, ZenonT(30) DEF OtherChange
  <2>2. condition' \in 0 .. 2
    BY <1>3 DEF OtherChange
  <2> QED BY <1>3, <2>1, <2>2 DEF OtherChange
<1> QED BY <1>1, <1>2, <1>3 DEF Panel

(* What the stream thread does keeps the types.                            *)
LEMMA StreamTypes == ASSUME TypeOK, StreamThread PROVE TypeOK'
<1> USE StreamSequences DEF TypeOK, panelState, superState, statusState, streamRest, streamOther
<1>1. CASE Connect
  BY <1>1 DEF Connect
<1>2. CASE ConnectFails
  <2>1. panel_was_online' \in BOOLEAN /\ streamAt' \in {"down", "LinkFail"}
    BY <1>2 DEF ConnectFails, Disconnect
  <2> QED BY <1>2, <2>1 DEF ConnectFails, Disconnect
<1>3. CASE Break
  <2>1. unheard' \subseteq Zones \cup {"fault"} /\ stream' \in Seq({"active", "inactive"})
    BY <1>3 DEF Break
  <2>2. panel_was_online' \in BOOLEAN /\ streamAt' \in {"down", "LinkFail"}
    BY <1>3 DEF Break, Disconnect
  <2> QED BY <1>3, <2>1, <2>2 DEF Break, Disconnect
<1>4. CASE StreamReports
  <2>1. dropped' \subseteq Zones \cup {"link", "fault", "status"}
    BY <1>4, ReportTypes DEF StreamReports, ReportLink
  <2>2. /\ linkTold' \in {"none", "online", "LinkFail"}
        /\ gates' \subseteq {"active", "inactive", "beat"}
        /\ crossed' \in BOOLEAN
    BY <1>4 DEF StreamReports, ReportLink
  <2> QED BY <1>4, <2>1, <2>2 DEF StreamReports
<1>5. CASE ReadActive
  <2>1. /\ todo' \subseteq Zones /\ unheard' \subseteq Zones \cup {"fault"}
        /\ gates' \subseteq {"active", "inactive", "beat"}
        /\ streamAt' \in {"read", "zones"}
    BY <1>5 DEF ReadActive
  <2>2. stream' \in Seq({"active", "inactive"})
    BY <1>5 DEF ReadActive
  <2> QED BY <1>5, <2>1, <2>2 DEF ReadActive
<1>6. CASE ReadInactive
  <2>1. /\ todo' \subseteq Zones /\ unheard' \subseteq Zones \cup {"fault"}
        /\ gates' \subseteq {"active", "inactive", "beat"}
        /\ streamAt' \in {"read", "check"}
    BY <1>6 DEF ReadInactive
  <2>2. stream' \in Seq({"active", "inactive"})
    BY <1>6 DEF ReadInactive
  <2> QED BY <1>6, <2>1, <2>2 DEF ReadInactive
<1>7. ASSUME NEW z \in Zones, PassOver(z) PROVE TypeOK'
  BY <1>7 DEF PassOver
<1>8. ASSUME NEW z \in Zones, ReportAlarm(z) PROVE TypeOK'
  <2>1. dropped' \subseteq Zones \cup {"link", "fault", "status"}
    BY <1>8, ReportTypes DEF ReportAlarm
  <2>2. zoneTold' \in [Zones -> {"none", "activate", "restored"}]
    BY <1>8 DEF ReportAlarm
  <2> QED BY <1>8, <2>1, <2>2 DEF ReportAlarm
<1>9. ASSUME NEW z \in Zones, StillAlarming(z) PROVE TypeOK'
  BY <1>9 DEF StillAlarming, Check
<1>10. ASSUME NEW z \in Zones, ReportRestore(z) PROVE TypeOK'
  <2>1. dropped' \subseteq Zones \cup {"link", "fault", "status"}
    BY <1>10, ReportTypes DEF ReportRestore
  <2>2. zoneTold' \in [Zones -> {"none", "activate", "restored"}]
    BY <1>10 DEF ReportRestore
  <2> QED BY <1>10, <2>1, <2>2 DEF ReportRestore, Check
<1> QED BY <1>1, <1>2, <1>3, <1>4, <1>5, <1>6, <1>7, <1>8, <1>9, <1>10 DEF StreamThread

(* What the other two threads do keeps the types.                          *)
LEMMA SuperTypes == ASSUME TypeOK, SuperThread \/ StatusThread \/ Overdue PROVE TypeOK'
<1> USE DEF TypeOK, panelState, streamState, superState, statusState, superRest, statusRest
<1>1. CASE SuperPolls
  <2>1. /\ panel_was_online' \in BOOLEAN /\ overdue' \in BOOLEAN
        /\ superAt' \in {"rate", "online", "LinkFail"}
    BY <1>1 DEF SuperPolls
  <2> QED BY <1>1, <2>1 DEF SuperPolls
<1>2. CASE SuperReports
  <2>1. dropped' \subseteq Zones \cup {"link", "fault", "status"}
    BY <1>2, ReportTypes DEF SuperReports, ReportLink
  <2>2. /\ linkTold' \in {"none", "online", "LinkFail"}
        /\ gates' \subseteq {"active", "inactive", "beat"}
        /\ crossed' \in BOOLEAN
    BY <1>2 DEF SuperReports, ReportLink
  <2>3. superAt' \in {"rate", "sleep", "faults"}
    BY <1>2 DEF SuperReports
  <2> QED BY <1>2, <2>1, <2>2, <2>3 DEF SuperReports
<1>3. CASE Rate
  BY <1>3 DEF Rate
<1>4. CASE PollFaults
  <2>1. active_faults' \in BOOLEAN
    BY <1>4 DEF PollFaults
  <2>2. superAt' \in {"sleep", "activate", "restored"}
    BY <1>4 DEF PollFaults
  <2> QED BY <1>4, <2>1, <2>2 DEF PollFaults
<1>5. CASE ReportFault
  <2>1. dropped' \subseteq Zones \cup {"link", "fault", "status"}
    BY <1>5, ReportTypes DEF ReportFault
  <2>2. faultTold' \in {"none", "activate", "restored"}
    BY <1>5 DEF ReportFault
  <2> QED BY <1>5, <2>1, <2>2 DEF ReportFault
<1>6. CASE PollStatus
  BY <1>6 DEF PollStatus
<1>7. CASE ReportStatus
  <2>1. dropped' \subseteq Zones \cup {"link", "fault", "status"}
    BY <1>7, ReportTypes DEF ReportStatus
  <2> QED BY <1>7, <2>1 DEF ReportStatus
<1>8. CASE Overdue
  BY <1>8 DEF Overdue
<1> QED BY <1>1, <1>2, <1>3, <1>4, <1>5, <1>6, <1>7, <1>8 DEF SuperThread, StatusThread

Process == Crash \/ LcdToggles \/ Start \/ StartThreads \/ \E gate \in gates : Pass(gate)

(* A restart keeps the types.                                              *)
LEMMA StoppedTypes == ASSUME TypeOK, Stopped PROVE enabled' \in BOOLEAN => TypeOK'
<1>1. unheard' \subseteq Zones \cup {"fault"}
  BY DEF Stopped, TypeOK
<1>2. << >> \in Seq({"active", "inactive"}) /\ 0 \in 0 .. 2
  OBVIOUS
<1>3. /\ stream' = << >> /\ todo' = {} /\ zone_area_map' = {} /\ gates' = {}
      /\ hik' = "starting" /\ streamAt' = "down" /\ superAt' = "sleep" /\ statusAt' = "sleep"
      /\ status_cache' = 0
      /\ UNCHANGED <<panelState, toldState, dropped, crossed>>
  BY DEF Stopped
<1>4. overdue' \in BOOLEAN /\ active_faults' \in BOOLEAN /\ panel_was_online' \in BOOLEAN
  BY DEF Stopped
<1> QED BY <1>1, <1>2, <1>3, <1>4 DEF TypeOK, panelState, toldState

LEMMA ProcessTypes == ASSUME TypeOK, Process PROVE TypeOK'
<1> USE StreamSequences DEF TypeOK, panelState, streamState, superState, statusState, toldState
<1>1. CASE Crash
  BY <1>1, StoppedTypes DEF Crash
<1>2. CASE LcdToggles
  <2>1. enabled' \in BOOLEAN
    BY <1>2 DEF LcdToggles
  <2>2. CASE Stopped
    BY <2>1, <2>2, StoppedTypes
  <2>3. CASE UNCHANGED <<panelState, stream, hik, streamState, gates, superState,
                         panel_was_online, statusState, toldState, dropped, unheard, crossed>>
    BY <2>1, <2>3
  <2> QED BY <1>2, <2>2, <2>3 DEF LcdToggles
<1>3. CASE Start
  <2>1. hik' \in {"exited", "startup"} /\ superAt' \in {superAt, "beat"}
    BY <1>3 DEF Start
  <2> QED BY <1>3, <2>1 DEF Start
<1>4. CASE StartThreads
  BY <1>4 DEF StartThreads
<1>5. ASSUME NEW gate \in gates, Pass(gate) PROVE TypeOK'
  BY <1>5 DEF Pass
<1> QED BY <1>1, <1>2, <1>3, <1>4, <1>5 DEF Process

(* The initial states have the types, and every step keeps them.           *)
LEMMA TypeInit == Init => TypeOK
<1>1. << >> \in Seq({"active", "inactive"}) /\ 0 \in 0 .. 2
  OBVIOUS
<1>2. Init => zoneTold \in [Zones -> {"none", "activate", "restored"}]
  BY DEF Init
<1> QED BY <1>1, <1>2 DEF Init, TypeOK

LEMMA TypeStep == ASSUME TypeOK, [Next]_vars PROVE TypeOK'
<1>1. CASE UNCHANGED vars
  BY <1>1 DEF vars, TypeOK, panelState, streamState, superState, statusState, toldState
<1>2. CASE Next
  BY <1>2, PanelTypes, StreamTypes, SuperTypes, ProcessTypes DEF Next, Process
<1> QED BY <1>1, <1>2

(* Every variable keeps its type, whatever the panel, the threads and the  *)
(* technician do.                                                          *)
THEOREM TypeCorrect == Spec => []TypeOK
<1>1. TypeOK /\ [Next]_vars => TypeOK'
  BY TypeStep
<1> QED BY <1>1, TypeInit, PTL DEF Spec

-----------------------------------------------------------------------------
(* A process that starts takes the panel for online and has no connection; *)
(* the report of the faults is that of their last change.                  *)
Starting == hik = "starting" => panel_was_online /\ streamAt = "down"
FaultAsked == superAt \in {"activate", "restored"} => (superAt = "activate" <=> active_faults)

(* A report changes what is known of its subj only.                       *)
LEMMA ReportOf ==
  ASSUME NEW subj, Stored(subj) \/ Lost(subj)
  PROVE  \A t : t # subj => (t \in dropped' <=> t \in dropped)
BY DEF Stored, Lost

(* The zones are not disturbed by what leaves them alone.                  *)
LEMMA ZonesKept ==
  ASSUME ZonesTold, UNCHANGED <<zoneTold, zone_area_map, streamAt, todo, unheard>>,
         \A z \in Zones : z \in dropped => z \in dropped'
  PROVE  ZonesTold'
BY DEF ZonesTold

(* What the stream thread does to the zones.                               *)
LEMMA ZonesByStream == ASSUME TypeOK, ZonesTold, StreamThread PROVE ZonesTold'
<1>1. CASE Connect
  BY <1>1 DEF Connect, ZonesTold, streamRest
<1>2. CASE ConnectFails
  BY <1>2 DEF ConnectFails, Disconnect, ZonesTold
<1>3. CASE Break
  BY <1>3 DEF Break, Disconnect, ZonesTold
<1>4. CASE StreamReports
  <2>1. \A z \in Zones : z \in dropped => z \in dropped'
    BY <1>4, ReportOf, ConstantsAssumption DEF StreamReports, ReportLink
  <2> QED BY <1>4, <2>1 DEF StreamReports, ZonesTold
<1>5. CASE ReadActive
  BY <1>5 DEF ReadActive, ZonesTold
<1>6. CASE ReadInactive
  BY <1>6 DEF ReadInactive, ZonesTold
<1>7. ASSUME NEW z \in Zones, PassOver(z) PROVE ZonesTold'
  BY <1>7 DEF PassOver, ZonesTold
<1>8. ASSUME NEW z \in Zones, ReportAlarm(z) PROVE ZonesTold'
  <2> SUFFICES ASSUME NEW y \in Zones, y \notin dropped'
               PROVE  /\ y \in zone_area_map' => zoneTold'[y] = "activate"
                      /\ zoneTold'[y] = "activate" =>
                            \/ y \in zone_area_map' \cup unheard'
                            \/ streamAt' = "zones" /\ y \in todo'
    BY DEF ZonesTold
  <2>1. CASE y = z
    BY <1>8, <2>1 DEF ReportAlarm, Stored, Lost, TypeOK
  <2>2. CASE y # z
    <3>1. y \notin dropped /\ zoneTold'[y] = zoneTold[y]
      BY <1>8, <2>2, ReportOf DEF ReportAlarm, TypeOK
    <3> QED BY <1>8, <2>2, <3>1 DEF ReportAlarm, ZonesTold
  <2> QED BY <2>1, <2>2
<1>9. ASSUME NEW z \in Zones, StillAlarming(z) PROVE ZonesTold'
  BY <1>9 DEF StillAlarming, Check, ZonesTold
<1>10. ASSUME NEW z \in Zones, ReportRestore(z) PROVE ZonesTold'
  <2> SUFFICES ASSUME NEW y \in Zones, y \notin dropped'
               PROVE  /\ y \in zone_area_map' => zoneTold'[y] = "activate"
                      /\ zoneTold'[y] = "activate" =>
                            \/ y \in zone_area_map' \cup unheard'
                            \/ streamAt' = "zones" /\ y \in todo'
    BY DEF ZonesTold
  <2>1. CASE y = z
    BY <1>10, <2>1 DEF ReportRestore, Stored, Lost, TypeOK
  <2>2. CASE y # z
    <3>1. y \notin dropped /\ zoneTold'[y] = zoneTold[y]
      BY <1>10, <2>2 DEF ReportRestore, Stored, Lost, TypeOK
    <3> QED BY <1>10, <2>2, <3>1 DEF ReportRestore, Check, ZonesTold
  <2> QED BY <2>1, <2>2
<1> QED BY <1>1, <1>2, <1>3, <1>4, <1>5, <1>6, <1>7, <1>8, <1>9, <1>10 DEF StreamThread

(* What the rest does to the zones.                                        *)
LEMMA ZonesByOthers ==
  ASSUME TypeOK, ZonesTold,
         Panel \/ SuperThread \/ StatusThread \/ Overdue \/ Process
  PROVE  ZonesTold'
<1> USE DEF streamState, superRest, statusRest, toldState
<1>1. CASE Panel
  BY <1>1 DEF Panel, OtherChange, Resend, ZoneChanges, ZonesTold
<1>2. CASE SuperPolls \/ Rate \/ PollFaults \/ Overdue
  BY <1>2, ZonesKept DEF SuperPolls, Rate, PollFaults, Overdue
<1>3. CASE SuperReports
  <2>1. \A z \in Zones : z \in dropped => z \in dropped'
    BY <1>3, ReportOf, ConstantsAssumption DEF SuperReports, ReportLink
  <2> QED BY <1>3, <2>1, ZonesKept DEF SuperReports
<1>4. CASE ReportFault
  <2>1. \A z \in Zones : z \in dropped => z \in dropped'
    BY <1>4, ReportOf, ConstantsAssumption DEF ReportFault
  <2>2. \A z \in Zones : z \in unheard => z \in unheard'
    BY <1>4, ConstantsAssumption DEF ReportFault
  <2> QED BY <1>4, <2>1, <2>2 DEF ReportFault, ZonesTold
<1>5. CASE StatusThread
  <2>1. \A z \in Zones : z \in dropped => z \in dropped'
    BY <1>5, ReportOf, ConstantsAssumption DEF StatusThread, PollStatus, ReportStatus
  <2> QED BY <1>5, <2>1, ZonesKept DEF StatusThread, PollStatus, ReportStatus
<1>6. CASE Stopped
  BY <1>6 DEF Stopped, ZonesTold
<1>7. CASE Process
  BY <1>6, <1>7, ZonesKept DEF Process, Crash, LcdToggles, Start, StartThreads, Pass
<1> QED BY <1>1, <1>2, <1>3, <1>4, <1>5, <1>7 DEF SuperThread

-----------------------------------------------------------------------------
(* The report of a change of the faults is the change, and its loss is     *)
(* remembered.                                                             *)
LEMMA FaultByReport ==
  ASSUME FaultAsked, FaultTold, ReportFault
  PROVE  FaultAsked' /\ FaultTold'
<1>1. superAt' = "sleep" /\ (active_faults' <=> active_faults)
  BY DEF ReportFault
<1>2. superAt = "activate" <=> active_faults
  BY DEF ReportFault, FaultAsked
<1>3. CASE Stored("fault") /\ faultTold' = superAt
  BY <1>1, <1>2, <1>3 DEF FaultAsked, FaultTold, ReportFault
<1>4. CASE Lost("fault")
  BY <1>1, <1>4 DEF FaultAsked, FaultTold, Lost
<1> QED BY <1>3, <1>4 DEF ReportFault

(* A poll that finds a change has its report before it.                    *)
LEMMA FaultByPoll ==
  ASSUME TypeOK, FaultTold, PollFaults
  PROVE  FaultAsked' /\ FaultTold'
<1>1. superAt = "faults" /\ UNCHANGED <<faultTold, dropped, unheard>>
  BY DEF PollFaults
<1>2. active_faults \in BOOLEAN /\ active_faults' \in BOOLEAN
  BY DEF PollFaults, TypeOK
<1>3. superAt' = IF active_faults' = active_faults THEN "sleep"
                 ELSE IF active_faults' THEN "activate" ELSE "restored"
  BY DEF PollFaults
<1>4. CASE active_faults' = active_faults
  BY <1>1, <1>2, <1>3, <1>4 DEF FaultAsked, FaultTold
<1>5. CASE active_faults' # active_faults
  BY <1>2, <1>3, <1>5 DEF FaultAsked, FaultTold
<1> QED BY <1>4, <1>5

(* The faults are not disturbed by what leaves them alone.                 *)
LEMMA FaultKept ==
  ASSUME FaultAsked, FaultTold, UNCHANGED <<active_faults, faultTold>>,
         superAt' = superAt \/ {superAt, superAt'} \cap {"activate", "restored"} = {},
         "fault" \in dropped => "fault" \in dropped',
         "fault" \in unheard => "fault" \in unheard'
  PROVE  FaultAsked' /\ FaultTold'
<1>1. CASE superAt' = superAt
  BY <1>1 DEF FaultAsked, FaultTold
<1>2. CASE {superAt, superAt'} \cap {"activate", "restored"} = {}
  BY <1>2 DEF FaultAsked, FaultTold
<1> QED BY <1>1, <1>2

(* Every other step keeps what is known of the faults, or forgets it.      *)
LEMMA FaultByOthers ==
  ASSUME TypeOK, FaultAsked, FaultTold, Next, ~ PollFaults, ~ ReportFault
  PROVE  FaultAsked' /\ FaultTold'
<1> USE ConstantsAssumption
<1> USE DEF superState, toldState
<1>1. CASE Panel
  BY <1>1, FaultKept DEF Panel, OtherChange, Resend, ZoneChanges
<1>2. CASE StreamThread
  <2>1. UNCHANGED <<superAt, active_faults, faultTold>>
    BY <1>2 DEF StreamThread, Connect, ConnectFails, Break, StreamReports, ReadActive,
                ReadInactive, PassOver, ReportAlarm, StillAlarming, ReportRestore, Check,
                Disconnect, streamRest, streamOther
  <2>2. "fault" \in dropped => "fault" \in dropped'
    BY <1>2 DEF StreamThread, Connect, ConnectFails, Break, StreamReports, ReadActive,
                ReadInactive, PassOver, ReportAlarm, StillAlarming, ReportRestore, Check,
                Disconnect, ReportLink, Stored, Lost
  <2>3. "fault" \in unheard => "fault" \in unheard'
    BY <1>2 DEF StreamThread, Connect, ConnectFails, Break, StreamReports, ReadActive,
                ReadInactive, PassOver, ReportAlarm, StillAlarming, ReportRestore, Check,
                TypeOK
  <2> QED BY <2>1, <2>2, <2>3, FaultKept
<1>3. CASE SuperPolls \/ SuperReports \/ Rate \/ Overdue
  <2>1. /\ UNCHANGED <<active_faults, faultTold, unheard>>
        /\ superAt' = superAt \/ {superAt, superAt'} \cap {"activate", "restored"} = {}
    BY <1>3 DEF SuperPolls, SuperReports, Rate, Overdue
  <2>2. "fault" \in dropped => "fault" \in dropped'
    BY <1>3 DEF SuperPolls, SuperReports, Rate, Overdue, ReportLink, Stored, Lost
  <2> QED BY <2>1, <2>2, FaultKept
<1>4. CASE StatusThread
  <2>1. "fault" \in dropped => "fault" \in dropped'
    BY <1>4 DEF StatusThread, PollStatus, ReportStatus, Stored, Lost
  <2> QED BY <1>4, <2>1, FaultKept DEF StatusThread, PollStatus, ReportStatus, statusRest
<1>5. CASE Stopped
  BY <1>5 DEF Stopped, FaultAsked, FaultTold
<1>6. CASE Start
  BY <1>6, FaultKept DEF Start
<1>7. CASE Process
  BY <1>5, <1>6, <1>7, FaultKept DEF Process, Crash, LcdToggles, StartThreads, Pass
<1> QED BY <1>1, <1>2, <1>3, <1>4, <1>7 DEF Next, SuperThread, Process

(* The cache of the status is told, or the loss of its report known.       *)
LEMMA StatusKept == ASSUME TypeOK, StatusTold, Next PROVE StatusTold'
<1>1. CASE PollStatus
  BY <1>1 DEF PollStatus, StatusTold
<1>2. CASE ReportStatus
  BY <1>2 DEF ReportStatus, StatusTold, Stored, Lost
<1>3. CASE Stopped
  BY <1>3 DEF Stopped, StatusTold
<1>4. CASE /\ UNCHANGED <<statusAt, status_cache, statusTold>>
           /\ "status" \in dropped => "status" \in dropped'
  BY <1>4 DEF StatusTold
<1> USE ConstantsAssumption DEF statusState, toldState
<1>5. CASE Panel \/ Overdue \/ SuperThread
  <2>1. UNCHANGED <<statusAt, status_cache, statusTold>>
    BY <1>5 DEF Panel, OtherChange, Resend, ZoneChanges, Overdue, SuperThread, SuperPolls,
                SuperReports, Rate, PollFaults, ReportFault, superRest
  <2>2. "status" \in dropped => "status" \in dropped'
    BY <1>5 DEF Panel, OtherChange, Resend, ZoneChanges, Overdue, SuperThread, SuperPolls,
                SuperReports, Rate, PollFaults, ReportFault, ReportLink, Stored, Lost
  <2> QED BY <1>4, <2>1, <2>2
<1>6. CASE StreamThread
  <2>1. UNCHANGED <<statusAt, status_cache, statusTold>>
    BY <1>6 DEF StreamThread, Connect, ConnectFails, Break, StreamReports, ReadActive,
                ReadInactive, PassOver, ReportAlarm, StillAlarming, ReportRestore, Check,
                Disconnect, streamRest, streamOther
  <2>2. "status" \in dropped => "status" \in dropped'
    BY <1>6 DEF StreamThread, Connect, ConnectFails, Break, StreamReports, ReadActive,
                ReadInactive, PassOver, ReportAlarm, StillAlarming, ReportRestore, Check,
                Disconnect, ReportLink, Stored, Lost
  <2> QED BY <1>4, <2>1, <2>2
<1>7. CASE Process
  BY <1>3, <1>4, <1>7 DEF Process, Crash, LcdToggles, Start, StartThreads, Pass
<1> QED BY <1>1, <1>2, <1>5, <1>6, <1>7 DEF Next, StatusThread, Process

-----------------------------------------------------------------------------
(* The report of a thread tells the state, or its loss or its being out of *)
(* date is known.                                                          *)
LEMMA LinkByReport ==
  ASSUME NEW status \in {"online", "LinkFail"}, ReportLink(status),
         panel_was_online \in BOOLEAN, panel_was_online' = panel_was_online
  PROVE  LinkTold'
<1>1. CASE Stored("link")
  <2>1. CASE "link" \in dropped'
    BY <2>1 DEF LinkTold
  <2>2. CASE linkTold' = status /\ crossed' = ((status = "online") # panel_was_online)
    <3>1. CASE (status = "online") # panel_was_online
      BY <2>2, <3>1 DEF LinkTold
    <3>2. CASE (status = "online") = panel_was_online
      BY <2>2, <3>2 DEF LinkTold
    <3> QED BY <3>1, <3>2
  <2> QED BY <1>1, <2>1, <2>2 DEF ReportLink, Lost
<1>2. CASE Lost("link")
  BY <1>2 DEF Lost, LinkTold
<1> QED BY <1>1, <1>2 DEF ReportLink

(* The link is not disturbed by what leaves it alone, or starts a report.  *)
LEMMA LinkKept ==
  ASSUME LinkTold, UNCHANGED <<panel_was_online, linkTold, crossed>>,
         hik \in {"starting", "exited"} => hik' \in {"starting", "exited"},
         streamAt \in {"online", "LinkFail"} => streamAt' = streamAt,
         superAt \in {"online", "LinkFail", "beat"} => superAt' = superAt,
         "link" \in dropped => "link" \in dropped'
  PROVE  LinkTold'
BY DEF LinkTold

(* The steps of the stream thread.                                         *)
LEMMA LinkByStream ==
  ASSUME TypeOK, LinkTold, Starting, StreamThread
  PROVE  Starting' /\ LinkTold'
<1> USE DEF streamRest, streamOther, superState
<1>1. CASE Connect
  <2>1. /\ hik' = "up" /\ streamAt = "down" /\ superAt' = superAt
        /\ UNCHANGED <<linkTold, dropped, crossed>>
    BY <1>1 DEF Connect
  <2>2. panel_was_online' = TRUE
    BY <1>1 DEF Connect
  <2>3. CASE panel_was_online
    BY <2>1, <2>2, <2>3, <1>1 DEF LinkTold, Starting, Connect
  <2>4. CASE ~ panel_was_online
    <3>1. streamAt' = "online"
      BY <1>1, <2>4 DEF Connect
    <3> QED BY <2>1, <2>2, <3>1 DEF LinkTold, Starting
  <2> QED BY <2>3, <2>4
<1>2. CASE ConnectFails \/ Break
  <2>1. /\ hik' = hik /\ hik # "starting" /\ streamAt \in {"down", "read"}
        /\ superAt' = superAt
        /\ UNCHANGED <<linkTold, dropped, crossed>>
    BY <1>2 DEF ConnectFails, Break, Disconnect, Starting
  <2>2. panel_was_online' = FALSE
    BY <1>2 DEF ConnectFails, Break, Disconnect
  <2>3. CASE panel_was_online
    <3>1. streamAt' = "LinkFail"
      BY <1>2, <2>3 DEF ConnectFails, Break, Disconnect
    <3> QED BY <2>1, <2>2, <3>1 DEF LinkTold, Starting
  <2>4. CASE ~ panel_was_online
    BY <2>1, <2>2, <2>4 DEF LinkTold, Starting
  <2> QED BY <2>3, <2>4
<1>3. CASE StreamReports
  <2>1. streamAt \in {"online", "LinkFail"} /\ ReportLink(streamAt) /\ hik' = hik
    BY <1>3 DEF StreamReports
  <2>2. panel_was_online \in BOOLEAN /\ panel_was_online' = panel_was_online
    BY <1>3 DEF StreamReports, TypeOK
  <2> QED BY <2>1, <2>2, LinkByReport DEF Starting
<1>4. ASSUME NEW z \in Zones,
             ReadActive \/ ReadInactive \/ PassOver(z) \/ ReportAlarm(z)
               \/ StillAlarming(z) \/ ReportRestore(z)
      PROVE  Starting' /\ LinkTold'
  <2>1. /\ UNCHANGED <<hik, superAt, panel_was_online, linkTold, crossed>>
        /\ streamAt \in {"read", "zones", "check"}
    BY <1>4 DEF ReadActive, ReadInactive, PassOver, ReportAlarm, StillAlarming, ReportRestore,
                Check
  <2>2. "link" \in dropped => "link" \in dropped'
    BY <1>4, ConstantsAssumption DEF ReadActive, ReadInactive, PassOver, ReportAlarm,
                StillAlarming, ReportRestore, Check, Stored, Lost
  <2> QED BY <2>1, <2>2, LinkKept DEF Starting
<1>5. CASE ReadActive \/ ReadInactive
  <2>1. /\ UNCHANGED <<hik, superAt, panel_was_online, linkTold, crossed, dropped>>
        /\ streamAt = "read"
    BY <1>5 DEF ReadActive, ReadInactive
  <2> QED BY <2>1, LinkKept DEF Starting
<1> QED BY <1>1, <1>2, <1>3, <1>4, <1>5 DEF StreamThread

(* The steps of the supervision.                                           *)
LEMMA LinkBySuper ==
  ASSUME TypeOK, LinkTold, Starting, SuperThread
  PROVE  Starting' /\ LinkTold'
<1> USE DEF superRest, streamState
<1>1. CASE SuperPolls
  <2>1. /\ hik' = hik /\ hik = "up" /\ superAt = "sleep"
        /\ UNCHANGED <<streamAt, linkTold, dropped, crossed>>
    BY <1>1 DEF SuperPolls
  <2>2. CASE panel_was_online' = TRUE /\ superAt' = IF panel_was_online THEN "rate" ELSE "online"
    <3>1. CASE panel_was_online
      BY <2>1, <2>2, <3>1 DEF LinkTold, Starting
    <3>2. CASE ~ panel_was_online
      BY <2>1, <2>2, <3>2 DEF LinkTold, Starting
    <3> QED BY <3>1, <3>2
  <2>3. CASE panel_was_online' = FALSE /\ superAt' = "LinkFail"
    BY <2>1, <2>3 DEF LinkTold, Starting
  <2> QED BY <1>1, <2>2, <2>3 DEF SuperPolls
<1>2. CASE SuperReports
  <2>1. /\ ReportLink(IF superAt = "LinkFail" THEN "LinkFail" ELSE "online")
        /\ UNCHANGED <<hik, streamAt>>
    BY <1>2 DEF SuperReports
  <2>2. panel_was_online \in BOOLEAN /\ panel_was_online' = panel_was_online
    BY <1>2 DEF SuperReports, TypeOK
  <2> QED BY <2>1, <2>2, LinkByReport DEF Starting
<1>3. CASE Rate \/ PollFaults
  BY <1>3, LinkKept DEF Rate, PollFaults, Starting
<1>4. CASE ReportFault
  <2>1. "link" \in dropped => "link" \in dropped'
    BY <1>4 DEF ReportFault, Stored, Lost
  <2> QED BY <1>4, <2>1, LinkKept DEF ReportFault, Starting
<1> QED BY <1>1, <1>2, <1>3, <1>4 DEF SuperThread

(* All the other steps.                                                    *)
LEMMA LinkByOthers ==
  ASSUME TypeOK, LinkTold, Starting, Panel \/ StatusThread \/ Overdue \/ Process
  PROVE  Starting' /\ LinkTold'
<1> USE DEF streamState, superState, toldState, superRest, statusRest
<1>1. CASE Panel \/ Overdue
  BY <1>1, LinkKept DEF Panel, OtherChange, Resend, ZoneChanges, Overdue, Starting
<1>2. CASE StatusThread
  <2>1. "link" \in dropped => "link" \in dropped'
    BY <1>2 DEF StatusThread, PollStatus, ReportStatus, Stored, Lost
  <2> QED BY <1>2, <2>1, LinkKept DEF StatusThread, PollStatus, ReportStatus, Starting
<1>3. CASE Stopped
  BY <1>3 DEF Stopped, LinkTold, Starting
<1>4. CASE Start
  <2>1. /\ hik = "starting" /\ UNCHANGED <<streamAt, panel_was_online>>
        /\ hik' = "exited" \/ (hik' = "startup" /\ superAt' = "beat")
    BY <1>4 DEF Start
  <2> QED BY <2>1 DEF Starting, LinkTold
<1>5. CASE StartThreads
  BY <1>5, LinkKept DEF StartThreads, Starting
<1>6. CASE Process
  BY <1>3, <1>4, <1>5, <1>6, LinkKept DEF Process, Crash, LcdToggles, Pass, Starting
<1> QED BY <1>1, <1>2, <1>6

(* What the threads remember to have reported is what ThingsBoard was told *)
(* last, or its report is under way, or was lost, overtaken or forgotten:  *)
(* at every moment, for every set of zones and any number of failures.     *)
IInv == TypeOK /\ MemoryIsTold /\ Starting /\ FaultAsked

THEOREM MemoryIsAlwaysTold == Spec => []MemoryIsTold
<1>1. Init => IInv
  <2>1. Init => TypeOK
    BY TypeInit
  <2>2. Init => ZonesTold /\ StatusTold /\ FaultAsked
    BY DEF Init, ZonesTold, StatusTold, FaultAsked
  <2>3. Init => FaultTold
    BY DEF Init, FaultTold
  <2>4. Init => LinkTold /\ Starting
    BY DEF Init, LinkTold, Starting
  <2> QED BY <2>1, <2>2, <2>3, <2>4 DEF IInv, MemoryIsTold
<1>2. IInv /\ [Next]_vars => IInv'
  <2> SUFFICES ASSUME IInv, [Next]_vars PROVE IInv'
    OBVIOUS
  <2>1. TypeOK'
    BY TypeStep DEF IInv
  <2>2. CASE UNCHANGED vars
    BY <2>1, <2>2 DEF IInv, MemoryIsTold, ZonesTold, FaultTold, StatusTold, LinkTold, Starting,
                FaultAsked, vars, streamState, superState, statusState, toldState
  <2>3. CASE Next
    <3> TypeOK /\ MemoryIsTold /\ Starting /\ FaultAsked
      BY DEF IInv
    <3>1. ZonesTold'
      BY <2>3, ZonesByStream, ZonesByOthers DEF MemoryIsTold, Next, Process
    <3>2. FaultAsked' /\ FaultTold'
      BY <2>3, FaultByReport, FaultByPoll, FaultByOthers DEF MemoryIsTold
    <3>3. StatusTold'
      BY <2>3, StatusKept DEF MemoryIsTold
    <3>4. Starting' /\ LinkTold'
      BY <2>3, LinkByStream, LinkBySuper, LinkByOthers DEF MemoryIsTold, Next, Process
    <3> QED BY <2>1, <3>1, <3>2, <3>3, <3>4 DEF IInv, MemoryIsTold
  <2> QED BY <2>2, <2>3
<1>3. IInv => MemoryIsTold
  BY DEF IInv
<1> QED BY <1>1, <1>2, <1>3, PTL DEF Spec

-----------------------------------------------------------------------------
(* TexecomIntegration.  The messages of the panel go from the wire to the  *)
(* thread that reads them, from there to the rows it is about to insert,   *)
(* or, of an incident, to what a timer reports later.  The invariant says  *)
(* of every event which of these ways it is on, and of mains and battery   *)
(* that the last word on the wire is the panel's, and that what has been   *)
(* read and may still be acted on does not contradict it.                  *)

(* What the panel has to say of an event, what an answer carries, what may *)
(* be on the wire, what may be about to be reported.                       *)
Tidings == {"incident", "direct", "omit", "bypass", "unlisted"}
Readings == [mains : {"ON", "OFF"}, battery : {"fine", "alarm"}, drift : BOOLEAN]
Messages ==
    ({"answer"} \X Commands \X BOOLEAN \X Readings) \cup ({"zone"} \X TexecomZones)
      \cup ({"mains"} \X {"ON", "OFF"}) \cup ({"battery"} \X {"fine", "alarm"})
      \cup (Tidings \X (Nat \ {0}))
MainsStates == {"None", "ON", "OFF"}
BatteryStates == {"None", "ON", "LOW", "DISCONNECTED"}
Reports ==
    ({"event"} \X (Nat \ {0})) \cup ({"mains"} \X {"ON", "OFF"}) \cup ({"battery"} \X BatteryStates)
      \cup ({"initial"} \X MainsStates \X BatteryStates) \cup ({"panel"} \X {"ON", "OFF"})
      \cup ({"beat"} \X {"online", "LinkFail"}) \cup ({"drift"} \X BOOLEAN)
Results == {<< >>, failed} \cup ({"ok"} \X Readings)
Excuses ==
    ({"late"} \X {"mains", "battery"})
      \cup ({"told", "zone", "mains", "battery", "drift", "panel", "beat"} \X Nat)

Panels == [accepts : BOOLEAN, subscribed : BOOLEAN, mains : {"ON", "OFF"}, unsaid : BOOLEAN,
           battery : {"fine", "alarm"}, drift : BOOLEAN]
CallStates == [of : Commands \cup {"nothing"}, tries : Int, result : Results]
ConnStates == [last_command : {<< >>} \cup (Commands \X BOOLEAN),
               last_received : {"none", "former", "present"}]
Minds == [mains : MainsStates, battery : BatteryStates, panel : {"UNKNOWN", "ON", "OFF"},
          BATTERY_ALARM_ACTIVE : BOOLEAN, BATTERY_CONFIRMED : BOOLEAN, HISTORY : Nat,
          PENDING_INCIDENT : Nat, timers : Nat, clearing : Nat,
          EVENT_CONTEXT : SUBSET TexecomZones, recent : BOOLEAN,
          OMIT_CONTEXT : BOOLEAN, POWER_STATE_SENT : BOOLEAN, last_drift_alert : BOOLEAN]
ToldStates == [panel : {"none", "ON", "OFF"}, beat : {"none", "online", "LinkFail"},
               mains : MainsStates, battery : BatteryStates, drift : BOOLEAN]
Places == {"connect", "sleep", "status", "login", "events", "init", "on", "time", "volt", "once", "listen"}

(* The types of the Texecom integration.                                   *)
TexecomTypeOK ==
    /\ topic \in Topics
    /\ panel \in Panels
    /\ events \in Seq(TexecomZones)
    /\ wire \in Seq(Messages)
    /\ s \in {"none", "open", "broken"}
    /\ active \in BOOLEAN
    /\ texecom \in {"starting", "up", "exited"}
    /\ at \in [Threads -> Places]
    /\ call \in [Threads -> CallStates]
    /\ evaluating \in [Threads -> {"no", "decide", "done"}]
    /\ rows \in [Threads -> Seq(Reports)]
    /\ conn \in ConnStates
    /\ mem \in Minds
    /\ connStat \in BOOLEAN
    /\ told \in ToldStates
    /\ toldEvents \in Seq([times : Nat, zone : Nat])
    /\ Len(toldEvents) = Len(events)
    /\ excused \subseteq Excuses
    /\ used \in Nat

(* What is on the wire w, and what is about to be reported.                *)
Tells(w, n) == \E i \in DOMAIN w : w[i][1] \in Tidings /\ w[i][2] = n
TellsOnce(w) ==
    \A i, j \in DOMAIN w :
        w[i][1] \in Tidings /\ w[j][1] \in Tidings /\ w[i][2] = w[j][2] => i = j
NoKeys(w) == \A i \in DOMAIN w : w[i][1] \notin {"direct", "omit", "bypass", "unlisted"}
News(w, what) == \E i \in DOMAIN w : w[i][1] = what
LastIs(w, what, state) ==
    \A i \in DOMAIN w :
        w[i][1] = what /\ (\A j \in DOMAIN w : j > i => w[j][1] # what) => w[i][2] = state
Carries(w, r) == \E i \in DOMAIN w : w[i][1] = "answer" /\ w[i][4] = r
UnderWay(r) == Carries(wire, r) \/ \E t \in Threads : call[t].result = <<"ok", r>>

Reporting(t, n) == \E i \in DOMAIN rows[t] : rows[t][i] = <<"event", n>>
InRows(n) == \E t \in Threads : Reporting(t, n)
RowsOnce ==
    \A t, u \in Threads : \A i \in DOMAIN rows[t], j \in DOMAIN rows[u] :
        rows[t][i][1] = "event" /\ rows[u][j] = rows[t][i] => t = u /\ i = j
Reported(what) == \E t \in Threads : \E i \in DOMAIN rows[t] : rows[t][i][1] \in {what, "initial"}

(* An event is known, on one way only, and told in the end.                *)
AllKnown ==
    /\ \A n \in Nat : Tells(wire, n) \/ InRows(n) \/ <<"told", n>> \in excused => n \in DOMAIN events
    /\ mem.PENDING_INCIDENT # 0 => mem.PENDING_INCIDENT \in DOMAIN events

OfTopic == topic = "incidents" => NoKeys(wire) /\ \A n \in Nat : ~ InRows(n)

Rightly(n, zones) == topic = "incidents" /\ <<"zone", n>> \notin excused => zones = {events[n]}
IsTold(n) == toldEvents[n].times = 1 /\ Rightly(n, {toldEvents[n].zone})
IsPending(n) ==
    \/ mem.timers = 1 /\ mem.clearing = 0 /\ toldEvents[n].times = 0 /\ Rightly(n, mem.EVENT_CONTEXT)
    \/ mem.timers = 0 /\ mem.clearing = 1 /\ IsTold(n)

OnOneWay(n) ==
    /\ Tells(wire, n) => ~ InRows(n) /\ mem.PENDING_INCIDENT # n /\ toldEvents[n].times = 0
    /\ InRows(n) => mem.PENDING_INCIDENT # n /\ toldEvents[n].times = 0
    /\ <<"told", n>> \notin excused =>
          /\ ~ Tells(wire, n) /\ ~ InRows(n) /\ mem.PENDING_INCIDENT # n => IsTold(n)
          /\ mem.PENDING_INCIDENT = n => IsPending(n)

OneWay == \A n \in DOMAIN events : OnOneWay(n)

EventsInv == TellsOnce(wire) /\ RowsOnce /\ AllKnown /\ OfTopic /\ OneWay

(* The mains: once the panel has said how they are, and it has been heard. *)
MainsInv ==
    ~ panel.unsaid /\ <<"mains", 0>> \notin excused =>
      /\ LastIs(wire, "mains", panel.mains)
      /\ ~ News(wire, "mains") =>
            /\ mem.mains \in {"None", panel.mains}
            /\ \A r \in Readings : UnderWay(r) /\ r.mains # panel.mains => mem.mains = panel.mains
            /\ \/ <<"late", "mains">> \in excused \/ Reported("mains")
               \/ told.mains \in {"None", panel.mains}

BatteryInv ==
    /\ mem.BATTERY_CONFIRMED => ~ mem.BATTERY_ALARM_ACTIVE
    /\ panel.battery = "fine" /\ <<"battery", 0>> \notin excused =>
      /\ LastIs(wire, "battery", "fine")
      /\ ~ News(wire, "battery") =>
            /\ ~ mem.BATTERY_ALARM_ACTIVE /\ mem.battery \in {"None", "ON"}
            /\ \A r \in Readings : UnderWay(r) /\ r.battery = "alarm" => mem.BATTERY_CONFIRMED
            /\ \/ <<"late", "battery">> \in excused \/ Reported("battery")
               \/ told.battery \notin {"LOW", "DISCONNECTED"}

DriftInv == mem.last_drift_alert => told.drift \/ <<"drift", 0>> \in excused

Evaluating ==
    \A t \in Threads :
        /\ evaluating[t] # "no" => call[t].result # << >>
        /\ evaluating[t] = "decide" => rows[t] = << >>

-----------------------------------------------------------------------------
(* Texecom: sequences of messages.                                         *)

(* A message at the end of the wire.                                       *)
LEMMA AtTheEnd ==
  ASSUME NEW w \in Seq(Messages), NEW m \in Messages
  PROVE  LET v == Append(w, m)
         IN /\ v \in Seq(Messages)
            /\ \A n : Tells(v, n) <=> Tells(w, n) \/ (m[1] \in Tidings /\ m[2] = n)
            /\ TellsOnce(w) /\ (m[1] \in Tidings => ~ Tells(w, m[2])) => TellsOnce(v)
            /\ NoKeys(v) <=> NoKeys(w) /\ m[1] \notin {"direct", "omit", "bypass", "unlisted"}
            /\ \A what : News(v, what) <=> News(w, what) \/ m[1] = what
            /\ \A what, x : LastIs(v, what, x) <=> IF m[1] = what THEN m[2] = x ELSE LastIs(w, what, x)
            /\ \A r : Carries(v, r) <=> Carries(w, r) \/ (m[1] = "answer" /\ m[4] = r)
<1> DEFINE v == Append(w, m)
<1>1. /\ v \in Seq(Messages) /\ DOMAIN v = 1 .. Len(w) + 1 /\ DOMAIN w = 1 .. Len(w) /\ Len(w) \in Nat
      /\ v[Len(w) + 1] = m /\ \A i \in DOMAIN w : v[i] = w[i]
  OBVIOUS
<1> HIDE DEF v
<1>2. \A i \in DOMAIN v : i \in DOMAIN w \/ i = Len(w) + 1
  BY <1>1
<1>3. \A i \in DOMAIN w : i \in DOMAIN v /\ i < Len(w) + 1
  BY <1>1
<1>4. Len(w) + 1 \in DOMAIN v
  BY <1>1
<1>5. \A n : Tells(v, n) <=> Tells(w, n) \/ (m[1] \in Tidings /\ m[2] = n)
  BY <1>1, <1>2, <1>3, <1>4 DEF Tells
<1>6. TellsOnce(w) /\ (m[1] \in Tidings => ~ Tells(w, m[2])) => TellsOnce(v)
  BY <1>1, <1>2, <1>3, <1>4 DEF Tells, TellsOnce
<1>7. NoKeys(v) <=> NoKeys(w) /\ m[1] \notin {"direct", "omit", "bypass", "unlisted"}
  BY <1>1, <1>2, <1>3, <1>4 DEF NoKeys
<1>8. \A what : News(v, what) <=> News(w, what) \/ m[1] = what
  BY <1>1, <1>2, <1>3, <1>4 DEF News
<1>9. ASSUME NEW what, NEW x PROVE LastIs(v, what, x) <=> IF m[1] = what THEN m[2] = x ELSE LastIs(w, what, x)
  <2>1. CASE m[1] = what
    BY <2>1, <1>1, <1>2, <1>3, <1>4 DEF LastIs
  <2>2. CASE m[1] # what
    BY <2>2, <1>1, <1>2, <1>3, <1>4 DEF LastIs
  <2> QED BY <2>1, <2>2
<1>10. \A r : Carries(v, r) <=> Carries(w, r) \/ (m[1] = "answer" /\ m[4] = r)
  BY <1>1, <1>2, <1>3, <1>4 DEF Carries
<1> QED BY <1>1, <1>5, <1>6, <1>7, <1>8, <1>9, <1>10 DEF v

(* The message at the front is received.                                   *)
LEMMA AtTheFront ==
  ASSUME NEW w \in Seq(Messages), w # << >>
  PROVE  LET v == Tail(w)  m == Head(w)
         IN /\ v \in Seq(Messages) /\ m \in Messages
            /\ \A n : Tells(w, n) <=> Tells(v, n) \/ (m[1] \in Tidings /\ m[2] = n)
            /\ TellsOnce(w) => TellsOnce(v) /\ (m[1] \in Tidings => ~ Tells(v, m[2]))
            /\ NoKeys(w) => NoKeys(v) /\ m[1] \notin {"direct", "omit", "bypass", "unlisted"}
            /\ \A what : News(w, what) <=> News(v, what) \/ m[1] = what
            /\ \A what, x : LastIs(w, what, x) => LastIs(v, what, x)
            /\ \A what, x : LastIs(w, what, x) /\ m[1] = what /\ ~ News(v, what) => m[2] = x
            /\ \A r : Carries(w, r) <=> Carries(v, r) \/ (m[1] = "answer" /\ m[4] = r)
<1> DEFINE v == Tail(w)  m == Head(w)
<1>1. /\ v \in Seq(Messages) /\ m \in Messages /\ DOMAIN w = 1 .. Len(w) /\ Len(w) \in Nat \ {0}
      /\ DOMAIN v = 1 .. Len(w) - 1 /\ m = w[1] /\ \A i \in DOMAIN v : v[i] = w[i + 1]
  OBVIOUS
<1> HIDE DEF v, m
<1>2. \A i \in DOMAIN w : i # 1 => i - 1 \in DOMAIN v /\ v[i - 1] = w[i] /\ i > 1
  BY <1>1
<1>3. \A i \in DOMAIN v : i + 1 \in DOMAIN w /\ i + 1 # 1 /\ i \in Int
  BY <1>1
<1>4. 1 \in DOMAIN w
  BY <1>1
<1>5. \A n : Tells(w, n) <=> Tells(v, n) \/ (m[1] \in Tidings /\ m[2] = n)
  BY <1>1, <1>2, <1>3, <1>4 DEF Tells
<1>6. TellsOnce(w) => TellsOnce(v) /\ (m[1] \in Tidings => ~ Tells(v, m[2]))
  <2> HAVE TellsOnce(w)
  <2>1. TellsOnce(v)
    BY <1>1, <1>2, <1>3, <1>4 DEF TellsOnce
  <2>2. ASSUME m[1] \in Tidings, NEW i \in DOMAIN v, v[i][1] \in Tidings, v[i][2] = m[2] PROVE FALSE
    BY <1>1, <1>3, <1>4, <2>2 DEF TellsOnce
  <2> QED BY <2>1, <2>2 DEF Tells
<1>7. NoKeys(w) => NoKeys(v) /\ m[1] \notin {"direct", "omit", "bypass", "unlisted"}
  BY <1>1, <1>2, <1>3, <1>4 DEF NoKeys
<1>8. \A what : News(w, what) <=> News(v, what) \/ m[1] = what
  BY <1>1, <1>2, <1>3, <1>4 DEF News
<1>9. ASSUME NEW what, NEW x, LastIs(w, what, x) PROVE LastIs(v, what, x)
  <2> SUFFICES ASSUME NEW i \in DOMAIN v, v[i][1] = what, \A j \in DOMAIN v : j > i => v[j][1] # what
               PROVE  v[i][2] = x
    BY DEF LastIs
  <2>1. i + 1 \in DOMAIN w /\ w[i + 1] = v[i] /\ i \in Int
    BY <1>1, <1>3
  <2>2. \A j \in DOMAIN w : j > i + 1 => w[j][1] # what
    BY <1>1, <1>2, <1>3
  <2> QED BY <1>9, <2>1, <2>2 DEF LastIs
<1>10. ASSUME NEW what, NEW x, LastIs(w, what, x), m[1] = what, ~ News(v, what) PROVE m[2] = x
  <2>1. \A j \in DOMAIN w : j > 1 => w[j][1] # what
    BY <1>1, <1>2, <1>10 DEF News
  <2> QED BY <1>1, <1>4, <1>10, <2>1 DEF LastIs
<1>11. \A r : Carries(w, r) <=> Carries(v, r) \/ (m[1] = "answer" /\ m[4] = r)
  BY <1>1, <1>2, <1>3, <1>4 DEF Carries
<1> QED BY <1>1, <1>5, <1>6, <1>7, <1>8, <1>9, <1>10, <1>11 DEF v, m

(* An empty wire.                                                          *)
LEMMA EmptyWire ==
  /\ << >> \in Seq(Messages)
  /\ \A n : ~ Tells(<< >>, n)
  /\ TellsOnce(<< >>) /\ NoKeys(<< >>)
  /\ \A what : ~ News(<< >>, what)
  /\ \A what, x : LastIs(<< >>, what, x)
  /\ \A r : ~ Carries(<< >>, r)
BY DEF Tells, TellsOnce, NoKeys, News, LastIs, Carries

(* A message is one of these.                                              *)
LEMMA MessageKinds ==
  ASSUME NEW m \in Messages
  PROVE  /\ \/ m[1] = "answer" /\ m = <<"answer", m[2], m[3], m[4]>> /\ m[2] \in Commands /\ m[3] \in BOOLEAN /\ m[4] \in Readings
            \/ m[1] = "zone" /\ m = <<"zone", m[2]>> /\ m[2] \in TexecomZones
            \/ m[1] = "mains" /\ m = <<"mains", m[2]>> /\ m[2] \in {"ON", "OFF"}
            \/ m[1] = "battery" /\ m = <<"battery", m[2]>> /\ m[2] \in {"fine", "alarm"}
            \/ m[1] \in Tidings /\ m = <<m[1], m[2]>> /\ m[2] \in Nat \ {0}
BY DEF Messages, Tidings

(* A function on 1 .. n is a sequence, one of four a tuple.                *)
LEMMA FunctionIsSequence ==
  ASSUME NEW S, NEW n \in Nat, NEW v \in [1 .. n -> S]
  PROVE  v \in Seq(S) /\ Len(v) = n
OBVIOUS

(* A sequence of length four is the tuple of its elements.                 *)
LEMMA FourTuple ==
  ASSUME NEW S, NEW v \in Seq(S), Len(v) = 4
  PROVE  v = <<v[1], v[2], v[3], v[4]>>
OBVIOUS

(* An answer that is outdated is the same but for that.                    *)
LEMMA OutdatedAnswer ==
  ASSUME NEW c \in Commands, NEW b \in BOOLEAN, NEW r \in Readings,
         NEW m, NEW v, m = <<"answer", c, b, r>>, v = [m EXCEPT ![3] = FALSE]
  PROVE  v = <<"answer", c, FALSE, r>>
<1> DEFINE X == {"answer"} \cup Commands \cup BOOLEAN \cup Readings
<1>1. m \in [1 .. 4 -> X]
  OBVIOUS
<1>2. v \in [1 .. 4 -> X]
  BY <1>1
<1> HIDE DEF X
<1>3. v \in Seq(X) /\ Len(v) = 4
  <2>1. PICK n \in Nat : n = 4
    OBVIOUS
  <2>2. v \in [1 .. n -> X]
    BY <1>2, <2>1
  <2>3. v \in Seq(X) /\ Len(v) = n
    BY <2>2, FunctionIsSequence
  <2> QED BY <2>1, <2>3
<1>4. v[1] = "answer" /\ v[2] = c /\ v[4] = r
  OBVIOUS
<1>5. v[3] = FALSE
  OBVIOUS
<1> QED BY <1>3, <1>4, <1>5, FourTuple

(* What was asked before is outdated, and nothing else changes.            *)
LEMMA OutdatedWire ==
  ASSUME wire \in Seq(Messages)
  PROVE  /\ Outdated \in Seq(Messages)
         /\ \A n : Tells(Outdated, n) <=> Tells(wire, n)
         /\ TellsOnce(wire) => TellsOnce(Outdated)
         /\ NoKeys(wire) => NoKeys(Outdated)
         /\ \A what : News(Outdated, what) <=> News(wire, what)
         /\ \A what \in {"mains", "battery"} : \A x : LastIs(Outdated, what, x) <=> LastIs(wire, what, x)
         /\ \A r : Carries(Outdated, r) <=> Carries(wire, r)
<1> DEFINE v == Outdated
<1>1. DOMAIN wire = 1 .. Len(wire) /\ Len(wire) \in Nat /\ \A i \in DOMAIN wire : wire[i] \in Messages
  OBVIOUS
<1>2. DOMAIN v = DOMAIN wire
  BY DEF Outdated
<1>3. ASSUME NEW i \in DOMAIN wire
      PROVE  /\ v[i] \in Messages /\ v[i][1] = wire[i][1] /\ v[i][2] = wire[i][2]
             /\ wire[i][1] = "answer" => v[i][4] = wire[i][4]
  <2>1. CASE wire[i][1] = "answer"
    <3>1. v[i] = [wire[i] EXCEPT ![3] = FALSE]
      BY <2>1 DEF Outdated, IsAnswer
    <3>2. PICK c \in Commands, b \in BOOLEAN, r \in Readings : wire[i] = <<"answer", c, b, r>>
      <4>1. wire[i] \in Messages
        BY <1>1
      <4>2. wire[i][1] \notin Tidings /\ wire[i][1] \notin {"zone", "mains", "battery"}
        BY <2>1 DEF Tidings
      <4> QED BY <2>1, <4>1, <4>2, MessageKinds
    <3>3. v[i] = <<"answer", c, FALSE, r>>
      BY <3>1, <3>2, OutdatedAnswer
    <3>4. <<"answer", c, FALSE, r>> \in Messages
      BY DEF Messages
    <3> QED BY <3>2, <3>3, <3>4
  <2>2. CASE wire[i][1] # "answer"
    BY <1>1, <2>2 DEF Outdated, IsAnswer
  <2> QED BY <2>1, <2>2
<1>4. v \in Seq(Messages)
  <2>1. v \in [1 .. Len(wire) -> Messages]
    BY <1>1, <1>2, <1>3 DEF Outdated
  <2> QED BY <1>1, <2>1
<1> HIDE DEF v
<1>5. \A n : Tells(v, n) <=> Tells(wire, n)
  BY <1>2, <1>3 DEF Tells
<1>6. TellsOnce(wire) => TellsOnce(v)
  BY <1>2, <1>3 DEF TellsOnce
<1>7. NoKeys(wire) => NoKeys(v)
  BY <1>2, <1>3 DEF NoKeys
<1>8. \A what : News(v, what) <=> News(wire, what)
  BY <1>2, <1>3 DEF News
<1>9. \A what \in {"mains", "battery"} : \A x : LastIs(v, what, x) <=> LastIs(wire, what, x)
  BY <1>2, <1>3 DEF LastIs
<1>10. \A r : Carries(v, r) <=> Carries(wire, r)
  BY <1>2, <1>3 DEF Carries
<1> QED BY <1>4, <1>5, <1>6, <1>7, <1>8, <1>9, <1>10 DEF v

-----------------------------------------------------------------------------
(* Texecom: what was missed.                                               *)

(* What is missed with the messages w: what they tell, and no more.        *)
LEMMA MissingIs ==
  ASSUME NEW w \in Seq(Messages)
  PROVE  /\ \A n : <<"told", n>> \in Missing(w) <=> Tells(w, n)
         /\ \A n : <<"zone", n>> \notin Missing(w) /\ <<"late", n>> \notin Missing(w) /\ <<"drift", n>> \notin Missing(w)
         /\ \A what \in {"mains", "battery"} : <<what, 0>> \in Missing(w) <=> News(w, what)
         /\ Missing(w) \subseteq Excuses
<1>1. \A i \in DOMAIN w : w[i] \in Messages
  OBVIOUS
<1>2. ASSUME NEW i \in DOMAIN w
      PROVE  /\ \A n : <<"told", n>> \in (IF IsAnswer(w[i]) THEN {} ELSE Subject(w[i])) <=> w[i][1] \in Tidings /\ w[i][2] = n
             /\ \A n : <<"zone", n>> \notin (IF IsAnswer(w[i]) THEN {} ELSE Subject(w[i]))
             /\ \A n : <<"late", n>> \notin (IF IsAnswer(w[i]) THEN {} ELSE Subject(w[i]))
             /\ \A n : <<"drift", n>> \notin (IF IsAnswer(w[i]) THEN {} ELSE Subject(w[i]))
             /\ \A what \in {"mains", "battery"} :
                   <<what, 0>> \in (IF IsAnswer(w[i]) THEN {} ELSE Subject(w[i])) <=> w[i][1] = what
             /\ (IF IsAnswer(w[i]) THEN {} ELSE Subject(w[i])) \subseteq Excuses
  <2>1. CASE w[i][1] = "answer"
    BY <2>1 DEF IsAnswer, Tidings
  <2>2. CASE w[i][1] = "zone"
    BY <2>2 DEF IsAnswer, Subject, Tidings
  <2>3. CASE w[i][1] = "mains"
    BY <2>3 DEF IsAnswer, Subject, Tidings, Excuses
  <2>4. CASE w[i][1] = "battery"
    BY <2>4 DEF IsAnswer, Subject, Tidings, Excuses
  <2>5. CASE w[i][1] \in Tidings
    <3>1. w[i][2] \in Nat
      BY <1>1, <2>5, MessageKinds DEF Tidings
    <3> QED BY <2>5, <3>1 DEF IsAnswer, Subject, Tidings, Excuses
  <2> QED BY <1>1, <2>1, <2>2, <2>3, <2>4, <2>5, MessageKinds
<1> QED BY <1>2 DEF Missing, Tells, News

(* One message is missed.                                                  *)
LEMMA MissingOne ==
  ASSUME NEW m \in Messages
  PROVE  /\ \A n : <<"told", n>> \in Missing(<<m>>) <=> m[1] \in Tidings /\ m[2] = n
         /\ \A n : <<"zone", n>> \notin Missing(<<m>>) /\ <<"late", n>> \notin Missing(<<m>>) /\ <<"drift", n>> \notin Missing(<<m>>)
         /\ \A what \in {"mains", "battery"} : <<what, 0>> \in Missing(<<m>>) <=> m[1] = what
         /\ Missing(<<m>>) \subseteq Excuses
<1>1. <<m>> \in Seq(Messages) /\ DOMAIN <<m>> = {1} /\ <<m>>[1] = m
  OBVIOUS
<1>2. \A n : Tells(<<m>>, n) <=> m[1] \in Tidings /\ m[2] = n
  BY <1>1 DEF Tells
<1>3. \A what : News(<<m>>, what) <=> m[1] = what
  BY <1>1 DEF News
<1> QED BY <1>1, <1>2, <1>3, MissingIs

-----------------------------------------------------------------------------
(* Texecom: quiet steps.                                                   *)

Now(r) == r.mains = panel.mains /\ r.battery = panel.battery

KeepsNews(what) ==
    <<what, 0>> \notin excused' =>
      /\ News(wire', what) <=> News(wire, what)
      /\ \A x : LastIs(wire, what, x) => LastIs(wire', what, x)

EventsWire ==
    /\ \A n : Tells(wire', n) => Tells(wire, n)
    /\ \A n : Tells(wire, n) /\ ~ Tells(wire', n) => <<"told", n>> \in excused'
    /\ TellsOnce(wire) => TellsOnce(wire')
    /\ NoKeys(wire) => NoKeys(wire')

ReadingsWire == \A r : Carries(wire', r) => Carries(wire, r) \/ Now(r)

QuietWire == EventsWire /\ ReadingsWire /\ KeepsNews("mains") /\ KeepsNews("battery")

KeepsContext ==
    LET n == mem.PENDING_INCIDENT
    IN  \/ n = 0 \/ <<"zone", n>> \in excused' \/ topic # "incidents"
        \/ mem.EVENT_CONTEXT = {events[n]} => mem'.EVENT_CONTEXT = {events[n]}

QuietEvents ==
    /\ UNCHANGED <<topic, events, toldEvents>> /\ 0 \notin DOMAIN events
    /\ mem'.PENDING_INCIDENT = mem.PENDING_INCIDENT
    /\ mem'.timers = mem.timers /\ mem'.clearing = mem.clearing
    /\ KeepsContext
    /\ \A n : InRows(n)' <=> InRows(n)
    /\ RowsOnce => RowsOnce'
    /\ \A n : <<"told", n>> \in excused => <<"told", n>> \in excused'
    /\ \A n : <<"told", n>> \in excused' => <<"told", n>> \in excused \/ n \in DOMAIN events
    /\ \A n : <<"zone", n>> \in excused => <<"zone", n>> \in excused'

NewReadings ==
    \A r : (\E t \in Threads : call'[t].result = <<"ok", r>>) => UnderWay(r) \/ Now(r)

QuietMains ==
    /\ mem'.mains = mem.mains /\ told'.mains = told.mains
    /\ panel'.mains = panel.mains /\ panel'.unsaid = panel.unsaid
    /\ Reported("mains") => Reported("mains")'
    /\ <<"mains", 0>> \in excused => <<"mains", 0>> \in excused'
    /\ <<"late", "mains">> \in excused => <<"late", "mains">> \in excused'
    /\ NewReadings

QuietBattery ==
    /\ mem'.battery = mem.battery /\ told'.battery = told.battery
    /\ mem'.BATTERY_ALARM_ACTIVE = mem.BATTERY_ALARM_ACTIVE
    /\ mem'.BATTERY_CONFIRMED = mem.BATTERY_CONFIRMED
    /\ panel'.battery = panel.battery
    /\ Reported("battery") => Reported("battery")'
    /\ <<"battery", 0>> \in excused => <<"battery", 0>> \in excused'
    /\ <<"late", "battery">> \in excused => <<"late", "battery">> \in excused'
    /\ NewReadings

QuietDrift ==
    /\ mem'.last_drift_alert = mem.last_drift_alert /\ told'.drift = told.drift
    /\ <<"drift", 0>> \in excused => <<"drift", 0>> \in excused'

(* A quiet step keeps what is said of the events, of the mains, of the     *)
(* battery and of the drift.                                               *)
LEMMA QuietForEvents == ASSUME EventsInv, EventsWire, QuietEvents PROVE EventsInv'
<1>1. TellsOnce(wire)' /\ RowsOnce'
  BY DEF EventsInv, EventsWire, QuietEvents
<1>2. AllKnown'
  BY DEF EventsInv, AllKnown, EventsWire, QuietEvents
<1>3. OfTopic'
  BY DEF EventsInv, OfTopic, EventsWire, QuietEvents
<1>4. OneWay'
  <2>0. ASSUME NEW n \in DOMAIN events PROVE OnOneWay(n)'
    <3>2. IsTold(n) => IsTold(n)'
      BY DEF IsTold, Rightly, QuietEvents
    <3>3. mem.PENDING_INCIDENT = n /\ IsPending(n) => IsPending(n)'
      <4> SUFFICES ASSUME mem.PENDING_INCIDENT = n, IsPending(n) PROVE IsPending(n)'
        OBVIOUS
      <4>1. n # 0
        BY DEF QuietEvents
      <4>2. Rightly(n, mem.EVENT_CONTEXT) => Rightly(n, mem.EVENT_CONTEXT)'
        BY <4>1 DEF Rightly, QuietEvents, KeepsContext
      <4> QED BY <3>2, <4>2 DEF IsPending, QuietEvents
    <3>4. <<"told", n>> \notin excused' => <<"told", n>> \notin excused /\ (Tells(wire, n) <=> Tells(wire', n))
      BY DEF EventsWire, QuietEvents
    <3>5. /\ Tells(wire', n) => Tells(wire, n)
          /\ InRows(n)' <=> InRows(n)
          /\ mem'.PENDING_INCIDENT = mem.PENDING_INCIDENT /\ toldEvents' = toldEvents
      BY DEF EventsWire, QuietEvents
    <3>6. /\ Tells(wire, n) => ~ InRows(n) /\ mem.PENDING_INCIDENT # n /\ toldEvents[n].times = 0
          /\ InRows(n) => mem.PENDING_INCIDENT # n /\ toldEvents[n].times = 0
          /\ <<"told", n>> \notin excused =>
                /\ ~ Tells(wire, n) /\ ~ InRows(n) /\ mem.PENDING_INCIDENT # n => IsTold(n)
                /\ mem.PENDING_INCIDENT = n => IsPending(n)
      BY <2>0 DEF EventsInv, OneWay, OnOneWay
    <3>7. Tells(wire', n) => ~ InRows(n)' /\ mem'.PENDING_INCIDENT # n /\ toldEvents'[n].times = 0
      BY <3>5, <3>6
    <3>8. InRows(n)' => mem'.PENDING_INCIDENT # n /\ toldEvents'[n].times = 0
      BY <3>5, <3>6
    <3>9. ASSUME <<"told", n>> \notin excused'
          PROVE  /\ ~ Tells(wire', n) /\ ~ InRows(n)' /\ mem'.PENDING_INCIDENT # n => IsTold(n)'
                 /\ mem'.PENDING_INCIDENT = n => IsPending(n)'
      BY <3>2, <3>3, <3>4, <3>5, <3>6, <3>9
    <3> QED BY <3>7, <3>8, <3>9 DEF OnOneWay
  <2>1. events' = events
    BY DEF QuietEvents
  <2> QED BY <2>0, <2>1 DEF OneWay
<1> QED BY <1>1, <1>2, <1>3, <1>4 DEF EventsInv

(* The same of the mains.                                                  *)
LEMMA QuietForMains == ASSUME MainsInv, KeepsNews("mains"), ReadingsWire, QuietMains PROVE MainsInv'
<1> SUFFICES ASSUME ~ panel'.unsaid, <<"mains", 0>> \notin excused'
             PROVE  /\ LastIs(wire', "mains", panel'.mains)
                    /\ ~ News(wire', "mains") =>
                          /\ mem'.mains \in {"None", panel'.mains}
                          /\ \A r \in Readings : UnderWay(r)' /\ r.mains # panel'.mains => mem'.mains = panel'.mains
                          /\ \/ <<"late", "mains">> \in excused' \/ Reported("mains")'
                             \/ told'.mains \in {"None", panel'.mains}
  BY DEF MainsInv
<1>1. ~ panel.unsaid /\ <<"mains", 0>> \notin excused
  BY DEF QuietMains
<1>2. LastIs(wire', "mains", panel'.mains)
  BY <1>1 DEF MainsInv, KeepsNews, QuietMains
<1>3. ASSUME NEW r \in Readings, UnderWay(r)', r.mains # panel.mains PROVE UnderWay(r)
  BY <1>3 DEF UnderWay, QuietMains, ReadingsWire, NewReadings, Now
<1>4. ~ News(wire', "mains") => ~ News(wire, "mains")
  BY DEF KeepsNews
<1> QED BY <1>1, <1>2, <1>3, <1>4 DEF MainsInv, QuietMains

(* The same of the battery.                                                *)
LEMMA QuietForBattery == ASSUME BatteryInv, KeepsNews("battery"), ReadingsWire, QuietBattery PROVE BatteryInv'
<1>0. mem'.BATTERY_CONFIRMED => ~ mem'.BATTERY_ALARM_ACTIVE
  BY DEF BatteryInv, QuietBattery
<1> SUFFICES ASSUME panel'.battery = "fine", <<"battery", 0>> \notin excused'
             PROVE  /\ LastIs(wire', "battery", "fine")
                    /\ ~ News(wire', "battery") =>
                          /\ ~ mem'.BATTERY_ALARM_ACTIVE /\ mem'.battery \in {"None", "ON"}
                          /\ \A r \in Readings : UnderWay(r)' /\ r.battery = "alarm" => mem'.BATTERY_CONFIRMED
                          /\ \/ <<"late", "battery">> \in excused' \/ Reported("battery")'
                             \/ told'.battery \notin {"LOW", "DISCONNECTED"}
  BY <1>0 DEF BatteryInv
<1>1. panel.battery = "fine" /\ <<"battery", 0>> \notin excused
  BY DEF QuietBattery
<1>2. LastIs(wire', "battery", "fine")
  BY <1>1 DEF BatteryInv, KeepsNews
<1>3. ASSUME NEW r \in Readings, UnderWay(r)', r.battery = "alarm" PROVE UnderWay(r)
  BY <1>1, <1>3 DEF UnderWay, QuietBattery, ReadingsWire, NewReadings, Now
<1>4. ~ News(wire', "battery") => ~ News(wire, "battery")
  BY DEF KeepsNews
<1> QED BY <1>1, <1>2, <1>3, <1>4 DEF BatteryInv, QuietBattery

(* The same of the drift.                                                  *)
LEMMA QuietForDrift == ASSUME DriftInv, QuietDrift PROVE DriftInv'
BY DEF DriftInv, QuietDrift

(* The wire is left alone, or what goes from it are answers, or is missed. *)
LEMMA WireLeft == ASSUME UNCHANGED wire PROVE QuietWire
BY DEF QuietWire, EventsWire, ReadingsWire, KeepsNews

(* The wire is lost with the socket: what it carried is excused.           *)
LEMMA WireClosed ==
  ASSUME wire \in Seq(Messages), wire' = << >>, Missing(wire) \subseteq excused'
  PROVE  QuietWire
<1> USE MissingIs, EmptyWire
<1>1. \A n : Tells(wire, n) => <<"told", n>> \in excused'
  OBVIOUS
<1>2. KeepsNews("mains") /\ KeepsNews("battery")
  BY DEF KeepsNews
<1> QED BY <1>1, <1>2 DEF QuietWire, EventsWire, ReadingsWire

(* The first message is read and not understood: it is excused.            *)
LEMMA FrontMissed ==
  ASSUME wire \in Seq(Messages), wire # << >>, wire' = Tail(wire), Missing(<<Head(wire)>>) \subseteq excused'
  PROVE  QuietWire
<1>1. Head(wire) \in Messages
  BY AtTheFront
<1>2. KeepsNews("mains") /\ KeepsNews("battery")
  BY <1>1, AtTheFront, MissingOne DEF KeepsNews
<1>3. \A n : Tells(wire, n) /\ ~ Tells(wire', n) => <<"told", n>> \in excused'
  BY <1>1, AtTheFront, MissingOne
<1> QED BY <1>2, <1>3, AtTheFront DEF QuietWire, EventsWire, ReadingsWire

(* The first message is an answer, which tells of nothing.                 *)
LEMMA FrontAnswer ==
  ASSUME wire \in Seq(Messages), wire # << >>, wire' = Tail(wire), IsAnswer(Head(wire))
  PROVE  QuietWire
<1>1. Head(wire)[1] \notin Tidings /\ Head(wire)[1] \notin {"mains", "battery"}
  BY DEF IsAnswer, Tidings
<1>2. KeepsNews("mains") /\ KeepsNews("battery")
  BY <1>1, AtTheFront DEF KeepsNews
<1> QED BY <1>1, <1>2, AtTheFront DEF QuietWire, EventsWire, ReadingsWire

(* An answer carries the state the panel is in.                            *)
LEMMA ReplyIs ==
  ASSUME TexecomTypeOK, NEW c \in Commands, NEW b \in BOOLEAN
  PROVE  /\ Reply(c, b) \in Messages /\ Reply(c, b)[1] = "answer"
         /\ Reply(c, b)[4] \in Readings /\ Now(Reply(c, b)[4])
BY DEF TexecomTypeOK, Panels, Reply, Messages, Readings, Now

(* A command is sent: an answer is put on the wire, or not, and earlier    *)
(* ones may be outdated.                                                   *)
LEMMA WireAnswered ==
  ASSUME TexecomTypeOK, NEW w \in {wire, Outdated}, NEW c \in Commands, NEW b \in BOOLEAN,
         wire' = Append(w, Reply(c, b)) \/ wire' = w
  PROVE  QuietWire /\ wire' \in Seq(Messages)
<1> DEFINE m == Reply(c, b)
<1>1. wire \in Seq(Messages)
  BY DEF TexecomTypeOK
<1>2. /\ w \in Seq(Messages) /\ \A n : Tells(w, n) <=> Tells(wire, n)
      /\ TellsOnce(wire) => TellsOnce(w)
      /\ NoKeys(wire) => NoKeys(w)
      /\ \A what : News(w, what) <=> News(wire, what)
      /\ \A what \in {"mains", "battery"} : \A x : LastIs(w, what, x) <=> LastIs(wire, what, x)
      /\ \A r : Carries(w, r) <=> Carries(wire, r)
  <2>1. CASE w = wire
    BY <1>1, <2>1
  <2>2. CASE w = Outdated
    BY <1>1, <2>2, OutdatedWire
  <2> QED BY <2>1, <2>2
<1>3. m \in Messages /\ m[1] = "answer" /\ m[1] \notin Tidings /\ Now(m[4])
  BY ReplyIs DEF Tidings
<1> HIDE DEF m
<1>4. CASE wire' = w
  <2>1. KeepsNews("mains") /\ KeepsNews("battery")
    BY <1>2, <1>4 DEF KeepsNews
  <2> QED BY <1>2, <1>4, <2>1 DEF QuietWire, EventsWire, ReadingsWire
<1>5. CASE wire' = Append(w, m)
  <2>1. KeepsNews("mains") /\ KeepsNews("battery")
    BY <1>2, <1>3, <1>5, AtTheEnd DEF KeepsNews
  <2>2. \A n : Tells(wire', n) <=> Tells(wire, n)
    BY <1>2, <1>3, <1>5, AtTheEnd
  <2>3. (TellsOnce(wire) => TellsOnce(wire')) /\ wire' \in Seq(Messages)
    BY <1>2, <1>3, <1>5, AtTheEnd
  <2>4. NoKeys(wire) => NoKeys(wire')
    BY <1>2, <1>3, <1>5, AtTheEnd
  <2>5. \A r : Carries(wire', r) => Carries(wire, r) \/ Now(r)
    BY <1>2, <1>3, <1>5, AtTheEnd
  <2> QED BY <2>1, <2>2, <2>3, <2>4, <2>5 DEF QuietWire, EventsWire, ReadingsWire
<1> QED BY <1>4, <1>5 DEF m

-----------------------------------------------------------------------------
(* Texecom: rows.                                                          *)

(* A thread with nothing to report gets reports that are not of events.    *)
LEMMA RowsPut ==
  ASSUME TexecomTypeOK, NEW t \in Threads, rows[t] = << >>, NEW q \in Seq(Reports),
         \A i \in DOMAIN q : q[i][1] # "event", rows' = [rows EXCEPT ![t] = q]
  PROVE  /\ rows' \in [Threads -> Seq(Reports)]
         /\ \A n : InRows(n)' <=> InRows(n)
         /\ RowsOnce => RowsOnce'
         /\ \A what : Reported(what) => Reported(what)'
<1>1. rows \in [Threads -> Seq(Reports)]
  BY DEF TexecomTypeOK
<1>2. rows' \in [Threads -> Seq(Reports)] /\ rows'[t] = q /\ \A u \in Threads : u # t => rows'[u] = rows[u]
  BY <1>1
<1>3. \A i \in DOMAIN rows[t] : FALSE
  OBVIOUS
<1>4. \A n : \A i \in DOMAIN q : q[i] # <<"event", n>>
  OBVIOUS
<1>5. \A n : InRows(n)' <=> InRows(n)
  BY <1>2, <1>3, <1>4 DEF InRows, Reporting
<1>6. ASSUME RowsOnce, NEW u \in Threads, NEW v \in Threads, NEW i \in DOMAIN rows'[u], NEW j \in DOMAIN rows'[v],
             rows'[u][i][1] = "event", rows'[v][j] = rows'[u][i]
      PROVE  u = v /\ i = j
  <2>1. u # t /\ v # t
    BY <1>2, <1>6
  <2> QED BY <1>2, <1>6, <2>1 DEF RowsOnce
<1>7. \A what : Reported(what) => Reported(what)'
  BY <1>2, <1>3 DEF Reported
<1> QED BY <1>2, <1>5, <1>6, <1>7 DEF RowsOnce

SameMind ==
    /\ mem'.PENDING_INCIDENT = mem.PENDING_INCIDENT
    /\ mem'.timers = mem.timers /\ mem'.clearing = mem.clearing
    /\ mem'.EVENT_CONTEXT = mem.EVENT_CONTEXT
    /\ mem'.mains = mem.mains /\ mem'.battery = mem.battery
    /\ mem'.BATTERY_ALARM_ACTIVE = mem.BATTERY_ALARM_ACTIVE
    /\ mem'.BATTERY_CONFIRMED = mem.BATTERY_CONFIRMED
    /\ mem'.last_drift_alert = mem.last_drift_alert

SamePanel == panel'.mains = panel.mains /\ panel'.unsaid = panel.unsaid /\ panel'.battery = panel.battery

RowsCalm ==
    \/ UNCHANGED rows
    \/ \E t \in Threads, q \in Seq(Reports) :
          /\ rows[t] = << >> /\ \A i \in DOMAIN q : q[i][1] # "event"
          /\ rows' = [rows EXCEPT ![t] = q]

(* A step that nobody notices who follows the events, mains and battery.   *)
Calm ==
    /\ UNCHANGED <<topic, events, toldEvents, told>>
    /\ excused \subseteq excused' /\ excused' \subseteq excused \cup Missing(wire)
    /\ SameMind /\ SamePanel /\ RowsCalm /\ QuietWire /\ NewReadings

ReportInv == EventsInv /\ MainsInv /\ BatteryInv /\ DriftInv

(* A calm step keeps what is said of events, mains, battery and drift.     *)
LEMMA CalmSteps == ASSUME TexecomTypeOK, ReportInv, Calm PROVE ReportInv'
<1>1. /\ \A n : InRows(n)' <=> InRows(n)
      /\ RowsOnce => RowsOnce'
      /\ \A what : Reported(what) => Reported(what)'
  <2>1. CASE UNCHANGED rows
    BY <2>1 DEF InRows, Reporting, RowsOnce, Reported
  <2>2. ASSUME NEW t \in Threads, NEW q \in Seq(Reports), rows[t] = << >>, \A i \in DOMAIN q : q[i][1] # "event",
               rows' = [rows EXCEPT ![t] = q]
        PROVE  /\ \A n : InRows(n)' <=> InRows(n)
               /\ RowsOnce => RowsOnce'
               /\ \A what : Reported(what) => Reported(what)'
    BY <2>2, RowsPut
  <2> QED BY <2>1, <2>2 DEF Calm, RowsCalm
<1>2. \A n : <<"told", n>> \in excused' => <<"told", n>> \in excused \/ n \in DOMAIN events
  <2> SUFFICES ASSUME NEW n, <<"told", n>> \in Missing(wire) PROVE n \in DOMAIN events
    BY DEF Calm
  <2>1. wire \in Seq(Messages)
    BY DEF TexecomTypeOK
  <2>2. Tells(wire, n)
    BY <2>1, MissingIs
  <2>3. PICK i \in DOMAIN wire : wire[i][1] \in Tidings /\ wire[i][2] = n
    BY <2>2 DEF Tells
  <2>4. n \in Nat
    BY <2>1, <2>3, MessageKinds DEF Tidings
  <2> QED BY <2>2, <2>4 DEF ReportInv, EventsInv, AllKnown
<1>3. QuietEvents
  <2>1. 0 \notin DOMAIN events
    BY DEF TexecomTypeOK
  <2>2. KeepsContext
    BY DEF Calm, SameMind, KeepsContext
  <2> QED BY <1>1, <1>2, <2>1, <2>2 DEF Calm, QuietEvents, SameMind
<1>4. QuietMains
  BY <1>1 DEF Calm, QuietMains, SameMind, SamePanel
<1>5. QuietBattery
  BY <1>1 DEF Calm, QuietBattery, SameMind, SamePanel
<1>6. QuietDrift
  BY DEF Calm, QuietDrift, SameMind
<1>7. EventsWire /\ ReadingsWire /\ KeepsNews("mains") /\ KeepsNews("battery")
  BY DEF Calm, QuietWire
<1>8. EventsInv'
  BY <1>3, <1>7, QuietForEvents DEF ReportInv
<1>9. MainsInv'
  BY <1>4, <1>7, QuietForMains DEF ReportInv
<1>10. BatteryInv'
  BY <1>5, <1>7, QuietForBattery DEF ReportInv
<1>11. DriftInv'
  BY <1>6, QuietForDrift DEF ReportInv
<1> QED BY <1>8, <1>9, <1>10, <1>11 DEF ReportInv

(* What is known stays so, if memory, panel and rows do.                   *)
LEMMA CallsLeft == ASSUME UNCHANGED call PROVE NewReadings
BY DEF NewReadings, UnderWay

(* A command is sent or given up: nobody has a reading that was not known  *)
(* before.                                                                 *)
LEMMA CallSet ==
  ASSUME TexecomTypeOK, NEW t \in Threads, NEW c,
         call' = [call EXCEPT ![t] = c], c.result \in {<< >>, failed}
  PROVE  NewReadings
<1>1. call \in [Threads -> CallStates]
  BY DEF TexecomTypeOK
<1>2. call'[t] = c /\ \A u \in Threads : u # t => call'[u] = call[u]
  BY <1>1
<1>3. \A r : c.result # <<"ok", r>>
  BY DEF failed
<1> QED BY <1>2, <1>3 DEF NewReadings, UnderWay

(* The session: a socket that is closed has nothing to read, and a loop    *)
(* that connects has none.                                                 *)
Session ==
    /\ s = "none" => wire = << >>
    /\ at["loop"] = "connect" => s = "none"

TexecomInv == TexecomTypeOK /\ ReportInv /\ Evaluating /\ Session

-----------------------------------------------------------------------------
(* Texecom: the panel and the container.                                   *)

(* The connection is cut: what is on the wire stays there or is excused.   *)
LEMMA CutIs ==
  ASSUME TexecomInv, Cut
  PROVE  /\ QuietWire /\ wire' \in Seq(Messages) /\ s' \in {"none", "open", "broken"}
         /\ excused \subseteq excused' /\ excused' \subseteq excused \cup Missing(wire) /\ excused' \subseteq Excuses
         /\ s' = "none" => s = "none" /\ wire' = << >>
         /\ s = "none" => s' = "none"
<1>1. wire \in Seq(Messages) /\ excused \subseteq Excuses /\ s \in {"none", "open", "broken"}
  BY DEF TexecomInv, TexecomTypeOK
<1>2. CASE wire' = wire
  BY <1>1, <1>2, WireLeft DEF Cut, TexecomInv, Session
<1>3. CASE wire' # wire
  <2>1. wire' = << >> /\ excused' = excused \cup Missing(wire)
    BY <1>3 DEF Cut
  <2>2. QuietWire
    BY <1>1, <2>1, WireClosed
  <2> QED BY <1>1, <2>1, <2>2, MissingIs, EmptyWire DEF Cut, TexecomInv, Session
<1> QED BY <1>2, <1>3

(* Threads that are left alone are as far in the evaluation as they were.  *)
LEMMA EvaluatingLeft == ASSUME Evaluating, UNCHANGED <<evaluating, call, rows>> PROVE Evaluating'
BY DEF Evaluating

(* LinkBreaks keeps the invariant.                                         *)
LEMMA LinkBreaksKeeps == ASSUME TexecomInv, LinkBreaks PROVE TexecomInv'
<1>1. /\ panel' = [panel EXCEPT !.subscribed = FALSE]
      /\ UNCHANGED <<topic, events, active, texecom, at, call, evaluating, rows, conn, mem, connStat, told, toldEvents>>
      /\ used' = used + 1 /\ Cut
  BY DEF LinkBreaks, process, Happens
<1>2. panel' \in Panels /\ SamePanel
  BY <1>1 DEF TexecomInv, TexecomTypeOK, Panels, SamePanel
<1>3. TexecomTypeOK'
  BY <1>1, <1>2, CutIs DEF TexecomInv, TexecomTypeOK
<1>4. Calm
  BY <1>1, <1>2, CutIs, CallsLeft DEF Calm, SameMind, RowsCalm
<1>5. Evaluating' /\ Session'
  BY <1>1, CutIs, EvaluatingLeft DEF TexecomInv, Session
<1> QED BY <1>3, <1>4, <1>5, CalmSteps DEF TexecomInv

(* AcceptsChange keeps the invariant.                                      *)
LEMMA AcceptsChangeKeeps == ASSUME TexecomInv, AcceptsChange PROVE TexecomInv'
<1>1. /\ panel' = [panel EXCEPT !.accepts = ~ @, !.subscribed = FALSE]
      /\ UNCHANGED <<topic, events, active, texecom, at, call, evaluating, rows, conn, mem, connStat, told, toldEvents>>
      /\ used' = used + 1 /\ (Cut \/ UNCHANGED <<s, wire, excused>>)
  BY DEF AcceptsChange, process, Happens
<1>2. /\ QuietWire /\ wire' \in Seq(Messages) /\ s' \in {"none", "open", "broken"}
      /\ excused \subseteq excused' /\ excused' \subseteq excused \cup Missing(wire) /\ excused' \subseteq Excuses
      /\ s' = "none" => s = "none" /\ wire' = << >>
      /\ s = "none" => s' = "none"
  BY <1>1, CutIs, WireLeft DEF TexecomInv, TexecomTypeOK, Session
<1>3. panel' \in Panels /\ SamePanel
  BY <1>1 DEF TexecomInv, TexecomTypeOK, Panels, SamePanel
<1>4. TexecomTypeOK'
  BY <1>1, <1>2, <1>3 DEF TexecomInv, TexecomTypeOK
<1>5. Calm
  BY <1>1, <1>2, <1>3, CallsLeft DEF Calm, SameMind, RowsCalm
<1>6. Evaluating' /\ Session'
  BY <1>1, <1>2, EvaluatingLeft DEF TexecomInv, Session
<1> QED BY <1>4, <1>5, <1>6, CalmSteps DEF TexecomInv

(* ClockDrifts keeps the invariant.                                        *)
LEMMA ClockDriftsKeeps == ASSUME TexecomInv, ClockDrifts PROVE TexecomInv'
<1>1. /\ panel' = [panel EXCEPT !.drift = ~ @]
      /\ UNCHANGED <<topic, events, wire, s, active, texecom, at, call, evaluating, rows, conn, mem, connStat, told, toldEvents, excused>>
      /\ used' = used + 1
  BY DEF ClockDrifts, process, heard, Happens
<1>2. panel' \in Panels /\ SamePanel
  BY <1>1 DEF TexecomInv, TexecomTypeOK, Panels, SamePanel
<1>3. TexecomTypeOK'
  BY <1>1, <1>2 DEF TexecomInv, TexecomTypeOK
<1>4. Calm
  BY <1>1, <1>2, CallsLeft, WireLeft DEF Calm, SameMind, RowsCalm
<1>5. Evaluating' /\ Session'
  BY <1>1, EvaluatingLeft DEF TexecomInv, Session
<1> QED BY <1>3, <1>4, <1>5, CalmSteps DEF TexecomInv

(* TimePasses keeps the invariant.                                         *)
LEMMA TimePassesKeeps == ASSUME TexecomInv, TimePasses PROVE TexecomInv'
<1>1. /\ mem' = [mem EXCEPT !.recent = FALSE]
      /\ UNCHANGED <<topic, panel, events, wire, s, active, texecom, at, call, evaluating, rows, conn, connStat, told, toldEvents, excused, used>>
  BY DEF TimePasses, heard
<1>2. mem' \in Minds /\ SameMind
  BY <1>1 DEF TexecomInv, TexecomTypeOK, Minds, SameMind
<1>3. TexecomTypeOK'
  BY <1>1, <1>2 DEF TexecomInv, TexecomTypeOK
<1>4. Calm
  BY <1>1, <1>2, CallsLeft, WireLeft DEF Calm, SamePanel, RowsCalm
<1>5. Evaluating' /\ Session'
  BY <1>1, EvaluatingLeft DEF TexecomInv, Session
<1> QED BY <1>3, <1>4, <1>5, CalmSteps DEF TexecomInv

(* TexecomStart keeps the invariant.                                       *)
LEMMA TexecomStartKeeps == ASSUME TexecomInv, TexecomStart PROVE TexecomInv'
<1>1. /\ texecom' \in {"up", "exited"}
      /\ UNCHANGED <<topic, panel, events, wire, s, active, at, call, evaluating, rows, conn, mem, connStat, told, toldEvents, excused, used>>
  BY DEF TexecomStart, process, heard
<1>2. TexecomTypeOK'
  BY <1>1 DEF TexecomInv, TexecomTypeOK
<1>4. Calm
  BY <1>1, CallsLeft, WireLeft DEF Calm, SameMind, SamePanel, RowsCalm
<1>5. Evaluating' /\ Session'
  BY <1>1, EvaluatingLeft DEF TexecomInv, Session
<1> QED BY <1>2, <1>4, <1>5, CalmSteps DEF TexecomInv

(* What is said is heard or missed.                                        *)
LEMMA SayOne ==
  ASSUME TexecomInv, NEW m \in Messages, Say(<<m>>)
  PROVE  /\ wire' \in Seq(Messages) /\ excused' \subseteq Excuses
         /\ \/ s = "open" /\ wire' = Append(wire, m) /\ excused' = excused \ Missing(<<m>>)
            \/ wire' = wire /\ excused' = excused \cup Missing(<<m>>)
<1>1. wire \in Seq(Messages) /\ excused \subseteq Excuses /\ Missing(<<m>>) \subseteq Excuses
  BY MissingOne DEF TexecomInv, TexecomTypeOK
<1>2. wire \o <<m>> = Append(wire, m) /\ Append(wire, m) \in Seq(Messages)
  BY <1>1
<1> QED BY <1>1, <1>2 DEF Say

(* ZoneMoves keeps the invariant.                                          *)
LEMMA ZoneMovesKeeps == ASSUME TexecomInv, NEW z \in TexecomZones, ZoneMoves(z) PROVE TexecomInv'
<1> DEFINE m == <<"zone", z>>
<1>1. /\ Say(<<m>>) /\ used' = used + 1
      /\ UNCHANGED <<topic, panel, events, s, active, texecom, at, call, evaluating, rows, conn, mem, connStat, told, toldEvents>>
  BY DEF ZoneMoves, process, Happens
<1>2. m \in Messages /\ m[1] = "zone"
  BY DEF Messages
<1> HIDE DEF m
<1>3. wire \in Seq(Messages) /\ m[1] \notin Tidings
  BY <1>2 DEF TexecomInv, TexecomTypeOK, Tidings
<1>4. Missing(<<m>>) = {}
  <2>1. \A i \in DOMAIN <<m>> : <<m>>[i] = m
    OBVIOUS
  <2>2. Subject(m) = {}
    BY <1>2 DEF Subject
  <2> QED BY <2>1, <2>2 DEF Missing
<1>5. excused' = excused /\ wire' \in Seq(Messages) /\ (wire' = wire \/ (s = "open" /\ wire' = Append(wire, m)))
  BY <1>1, <1>2, <1>4, SayOne
<1>6. QuietWire
  <2>1. CASE wire' = wire
    BY <2>1, WireLeft
  <2>2. CASE wire' = Append(wire, m)
    <3>1. KeepsNews("mains") /\ KeepsNews("battery")
      BY <1>2, <1>3, <2>2, AtTheEnd DEF KeepsNews
    <3>2. \A n : Tells(wire', n) <=> Tells(wire, n)
      BY <1>2, <1>3, <2>2, AtTheEnd
    <3>3. TellsOnce(wire) => TellsOnce(wire')
      BY <1>2, <1>3, <2>2, AtTheEnd
    <3>4. NoKeys(wire) => NoKeys(wire')
      BY <1>2, <1>3, <2>2, AtTheEnd
    <3>5. \A r : Carries(wire', r) => Carries(wire, r)
      BY <1>2, <1>3, <2>2, AtTheEnd
    <3> QED BY <3>1, <3>2, <3>3, <3>4, <3>5 DEF QuietWire, EventsWire, ReadingsWire
  <2> QED BY <1>5, <2>1, <2>2
<1>7. TexecomTypeOK'
  BY <1>1, <1>5 DEF TexecomInv, TexecomTypeOK
<1>8. Calm
  BY <1>1, <1>5, <1>6, CallsLeft DEF Calm, SameMind, SamePanel, RowsCalm
<1>9. Evaluating' /\ Session'
  BY <1>1, <1>5, EvaluatingLeft DEF TexecomInv, Session
<1> QED BY <1>7, <1>8, <1>9, CalmSteps DEF TexecomInv

-----------------------------------------------------------------------------
(* Texecom: the process ends.                                              *)

(* The types of what the process starts with.                              *)
LEMMA FirstTypes ==
  /\ FirstMem \in Minds /\ FirstConn \in ConnStates /\ NoCall \in CallStates
  /\ \A c \in Commands : Calls(c) \in CallStates
  /\ failed \in Results /\ << >> \in Results
<1>1. failed \in Results /\ << >> \in Results
  BY DEF Results
<1>2. NoCall \in CallStates /\ \A c \in Commands : Calls(c) \in CallStates
  BY <1>1, TexecomAssumption DEF CallStates, NoCall, Calls
<1>3. FirstMem \in Minds
  BY DEF FirstMem, Minds, MainsStates, BatteryStates
<1>4. FirstConn \in ConnStates
  BY DEF FirstConn, ConnStates
<1> QED BY <1>1, <1>2, <1>3, <1>4

(* What was about to be reported is excused.                               *)
LEMMA AboutRows ==
  ASSUME TexecomTypeOK
  PROVE  LET lost == UNION { UNION { About(rows[t][i]) : i \in DOMAIN rows[t] } : t \in Threads }
         IN /\ \A n : InRows(n) <=> <<"told", n>> \in lost
            /\ \A n : <<"late", n>> \notin lost /\ <<"zone", n>> \notin lost
            /\ \A what \in {"mains", "battery"} : Reported(what) => <<what, 0>> \in lost
            /\ lost \subseteq Excuses
<1> DEFINE lost == UNION { UNION { About(rows[t][i]) : i \in DOMAIN rows[t] } : t \in Threads }
<1>1. ASSUME NEW t \in Threads, NEW i \in DOMAIN rows[t] PROVE rows[t][i] \in Reports
  BY <1>1 DEF TexecomTypeOK
<1>2. ASSUME NEW row \in Reports
      PROVE  /\ \A n : <<"told", n>> \in About(row) <=> row = <<"event", n>>
             /\ \A n : <<"late", n>> \notin About(row) /\ <<"zone", n>> \notin About(row)
             /\ \A what \in {"mains", "battery"} : row[1] \in {what, "initial"} => <<what, 0>> \in About(row)
             /\ About(row) \subseteq Excuses
  <2>1. CASE row \in {"event"} \X (Nat \ {0})
    BY <2>1 DEF About, Excuses
  <2>2. CASE row[1] = "initial"
    BY <2>2 DEF About, Excuses
  <2>3. CASE row[1] \in {"mains", "battery", "panel", "beat", "drift"}
    BY <2>3 DEF About, Excuses
  <2> QED BY <2>1, <2>2, <2>3 DEF Reports
<1>0. \A x : x \in lost <=> \E t \in Threads : \E i \in DOMAIN rows[t] : x \in About(rows[t][i])
  OBVIOUS
<1> HIDE DEF lost
<1>3. ASSUME NEW n PROVE InRows(n) <=> <<"told", n>> \in lost
  <2>1. ASSUME InRows(n) PROVE <<"told", n>> \in lost
    <3>1. PICK t \in Threads : \E i \in DOMAIN rows[t] : rows[t][i] = <<"event", n>>
      BY <2>1 DEF InRows, Reporting
    <3>2. PICK i \in DOMAIN rows[t] : rows[t][i] = <<"event", n>>
      BY <3>1
    <3>3. <<"told", n>> \in About(rows[t][i])
      BY <1>1, <1>2, <3>2
    <3> QED BY <1>0, <3>3
  <2>2. ASSUME <<"told", n>> \in lost PROVE InRows(n)
    <3>1. PICK t \in Threads : \E i \in DOMAIN rows[t] : <<"told", n>> \in About(rows[t][i])
      BY <1>0, <2>2
    <3>2. PICK i \in DOMAIN rows[t] : <<"told", n>> \in About(rows[t][i])
      BY <3>1
    <3>3. rows[t][i] = <<"event", n>>
      BY <1>1, <1>2, <3>2
    <3> QED BY <3>3 DEF InRows, Reporting
  <2> QED BY <2>1, <2>2
<1>4. ASSUME NEW n PROVE <<"late", n>> \notin lost /\ <<"zone", n>> \notin lost
  <2>1. ASSUME NEW t \in Threads, NEW i \in DOMAIN rows[t]
        PROVE  <<"late", n>> \notin About(rows[t][i]) /\ <<"zone", n>> \notin About(rows[t][i])
    BY <1>1, <1>2
  <2> QED BY <1>0, <2>1
<1>5. \A what \in {"mains", "battery"} : Reported(what) => <<what, 0>> \in lost
  BY <1>0, <1>1, <1>2 DEF Reported
<1>6. lost \subseteq Excuses
  BY <1>0, <1>1, <1>2
<1> QED BY <1>3, <1>4, <1>5, <1>6 DEF lost

(* What is excused for an incident that is pending.                        *)
LEMMA PendingIs ==
  ASSUME TexecomTypeOK
  PROVE  /\ \A n : <<"told", n>> \in Pending(mem) <=> n # 0 /\ n = mem.PENDING_INCIDENT
         /\ \A x \in Pending(mem) : x = <<"told", mem.PENDING_INCIDENT>>
         /\ Pending(mem) \subseteq Excuses
<1>1. mem.PENDING_INCIDENT \in Nat
  BY DEF TexecomTypeOK, Minds
<1> QED BY <1>1 DEF Pending, Excuses

(* The process ends and forgets: what was under way is excused.            *)
LEMMA ForgetsKeeps ==
  ASSUME TexecomInv, Forgets, UNCHANGED <<topic, events, told, toldEvents>>,
         active' \in BOOLEAN, connStat' \in BOOLEAN, used' \in Nat
  PROVE  TexecomInv'
<1> DEFINE lost == UNION { UNION { About(rows[t][i]) : i \in DOMAIN rows[t] } : t \in Threads }
<1>1. /\ texecom' = "starting" /\ s' = "none" /\ wire' = << >> /\ mem' = FirstMem /\ conn' = FirstConn
      /\ panel' = [panel EXCEPT !.subscribed = FALSE]
      /\ at' = [loop |-> "connect", scheduler |-> "sleep"]
      /\ call' = [t \in Threads |-> NoCall]
      /\ evaluating' = [t \in Threads |-> "no"]
      /\ rows' = [t \in Threads |-> << >>]
      /\ excused' = excused \cup Missing(wire) \cup Pending(mem) \cup lost
  BY DEF Forgets
<1>2. TexecomTypeOK
  BY DEF TexecomInv
<1>3. /\ \A n : InRows(n) <=> <<"told", n>> \in lost
      /\ \A n : <<"late", n>> \notin lost /\ <<"zone", n>> \notin lost
      /\ \A what \in {"mains", "battery"} : Reported(what) => <<what, 0>> \in lost
      /\ lost \subseteq Excuses
  BY <1>2, AboutRows
<1> HIDE DEF lost
<1>4. wire \in Seq(Messages) /\ excused \subseteq Excuses
  BY <1>2 DEF TexecomTypeOK
<1>5. /\ \A n : <<"told", n>> \in Missing(wire) <=> Tells(wire, n)
      /\ \A what \in {"mains", "battery"} : <<what, 0>> \in Missing(wire) <=> News(wire, what)
      /\ Missing(wire) \subseteq Excuses
  BY <1>4, MissingIs
<1>6. panel' \in Panels /\ SamePanel
  BY <1>1, <1>2 DEF TexecomTypeOK, Panels, SamePanel
<1>7. TexecomTypeOK'
  <2>1. excused' \subseteq Excuses
    BY <1>1, <1>2, <1>3, <1>4, <1>5, PendingIs
  <2>2. wire' \in Seq(Messages) /\ rows' \in [Threads -> Seq(Reports)]
    BY <1>1
  <2>3. at' \in [Threads -> Places]
    BY <1>1 DEF Threads, Places
  <2>4. call' \in [Threads -> CallStates] /\ evaluating' \in [Threads -> {"no", "decide", "done"}]
    BY <1>1, FirstTypes
  <2> QED BY <1>1, <1>2, <1>6, <2>1, <2>2, <2>3, <2>4, FirstTypes DEF TexecomTypeOK
<1>8. /\ \A n : ~ Tells(wire', n)
      /\ TellsOnce(wire') /\ NoKeys(wire')
      /\ \A what : ~ News(wire', what)
      /\ \A what, x : LastIs(wire', what, x)
      /\ \A r : ~ Carries(wire', r)
  BY <1>1, EmptyWire
<1>9. \A t \in Threads : \A i \in DOMAIN rows'[t] : FALSE
  BY <1>1
<1>10. (\A n : ~ InRows(n)') /\ RowsOnce'
  BY <1>9 DEF InRows, Reporting, RowsOnce
<1>11. mem'.PENDING_INCIDENT = 0 /\ mem'.mains = "None" /\ mem'.battery = "None"
       /\ ~ mem'.BATTERY_ALARM_ACTIVE /\ ~ mem'.BATTERY_CONFIRMED /\ ~ mem'.last_drift_alert
  BY <1>1 DEF FirstMem
<1>12. ASSUME NEW r PROVE ~ UnderWay(r)'
  BY <1>1, <1>8 DEF UnderWay, NoCall
<1>13. AllKnown'
  <2>1. ASSUME NEW n \in Nat, <<"told", n>> \in excused' PROVE n \in DOMAIN events
    BY <1>1, <1>2, <1>3, <1>5, <2>1, PendingIs DEF TexecomInv, ReportInv, EventsInv, AllKnown
  <2> QED BY <1>8, <1>10, <1>11, <2>1 DEF AllKnown
<1>14. OneWay'
  <2>1. ASSUME NEW n \in DOMAIN events, <<"told", n>> \notin excused' PROVE IsTold(n)'
    <3>1. n # 0
      BY <1>2 DEF TexecomTypeOK
    <3>2. ~ Tells(wire, n) /\ ~ InRows(n) /\ mem.PENDING_INCIDENT # n /\ <<"told", n>> \notin excused
      BY <1>1, <1>2, <1>3, <1>5, <2>1, <3>1, PendingIs
    <3>3. IsTold(n)
      BY <3>2 DEF TexecomInv, ReportInv, EventsInv, OneWay, OnOneWay
    <3> QED BY <1>1, <3>3 DEF IsTold, Rightly
  <2>2. \A n \in DOMAIN events : n # 0
    BY <1>2 DEF TexecomTypeOK
  <2>3. ASSUME NEW n \in DOMAIN events PROVE OnOneWay(n)'
    BY <1>8, <1>10, <1>11, <2>1, <2>2 DEF OnOneWay
  <2>4. events' = events
    OBVIOUS
  <2> QED BY <2>3, <2>4 DEF OneWay
<1>15. EventsInv'
  BY <1>8, <1>10, <1>13, <1>14 DEF EventsInv, OfTopic
<1>16. MainsInv'
  <2> SUFFICES ASSUME ~ panel'.unsaid, <<"mains", 0>> \notin excused'
               PROVE  \/ <<"late", "mains">> \in excused' \/ told'.mains \in {"None", panel'.mains}
    BY <1>8, <1>11, <1>12 DEF MainsInv
  <2>1. <<"mains", 0>> \notin excused /\ ~ News(wire, "mains") /\ ~ Reported("mains")
    BY <1>1, <1>3, <1>5
  <2> QED BY <1>1, <1>6, <2>1 DEF SamePanel, TexecomInv, ReportInv, MainsInv
<1>17. BatteryInv'
  <2> SUFFICES ASSUME panel'.battery = "fine", <<"battery", 0>> \notin excused'
               PROVE  \/ <<"late", "battery">> \in excused' \/ told'.battery \notin {"LOW", "DISCONNECTED"}
    BY <1>8, <1>11, <1>12 DEF BatteryInv
  <2>1. <<"battery", 0>> \notin excused /\ ~ News(wire, "battery") /\ ~ Reported("battery")
    BY <1>1, <1>3, <1>5
  <2> QED BY <1>1, <1>6, <2>1 DEF SamePanel, TexecomInv, ReportInv, BatteryInv
<1>18. DriftInv'
  BY <1>11 DEF DriftInv
<1>19. Evaluating' /\ Session'
  BY <1>1 DEF Evaluating, Session
<1> QED BY <1>7, <1>15, <1>16, <1>17, <1>18, <1>19 DEF TexecomInv, ReportInv

(* Death keeps the invariant.                                              *)
LEMMA DeathKeeps == ASSUME TexecomInv, Death PROVE TexecomInv'
<1>1. active' \in BOOLEAN /\ connStat' \in BOOLEAN /\ used' \in Nat
  BY DEF Death, Happens, TexecomInv, TexecomTypeOK
<1> QED BY <1>1, ForgetsKeeps DEF Death

(* LcdTexecom keeps the invariant.                                         *)
LEMMA LcdTexecomKeeps == ASSUME TexecomInv, LcdTexecom PROVE TexecomInv'
<1>1. active' \in BOOLEAN /\ connStat' \in BOOLEAN /\ used' \in Nat /\ UNCHANGED <<topic, events, told, toldEvents>>
  BY DEF LcdTexecom, Happens, TexecomInv, TexecomTypeOK
<1>2. CASE Forgets
  BY <1>1, <1>2, ForgetsKeeps
<1>3. CASE UNCHANGED <<s, wire, panel, texecom, process, excused>>
  <2>1. UNCHANGED <<topic, panel, events, wire, s, texecom, at, call, evaluating, rows, conn, mem, connStat, told, toldEvents, excused>>
    BY <1>3 DEF LcdTexecom, process
  <2>2. TexecomTypeOK'
    BY <1>1, <2>1 DEF TexecomInv, TexecomTypeOK
  <2>3. Calm
    BY <2>1, CallsLeft, WireLeft DEF Calm, SameMind, SamePanel, RowsCalm
  <2>4. Evaluating' /\ Session'
    BY <2>1, EvaluatingLeft DEF TexecomInv, Session
  <2> QED BY <2>2, <2>3, <2>4, CalmSteps DEF TexecomInv
<1> QED BY <1>2, <1>3 DEF LcdTexecom

-----------------------------------------------------------------------------
(* Texecom: commands and connections.                                      *)

(* The socket is closed: what was on the wire is excused.                  *)
LEMMA CloseIs ==
  ASSUME TexecomInv, CloseSocket
  PROVE  /\ s' = "none" /\ wire' = << >> /\ panel' \in Panels /\ SamePanel /\ QuietWire
         /\ excused \subseteq excused' /\ excused' \subseteq excused \cup Missing(wire) /\ excused' \subseteq Excuses
<1>1. s' = "none" /\ wire' = << >> /\ panel' = [panel EXCEPT !.subscribed = FALSE]
      /\ excused' = excused \cup Missing(wire)
  BY DEF CloseSocket
<1>2. wire \in Seq(Messages) /\ excused \subseteq Excuses /\ panel \in Panels
  BY DEF TexecomInv, TexecomTypeOK
<1>3. panel' \in Panels /\ SamePanel
  BY <1>1, <1>2 DEF Panels, SamePanel
<1> QED BY <1>1, <1>2, <1>3, MissingIs, WireClosed

(* The loop closes the socket and starts again.                            *)
LEMMA ReconnectKeeps ==
  ASSUME TexecomInv, Reconnect, conn' \in ConnStates, UNCHANGED <<topic, events, active, told, toldEvents, used>>
  PROVE  TexecomInv'
<1>1. /\ CloseSocket
      /\ at' = [at EXCEPT !["loop"] = "connect"] /\ call' = [call EXCEPT !["loop"] = NoCall]
      /\ evaluating' = [evaluating EXCEPT !["loop"] = "no"]
      /\ UNCHANGED <<texecom, rows, mem>>
  BY DEF Reconnect
<1>2. TexecomTypeOK /\ "loop" \in Threads
  BY DEF TexecomInv, Threads
<1>3. connStat' \in BOOLEAN
  BY DEF Reconnect
<1>4. at' \in [Threads -> Places] /\ call' \in [Threads -> CallStates] /\ evaluating' \in [Threads -> {"no", "decide", "done"}]
  BY <1>1, <1>2, FirstTypes DEF TexecomTypeOK, Places
<1>5. wire' \in Seq(Messages) /\ s' \in {"none", "open", "broken"}
  BY <1>1, CloseIs, EmptyWire
<1>6. TexecomTypeOK'
  BY <1>1, <1>2, <1>3, <1>4, <1>5, CloseIs DEF TexecomTypeOK
<1>7. NewReadings
  BY <1>1, <1>2, CallSet DEF NoCall
<1>8. Calm
  BY <1>1, <1>7, CloseIs DEF Calm, SameMind, RowsCalm
<1>9. Evaluating'
  BY <1>1, <1>2 DEF TexecomInv, Evaluating, TexecomTypeOK
<1>10. Session'
  BY <1>1, CloseIs DEF Session
<1> QED BY <1>6, <1>8, <1>9, <1>10, CalmSteps DEF TexecomInv

(* SendCommand keeps the invariant.                                        *)
LEMMA SendCommandKeeps == ASSUME TexecomInv, NEW t \in Threads, SendCommand(t) PROVE TexecomInv'
<1>1. PICK c \in Commands :
          /\ Asks(t, c) /\ s # "none"
          /\ conn' = [conn EXCEPT !.last_command = <<c, TRUE>>]
          /\ call' = [call EXCEPT ![t] = Calls(c)]
          /\ \/ /\ s = "open"
                /\ wire' = Append(Outdated, Reply(c, TRUE))
                /\ panel' = [panel EXCEPT !.subscribed = @ \/ c = "events"]
                /\ UNCHANGED used
             \/ /\ IF s = "open" THEN Happens ELSE UNCHANGED used
                /\ wire' = Outdated
                /\ UNCHANGED panel
  BY DEF SendCommand
<1>2. UNCHANGED <<topic, events, s, active, texecom, at, evaluating, rows, mem, connStat, told, toldEvents, excused>>
  BY DEF SendCommand, heard
<1>3. TexecomTypeOK
  BY DEF TexecomInv
<1>4. QuietWire /\ wire' \in Seq(Messages)
  BY <1>1, <1>3, WireAnswered
<1>5. panel' \in Panels /\ SamePanel
  <2>1. CASE UNCHANGED panel
    BY <2>1, <1>3 DEF TexecomTypeOK, SamePanel
  <2>2. CASE panel' = [panel EXCEPT !.subscribed = @ \/ c = "events"]
    BY <2>2, <1>3 DEF TexecomTypeOK, Panels, SamePanel
  <2> QED BY <1>1, <2>1, <2>2
<1>6. conn' \in ConnStates /\ call' \in [Threads -> CallStates] /\ used' \in Nat
  <2>1. conn' \in ConnStates
    BY <1>1, <1>3 DEF TexecomTypeOK, ConnStates
  <2>2. call' \in [Threads -> CallStates]
    BY <1>1, <1>3, FirstTypes DEF TexecomTypeOK
  <2>3. used' = used \/ used' = used + 1
    BY <1>1 DEF Happens
  <2>4. used' \in Nat
    BY <1>3, <2>3 DEF TexecomTypeOK
  <2> QED BY <2>1, <2>2, <2>4
<1>7. TexecomTypeOK'
  BY <1>2, <1>3, <1>4, <1>5, <1>6 DEF TexecomTypeOK
<1>8. Calls(c).result = << >> /\ call[t] = NoCall /\ NoCall.result = << >>
  BY <1>1 DEF Calls, Asks, Free, NoCall
<1>9. NewReadings
  BY <1>1, <1>3, <1>8, CallSet
<1>10. Calm
  BY <1>2, <1>4, <1>5, <1>9 DEF Calm, SameMind, RowsCalm
<1>11. Evaluating'
  BY <1>1, <1>2, <1>3, <1>8 DEF TexecomInv, Evaluating, TexecomTypeOK
<1>12. Session'
  BY <1>1, <1>2 DEF TexecomInv, Session
<1> QED BY <1>7, <1>10, <1>11, <1>12, CalmSteps DEF TexecomInv

(* After a step of the script comes a step of it, never a new connection.  *)
LEMMA AfterIs ==
  ASSUME NEW step \in {"login", "events", "init", "on", "time", "volt", "once"}
  PROVE  After(step) \in Places /\ After(step) # "connect"
<1> DEFINE i == CHOOSE i \in 1 .. Len(Script) - 1 : Script[i] = step
<1>1. Len(Script) = 8
  BY DEF Script
<1>2. \E k \in 1 .. 7 : Script[k] = step
  <2>1. 1 \in 1 .. 7 /\ 2 \in 1 .. 7 /\ 3 \in 1 .. 7 /\ 4 \in 1 .. 7 /\ 5 \in 1 .. 7 /\ 6 \in 1 .. 7 /\ 7 \in 1 .. 7
    OBVIOUS
  <2> QED BY <2>1 DEF Script
<1>3. i \in 1 .. 7
  BY <1>1, <1>2
<1> HIDE DEF i
<1>4. 1 + i \in 2 .. 8
  BY <1>3
<1>5. Script[1 + i] \in Places /\ Script[1 + i] # "connect"
  BY <1>4 DEF Script, Places
<1> QED BY <1>5 DEF After, i

(* An error at the socket, wherever it is caught.                          *)
LEMMA RaiseKeeps ==
  ASSUME TexecomInv, NEW t \in Threads, NEW numbers \in ConnStates, Raise(t, numbers), call[t].result = << >>
  PROVE  TexecomInv'
<1>1. TexecomTypeOK /\ UNCHANGED <<topic, events, active, told, toldEvents, used>>
  BY DEF TexecomInv, Raise
<1>2. CASE /\ t = "scheduler" \/ at[t] = "time"
           /\ at' = [at EXCEPT ![t] = IF t = "loop" THEN After("time") ELSE "sleep"]
           /\ call' = [call EXCEPT ![t] = NoCall]
           /\ conn' = numbers
           /\ UNCHANGED <<panel, wire, s, texecom, evaluating, rows, mem, connStat, excused>>
  <2>0. After("time") \in Places /\ After("time") # "connect"
    BY AfterIs
  <2>1. at' \in [Threads -> Places] /\ call' \in [Threads -> CallStates]
    BY <1>1, <1>2, <2>0, FirstTypes DEF TexecomTypeOK, Places
  <2>2. TexecomTypeOK'
    BY <1>1, <1>2, <2>1 DEF TexecomTypeOK
  <2>3. Calm
    BY <1>1, <1>2, CallSet, WireLeft DEF Calm, SameMind, SamePanel, RowsCalm, NoCall
  <2>4. Evaluating'
    BY <1>1, <1>2 DEF TexecomInv, Evaluating, TexecomTypeOK
  <2>5. Session'
    BY <1>1, <1>2, <2>0 DEF TexecomInv, Session, TexecomTypeOK, Threads
  <2> QED BY <2>2, <2>3, <2>4, <2>5, CalmSteps DEF TexecomInv
<1>3. CASE Reconnect /\ conn' = numbers
  BY <1>1, <1>3, ReconnectKeeps
<1>4. CASE Forgets /\ UNCHANGED connStat
  <2>1. active' \in BOOLEAN /\ connStat' \in BOOLEAN /\ used' \in Nat
    BY <1>1, <1>4 DEF TexecomTypeOK
  <2> QED BY <1>1, <1>4, <2>1, ForgetsKeeps
<1> QED BY <1>2, <1>3, <1>4 DEF Raise

(* SendFails keeps the invariant.                                          *)
LEMMA SendFailsKeeps == ASSUME TexecomInv, NEW t \in Threads, SendFails(t) PROVE TexecomInv'
<1> DEFINE numbers == [conn EXCEPT !.last_command = IF @ = << >> THEN @ ELSE <<@[1], FALSE>>]
<1>1. numbers \in ConnStates
  BY DEF TexecomInv, TexecomTypeOK, ConnStates
<1>2. call[t].result = << >>
  BY DEF SendFails, Asks, Free, NoCall
<1>3. Raise(t, numbers)
  BY DEF SendFails
<1> QED BY <1>1, <1>2, <1>3, RaiseKeeps

(* Gone keeps the invariant.                                               *)
LEMMA GoneKeeps == ASSUME TexecomInv, NEW t \in Threads, Gone(t) PROVE TexecomInv'
<1>1. conn \in ConnStates
  BY DEF TexecomInv, TexecomTypeOK
<1>2. call[t].result = << >>
  BY DEF Gone, Receives, Waits, NoCall
<1> QED BY <1>1, <1>2, RaiseKeeps DEF Gone

(* The wire loses its first message, which nobody uses or which is an      *)
(* answer.                                                                 *)
LEMMA TearKeeps == ASSUME TexecomInv, Tear PROVE TexecomInv'
<1>1. PICK some \in SUBSET {t \in Threads : Waits(t)} :
          call' = [t \in Threads |-> IF t \in some THEN [call[t] EXCEPT !.result = failed] ELSE call[t]]
  BY DEF Tear
<1>2. /\ wire # << >> /\ wire' = Tail(wire) /\ excused' = excused \cup Missing(<<Head(wire)>>)
      /\ s # "none"
      /\ UNCHANGED <<topic, events, active, texecom, connStat, told, toldEvents, panel, s, at, evaluating, rows, conn, mem, used>>
  BY DEF Tear, received
<1>3. TexecomTypeOK /\ wire \in Seq(Messages)
  BY DEF TexecomInv, TexecomTypeOK
<1>4. Head(wire) \in Messages /\ wire' \in Seq(Messages)
  BY <1>2, <1>3, AtTheFront
<1>5. Missing(<<Head(wire)>>) \subseteq Missing(wire) /\ Missing(wire) \subseteq Excuses
  <2>1. wire[1] = Head(wire) /\ 1 \in DOMAIN wire
    BY <1>2, <1>3
  <2>2. Missing(<<Head(wire)>>) = IF IsAnswer(Head(wire)) THEN {} ELSE Subject(Head(wire))
    BY DEF Missing
  <2> QED BY <1>3, <2>1, <2>2, MissingIs DEF Missing
<1>6. QuietWire
  BY <1>2, <1>3, FrontMissed
<1>7. \A t \in Threads : /\ call'[t] \in CallStates
                         /\ call'[t] = call[t] \/ (call'[t].result = failed /\ call[t].result = << >>)
  BY <1>1, <1>3, FirstTypes DEF TexecomTypeOK, CallStates, Waits
<1>8. call' \in [Threads -> CallStates]
  BY <1>1, <1>7
<1>9. NewReadings
  BY <1>7 DEF NewReadings, UnderWay, failed
<1>10. TexecomTypeOK'
  BY <1>2, <1>3, <1>4, <1>5, <1>8 DEF TexecomTypeOK
<1>11. Calm
  BY <1>2, <1>5, <1>6, <1>9 DEF Calm, SameMind, SamePanel, RowsCalm
<1>12. Evaluating'
  BY <1>2, <1>7 DEF TexecomInv, Evaluating
<1>13. Session'
  BY <1>2 DEF TexecomInv, Session
<1> QED BY <1>10, <1>11, <1>12, <1>13, CalmSteps DEF TexecomInv

(* ReceiveAnswer keeps the invariant.                                      *)
LEMMA ReceiveAnswerKeeps == ASSUME TexecomInv, NEW t \in Threads, ReceiveAnswer(t) PROVE TexecomInv'
<1> DEFINE m == Head(wire)
<1>1. /\ wire # << >> /\ wire' = Tail(wire) /\ IsAnswer(m) /\ s # "none"
      /\ UNCHANGED <<topic, events, active, texecom, connStat, told, toldEvents, panel, s, at, evaluating, rows, conn, mem, excused, used>>
  BY DEF ReceiveAnswer, received
<1>2. TexecomTypeOK /\ wire \in Seq(Messages)
  BY DEF TexecomInv, TexecomTypeOK
<1>3. m \in Messages /\ wire' \in Seq(Messages)
  BY <1>1, <1>2, AtTheFront
<1>4. m[4] \in Readings /\ Carries(wire, m[4])
  <2>1. m[1] = "answer"
    BY <1>1 DEF IsAnswer
  <2>2. m[4] \in Readings
    BY <1>3, <2>1, MessageKinds DEF Tidings
  <2> QED BY <1>1, <1>2, <2>1, <2>2, AtTheFront
<1>5. \/ UNCHANGED call
      \/ Waits(t) /\ (call' = [call EXCEPT ![t].result = <<"ok", m[4]>>] \/ call' = [call EXCEPT ![t].result = failed])
  BY DEF ReceiveAnswer
<1>6. \A u \in Threads : /\ call'[u] \in CallStates
                         /\ call'[u] = call[u] \/ (call'[u].result \in {failed, <<"ok", m[4]>>} /\ call[u].result = << >>)
  <2>1. <<"ok", m[4]>> \in Results
    BY <1>4 DEF Results
  <2>2. call \in [Threads -> CallStates]
    BY <1>2 DEF TexecomTypeOK
  <2>3. CASE UNCHANGED call
    BY <2>2, <2>3
  <2>4. ASSUME Waits(t), NEW x \in {failed, <<"ok", m[4]>>}, call' = [call EXCEPT ![t].result = x]
        PROVE  \A u \in Threads : /\ call'[u] \in CallStates
                                  /\ call'[u] = call[u] \/ (call'[u].result = x /\ call[u].result = << >>)
    <3>1. call'[t] = [call[t] EXCEPT !.result = x] /\ \A u \in Threads : u # t => call'[u] = call[u]
      BY <2>2, <2>4
    <3>2. x \in Results
      BY <2>1, FirstTypes
    <3>3. call'[t] \in CallStates /\ call'[t].result = x /\ call[t].result = << >>
      BY <2>2, <2>4, <3>1, <3>2 DEF CallStates, Waits
    <3> QED BY <2>2, <3>1, <3>3
  <2>5. ASSUME Waits(t), NEW x \in {failed, <<"ok", m[4]>>}, call' = [call EXCEPT ![t].result = x], NEW u \in Threads
        PROVE  /\ call'[u] \in CallStates
               /\ call'[u] = call[u] \/ (call'[u].result \in {failed, <<"ok", m[4]>>} /\ call[u].result = << >>)
    <3>1. call'[u] \in CallStates /\ (call'[u] = call[u] \/ (call'[u].result = x /\ call[u].result = << >>))
      BY <2>4, <2>5
    <3> QED BY <2>5, <3>1
  <2>6. PICK y : y = <<"ok", m[4]>>
    OBVIOUS
  <2>7. y \in {failed, <<"ok", m[4]>>} /\ failed \in {failed, <<"ok", m[4]>>}
    BY <2>6
  <2>8. CASE Waits(t) /\ call' = [call EXCEPT ![t].result = y]
    BY <2>5, <2>7, <2>8
  <2>9. CASE Waits(t) /\ call' = [call EXCEPT ![t].result = failed]
    BY <2>5, <2>7, <2>9
  <2> QED BY <1>5, <2>3, <2>6, <2>8, <2>9
<1>7. call' \in [Threads -> CallStates]
  BY <1>2, <1>5, <1>6 DEF TexecomTypeOK
<1>8. NewReadings
  BY <1>4, <1>6 DEF NewReadings, UnderWay, failed
<1>9. QuietWire
  BY <1>1, <1>2, FrontAnswer
<1>10. TexecomTypeOK'
  BY <1>1, <1>2, <1>3, <1>7 DEF TexecomTypeOK
<1>11. Calm
  BY <1>1, <1>8, <1>9 DEF Calm, SameMind, SamePanel, RowsCalm
<1>12. Evaluating'
  <2>1. failed # << >> /\ <<"ok", m[4]>> # << >>
    BY DEF failed
  <2> QED BY <1>1, <1>6, <2>1 DEF TexecomInv, Evaluating
<1>13. Session'
  BY <1>1 DEF TexecomInv, Session
<1> QED BY <1>10, <1>11, <1>12, <1>13, CalmSteps DEF TexecomInv

(* Timeout keeps the invariant.                                            *)
LEMMA TimeoutKeeps == ASSUME TexecomInv, NEW t \in Threads, Timeout(t) PROVE TexecomInv'
<1>1. /\ Waits(t) /\ s # "none" /\ (UNCHANGED used \/ used' = used + 1)
      /\ UNCHANGED <<topic, events, active, texecom, connStat, told, toldEvents, s, at, evaluating, rows, conn, mem, excused>>
  BY DEF Timeout, received, Happens
<1>2. TexecomTypeOK
  BY DEF TexecomInv
<1>3. call' = [call EXCEPT ![t].tries = @ - 1, ![t].result = IF call[t].tries = 1 THEN failed ELSE @]
  BY DEF Timeout
<1>4. /\ call' \in [Threads -> CallStates]
      /\ \A u \in Threads : call'[u].result \in {failed, call[u].result}
      /\ call[t].result = << >> /\ \A u \in Threads : u # t => call'[u] = call[u]
  <2>1. call \in [Threads -> CallStates] /\ call[t].result = << >>
    BY <1>1, <1>2 DEF TexecomTypeOK, Waits
  <2>2. call'[t] = [call[t] EXCEPT !.tries = @ - 1, !.result = IF call[t].tries = 1 THEN failed ELSE @]
    BY <1>3, <2>1
  <2>3. call'[t] \in CallStates /\ call'[t].result \in {failed, call[t].result}
    <3> DEFINE x == IF call[t].tries = 1 THEN failed ELSE call[t].result
    <3>1. call[t] \in CallStates
      BY <2>1
    <3>2. x \in Results /\ x \in {failed, call[t].result}
      BY <3>1, FirstTypes DEF CallStates
    <3>3. call'[t] = [call[t] EXCEPT !.tries = call[t].tries - 1, !.result = x]
      BY <2>2, <3>1 DEF CallStates
    <3> HIDE DEF x
    <3>4. PICK n \in Int : n = call[t].tries - 1
      BY <3>1 DEF CallStates
    <3>5. PICK e : e = [call[t] EXCEPT !.tries = n]
      OBVIOUS
    <3>6. e \in CallStates
      BY <3>1, <3>5 DEF CallStates
    <3>7. call'[t] = [e EXCEPT !.result = x]
      BY <3>3, <3>4, <3>5
    <3>8. call'[t] \in CallStates /\ call'[t].result = x
      BY <3>2, <3>6, <3>7 DEF CallStates
    <3> QED BY <3>2, <3>8
  <2> QED BY <1>3, <2>1, <2>3
<1>5. QuietWire /\ wire' \in Seq(Messages) /\ panel' \in Panels /\ SamePanel
  <2>1. CASE s = "open" /\ conn.last_command # << >>
    <3>1. wire' = Append(wire, Reply(conn.last_command[1], conn.last_command[2]))
          /\ panel' = [panel EXCEPT !.subscribed = @ \/ conn.last_command[1] = "events"]
      BY <2>1 DEF Timeout
    <3>2. conn.last_command[1] \in Commands /\ conn.last_command[2] \in BOOLEAN
      BY <1>2, <2>1 DEF TexecomTypeOK, ConnStates
    <3>3. panel' \in Panels /\ SamePanel
      BY <1>2, <3>1 DEF TexecomTypeOK, Panels, SamePanel
    <3> QED BY <1>2, <3>1, <3>2, <3>3, WireAnswered
  <2>2. CASE ~ (s = "open" /\ conn.last_command # << >>)
    BY <1>2, <2>2, WireLeft DEF Timeout, TexecomTypeOK, SamePanel
  <2> QED BY <2>1, <2>2
<1>6. TexecomTypeOK'
  BY <1>1, <1>2, <1>4, <1>5 DEF TexecomTypeOK
<1>7. NewReadings
  BY <1>4 DEF NewReadings, UnderWay, failed
<1>8. Calm
  BY <1>1, <1>5, <1>7 DEF Calm, SameMind, RowsCalm
<1>9. Evaluating'
  BY <1>1, <1>4 DEF TexecomInv, Evaluating, failed
<1>10. Session'
  BY <1>1 DEF TexecomInv, Session
<1> QED BY <1>6, <1>8, <1>9, <1>10, CalmSteps DEF TexecomInv

(* Eof keeps the invariant.                                                *)
LEMMA EofKeeps == ASSUME TexecomInv, NEW t \in Threads, Eof(t) PROVE TexecomInv'
<1>1. TexecomTypeOK /\ UNCHANGED <<topic, events, active, told, toldEvents, conn, used>>
  BY DEF TexecomInv, Eof
<1>2. CASE Reconnect
  BY <1>1, <1>2, ReconnectKeeps DEF TexecomTypeOK
<1>3. CASE /\ Waits(t) /\ CloseSocket
           /\ call' = [call EXCEPT ![t].result = failed]
           /\ UNCHANGED <<texecom, at, evaluating, rows, mem, connStat>>
  <2>1. /\ call' \in [Threads -> CallStates] /\ call[t].result = << >> /\ call'[t].result = failed
        /\ \A u \in Threads : u # t => call'[u] = call[u]
    <3>1. call \in [Threads -> CallStates] /\ call[t].result = << >>
      BY <1>1, <1>3 DEF TexecomTypeOK, Waits
    <3>2. call'[t] = [call[t] EXCEPT !.result = failed]
      BY <1>3, <3>1
    <3>3. call'[t] \in CallStates /\ call'[t].result = failed
      BY <3>1, <3>2, FirstTypes DEF CallStates
    <3> QED BY <1>3, <3>1, <3>3
  <2>2. wire' \in Seq(Messages) /\ s' \in {"none", "open", "broken"}
    BY <1>3, CloseIs, EmptyWire
  <2>3. TexecomTypeOK'
    BY <1>1, <1>3, <2>1, <2>2, CloseIs DEF TexecomTypeOK
  <2>4. NewReadings
    BY <2>1 DEF NewReadings, UnderWay, failed
  <2>5. Calm
    BY <1>1, <1>3, <2>4, CloseIs DEF Calm, SameMind, RowsCalm
  <2>6. Evaluating'
    BY <1>3, <2>1 DEF TexecomInv, Evaluating, failed
  <2>7. Session'
    BY <1>3, CloseIs DEF Session
  <2> QED BY <2>3, <2>5, <2>6, <2>7, CalmSteps DEF TexecomInv
<1> QED BY <1>2, <1>3 DEF Eof

-----------------------------------------------------------------------------
(* Texecom: answers that change nothing of what is told.                   *)

(* A thread goes on with its answer: it has no reading any more.           *)
LEMMA Proceeding ==
  ASSUME TexecomInv, NEW t \in Threads, Proceeds(t)
  PROVE  /\ call' \in [Threads -> CallStates] /\ evaluating' \in [Threads -> {"no", "decide", "done"}]
         /\ NewReadings /\ rows[t] = << >>
         /\ (\A u \in Threads : u # t => rows'[u] = rows[u]) => Evaluating'
         /\ UNCHANGED <<topic, events, active, texecom, told, toldEvents, used>>
<1>1. /\ call' = [call EXCEPT ![t] = NoCall] /\ evaluating' = [evaluating EXCEPT ![t] = "no"]
      /\ rows[t] = << >> /\ UNCHANGED <<topic, events, active, texecom, told, toldEvents, used>>
  BY DEF Proceeds, HasAnswer
<1>2. TexecomTypeOK
  BY DEF TexecomInv
<1>3. call' \in [Threads -> CallStates] /\ evaluating' \in [Threads -> {"no", "decide", "done"}]
  BY <1>1, <1>2, FirstTypes DEF TexecomTypeOK
<1>4. NewReadings
  BY <1>1, <1>2, CallSet DEF NoCall
<1>5. ASSUME \A u \in Threads : u # t => rows'[u] = rows[u] PROVE Evaluating'
  BY <1>1, <1>2, <1>5 DEF TexecomInv, Evaluating, TexecomTypeOK
<1> QED BY <1>1, <1>3, <1>4, <1>5

(* What a thread has read.                                                 *)
LEMMA ReadingIs ==
  ASSUME TexecomTypeOK, NEW t \in Threads, HasAnswer(t), Ok(t)
  PROVE  Reading(t) \in Readings /\ call[t].result = <<"ok", Reading(t)>> /\ UnderWay(Reading(t))
<1>1. call[t].result \in Results /\ call[t].result # << >> /\ call[t].result # failed
  BY DEF TexecomTypeOK, CallStates, HasAnswer, Ok
<1>2. PICK r \in Readings : call[t].result = <<"ok", r>>
  BY <1>1 DEF Results
<1> QED BY <1>2 DEF Reading, UnderWay

(* A thread goes to a place of the script.                                 *)
LEMMA Going ==
  ASSUME TexecomInv, NEW t \in Threads, NEW x \in Places, at' = [at EXCEPT ![t] = x]
  PROVE  /\ at' \in [Threads -> Places]
         /\ UNCHANGED <<s, wire>> /\ (t = "loop" => x # "connect") => Session'
BY DEF TexecomInv, TexecomTypeOK, Session, Threads

(* The last command is forgotten.                                          *)
LEMMA ForgottenIs == ASSUME TexecomInv, Forgotten PROVE conn' \in ConnStates
BY DEF TexecomInv, TexecomTypeOK, ConnStates, Forgotten

(* A step of this kind keeps the invariant: types and calm are enough.     *)
LEMMA AnsweredCalmly ==
  ASSUME TexecomInv, NEW t \in Threads, Proceeds(t), Forgotten, SameMind, mem' \in Minds, connStat' \in BOOLEAN,
         at' \in [Threads -> Places],
         \/ UNCHANGED <<panel, wire, s, excused>> /\ (at'["loop"] = "connect" => at["loop"] = "connect")
         \/ CloseSocket,
         \/ UNCHANGED rows
         \/ \E q \in Seq(Reports) : (\A i \in DOMAIN q : q[i][1] # "event") /\ rows' = [rows EXCEPT ![t] = q]
  PROVE  TexecomInv'
<1>1. TexecomTypeOK
  BY DEF TexecomInv
<1>2. /\ panel' \in Panels /\ SamePanel /\ QuietWire /\ wire' \in Seq(Messages) /\ s' \in {"none", "open", "broken"}
      /\ excused \subseteq excused' /\ excused' \subseteq excused \cup Missing(wire) /\ excused' \subseteq Excuses
      /\ Session'
  <2>1. CASE CloseSocket
    BY <2>1, CloseIs, EmptyWire DEF Session
  <2>2. CASE UNCHANGED <<panel, wire, s, excused>> /\ (at'["loop"] = "connect" => at["loop"] = "connect")
    BY <1>1, <2>2, WireLeft DEF SamePanel, Session, TexecomInv, TexecomTypeOK
  <2> QED BY <2>1, <2>2
<1>3. RowsCalm /\ rows' \in [Threads -> Seq(Reports)] /\ \A u \in Threads : u # t => rows'[u] = rows[u]
  <2>1. CASE UNCHANGED rows
    BY <1>1, <2>1 DEF RowsCalm, TexecomTypeOK
  <2>2. ASSUME NEW q \in Seq(Reports), \A i \in DOMAIN q : q[i][1] # "event", rows' = [rows EXCEPT ![t] = q]
        PROVE  RowsCalm /\ rows' \in [Threads -> Seq(Reports)] /\ \A u \in Threads : u # t => rows'[u] = rows[u]
    BY <1>1, <2>2, Proceeding DEF RowsCalm, TexecomTypeOK
  <2> QED BY <2>1, <2>2
<1>4. TexecomTypeOK'
  BY <1>1, <1>2, <1>3, Proceeding, ForgottenIs DEF TexecomTypeOK
<1>5. Calm
  BY <1>2, <1>3, Proceeding DEF Calm
<1>6. Evaluating'
  BY <1>3, Proceeding
<1> QED BY <1>2, <1>4, <1>5, <1>6, CalmSteps DEF TexecomInv

(* Memory that is left alone is the same.                                  *)
LEMMA SameMindLeft == ASSUME TexecomInv, UNCHANGED mem PROVE SameMind /\ mem' \in Minds
BY DEF SameMind, TexecomInv, TexecomTypeOK

(* LoginAnswered keeps the invariant.                                      *)
LEMMA LoginAnsweredKeeps == ASSUME TexecomInv, LoginAnswered PROVE TexecomInv'
<1>1. "loop" \in Threads /\ Proceeds("loop") /\ Forgotten /\ UNCHANGED <<rows, mem>>
  BY DEF LoginAnswered, Threads
<1>2. CASE Ok("loop")
  <2>1. at' = [at EXCEPT !["loop"] = "events"] /\ connStat' = TRUE /\ UNCHANGED <<panel, wire, s, excused>>
    BY <1>2 DEF LoginAnswered, Goes, sameSession
  <2>2. at' \in [Threads -> Places] /\ at'["loop"] = "events"
    BY <1>1, <2>1 DEF TexecomInv, TexecomTypeOK, Places
  <2> QED BY <1>1, <2>1, <2>2, SameMindLeft, AnsweredCalmly
<1>3. CASE ~ Ok("loop")
  <2>1. at' = [at EXCEPT !["loop"] = "connect"] /\ UNCHANGED connStat /\ CloseSocket
    BY <1>3 DEF LoginAnswered, Goes
  <2>2. at' \in [Threads -> Places] /\ connStat' \in BOOLEAN
    BY <1>1, <2>1 DEF TexecomInv, TexecomTypeOK, Places
  <2> QED BY <1>1, <2>1, <2>2, SameMindLeft, AnsweredCalmly
<1> QED BY <1>2, <1>3

(* EventsAnswered keeps the invariant.                                     *)
LEMMA EventsAnsweredKeeps == ASSUME TexecomInv, EventsAnswered PROVE TexecomInv'
<1>1. "loop" \in Threads /\ Proceeds("loop") /\ Forgotten /\ UNCHANGED <<rows, mem, connStat>>
  BY DEF EventsAnswered, Threads
<1>2. connStat' \in BOOLEAN
  BY <1>1 DEF TexecomInv, TexecomTypeOK
<1>3. CASE Ok("loop")
  <2>1. at' = [at EXCEPT !["loop"] = "init"] /\ UNCHANGED <<panel, wire, s, excused>>
    BY <1>3 DEF EventsAnswered, Goes, sameSession
  <2>2. at' \in [Threads -> Places] /\ at'["loop"] = "init"
    BY <1>1, <2>1 DEF TexecomInv, TexecomTypeOK, Places
  <2> QED BY <1>1, <1>2, <2>1, <2>2, SameMindLeft, AnsweredCalmly
<1>4. CASE ~ Ok("loop")
  <2>1. at' = [at EXCEPT !["loop"] = "connect"] /\ CloseSocket
    BY <1>4 DEF EventsAnswered, Goes
  <2>2. at' \in [Threads -> Places]
    BY <1>1, <2>1 DEF TexecomInv, TexecomTypeOK, Places
  <2> QED BY <1>1, <1>2, <2>1, <2>2, SameMindLeft, AnsweredCalmly
<1> QED BY <1>3, <1>4

(* InitAnswered keeps the invariant.                                       *)
LEMMA InitAnsweredKeeps == ASSUME TexecomInv, InitAnswered PROVE TexecomInv'
<1>1. "loop" \in Threads /\ Proceeds("loop") /\ Forgotten /\ UNCHANGED <<panel, wire, s, rows, mem, connStat, excused>>
      /\ at' = [at EXCEPT !["loop"] = After("init")]
  BY DEF InitAnswered, Threads, Goes, sameSession
<1>2. connStat' \in BOOLEAN
  BY <1>1 DEF TexecomInv, TexecomTypeOK
<1>3. at' \in [Threads -> Places] /\ at'["loop"] # "connect"
  BY <1>1, AfterIs DEF TexecomInv, TexecomTypeOK
<1> QED BY <1>1, <1>2, <1>3, SameMindLeft, AnsweredCalmly

(* StatusAnswered keeps the invariant.                                     *)
LEMMA StatusAnsweredKeeps == ASSUME TexecomInv, StatusAnswered PROVE TexecomInv'
<1>1. "scheduler" \in Threads /\ Proceeds("scheduler") /\ Forgotten
      /\ UNCHANGED <<panel, wire, s, rows, mem, connStat, excused>>
      /\ at' = [at EXCEPT !["scheduler"] = "sleep"]
  BY DEF StatusAnswered, Threads, Goes, sameSession
<1>2. connStat' \in BOOLEAN
  BY <1>1 DEF TexecomInv, TexecomTypeOK
<1>3. at' \in [Threads -> Places] /\ at'["loop"] = at["loop"]
  BY <1>1 DEF TexecomInv, TexecomTypeOK, Places, Threads
<1> QED BY <1>1, <1>2, <1>3, SameMindLeft, AnsweredCalmly

(* TimeAnswered keeps the invariant.                                       *)
LEMMA TimeAnsweredKeeps == ASSUME TexecomInv, NEW t \in Threads, TimeAnswered(t) PROVE TexecomInv'
<1>1. /\ Proceeds(t) /\ Forgotten /\ UNCHANGED <<panel, wire, s, mem, connStat, excused>>
      /\ at' = [at EXCEPT ![t] = IF t = "loop" THEN After("time") ELSE "sleep"]
      /\ rows' = IF Ok(t) THEN [rows EXCEPT ![t] = << <<"drift", Reading(t).drift>> >>] ELSE rows
  BY DEF TimeAnswered, Goes, sameSession
<1>2. connStat' \in BOOLEAN /\ TexecomTypeOK /\ "loop" \in Threads
  BY <1>1 DEF TexecomInv, TexecomTypeOK, Threads
<1>3. After("time") \in Places /\ After("time") # "connect" /\ "sleep" \in Places
  BY AfterIs DEF Places
<1>4. at' \in [Threads -> Places] /\ (at'["loop"] = "connect" => at["loop"] = "connect")
  BY <1>1, <1>2, <1>3 DEF TexecomTypeOK
<1>5. \/ UNCHANGED rows
      \/ \E q \in Seq(Reports) : (\A i \in DOMAIN q : q[i][1] # "event") /\ rows' = [rows EXCEPT ![t] = q]
  <2>1. CASE ~ Ok(t)
    BY <1>1, <2>1
  <2>2. CASE Ok(t)
    <3>1. Reading(t).drift \in BOOLEAN
      BY <1>1, <1>2, <2>2, ReadingIs DEF Proceeds, Readings
    <3>2. <<"drift", Reading(t).drift>> \in Reports
      BY <3>1 DEF Reports
    <3>3. PICK row \in Reports : row = <<"drift", Reading(t).drift>>
      BY <3>2
    <3>4. <<row>> \in Seq(Reports) /\ \A i \in DOMAIN <<row>> : <<row>>[i][1] # "event"
      BY <3>3
    <3> QED BY <1>1, <2>2, <3>3, <3>4
  <2> QED BY <2>1, <2>2
<1> QED BY <1>1, <1>2, <1>4, <1>5, SameMindLeft, AnsweredCalmly

(* IdleAnswered keeps the invariant.                                       *)
LEMMA IdleAnsweredKeeps == ASSUME TexecomInv, IdleAnswered PROVE TexecomInv'
<1>1. "loop" \in Threads /\ Forgotten /\ HasAnswer("loop") /\ UNCHANGED <<topic, events, active, told, toldEvents, used>>
      /\ (Evaluates("loop") => evaluating["loop"] = "done")
  BY DEF IdleAnswered, Threads
<1>2. CASE Reconnect
  BY <1>1, <1>2, ForgottenIs, ReconnectKeeps
<1>3. CASE ~ Reconnect
  <2>1. /\ call' = [call EXCEPT !["loop"] = NoCall] /\ evaluating' = [evaluating EXCEPT !["loop"] = "no"]
        /\ UNCHANGED <<panel, wire, s, texecom, at, rows, mem, connStat, excused>>
    BY <1>3 DEF IdleAnswered, sameSession
  <2>2. Proceeds("loop")
    BY <1>1, <2>1 DEF Proceeds
  <2>3. at' \in [Threads -> Places] /\ connStat' \in BOOLEAN
    BY <2>1 DEF TexecomInv, TexecomTypeOK
  <2> QED BY <1>1, <2>1, <2>2, <2>3, SameMindLeft, AnsweredCalmly
<1> QED BY <1>2, <1>3

(* CollectVoltage keeps the invariant.                                     *)
LEMMA CollectVoltageKeeps == ASSUME TexecomInv, NEW t \in Threads, CollectVoltage(t) PROVE TexecomInv'
<1>1. /\ HasAnswer(t)
      /\ mem' = IF mem.BATTERY_ALARM_ACTIVE
                THEN [mem EXCEPT !.HISTORY = IF @ = BATTERY_HISTORY_LEN THEN @ ELSE @ + 1] ELSE mem
      /\ evaluating' = [evaluating EXCEPT ![t] =
                          IF mem.BATTERY_ALARM_ACTIVE /\ mem'.HISTORY = BATTERY_HISTORY_LEN
                          THEN "decide" ELSE "done"]
      /\ UNCHANGED <<topic, panel, events, wire, s, active, texecom, at, call, conn, connStat, told,
                     toldEvents, used, rows, excused>>
  BY DEF CollectVoltage, evaluation
<1>2. TexecomTypeOK
  BY DEF TexecomInv
<1>3. mem' \in Minds /\ SameMind
  <2>1. CASE mem' = mem
    BY <1>2, <2>1 DEF TexecomTypeOK, SameMind
  <2>2. CASE mem' # mem
    <3>1. PICK h : h = IF mem.HISTORY = BATTERY_HISTORY_LEN THEN mem.HISTORY ELSE mem.HISTORY + 1
      OBVIOUS
    <3>2. h \in Nat
      BY <1>2, <3>1 DEF TexecomTypeOK, Minds
    <3>3. mem' = [mem EXCEPT !.HISTORY = h]
      BY <1>1, <2>2, <3>1
    <3> QED BY <1>2, <3>2, <3>3 DEF TexecomTypeOK, Minds, SameMind
  <2> QED BY <2>1, <2>2
<1>4. evaluating' \in [Threads -> {"no", "decide", "done"}]
  BY <1>1, <1>2 DEF TexecomTypeOK
<1>5. TexecomTypeOK'
  BY <1>1, <1>2, <1>3, <1>4 DEF TexecomTypeOK
<1>6. Calm
  BY <1>1, <1>3, CallsLeft, WireLeft DEF Calm, SamePanel, RowsCalm
<1>7. Evaluating'
  BY <1>1, <1>2 DEF TexecomInv, Evaluating, TexecomTypeOK, HasAnswer
<1>8. Session'
  BY <1>1 DEF TexecomInv, Session
<1> QED BY <1>5, <1>6, <1>7, <1>8, CalmSteps DEF TexecomInv

-----------------------------------------------------------------------------
(* Texecom: what the threads do by themselves.                             *)

(* A thread that is free puts reports that are not of events.              *)
LEMMA DoneCalmly ==
  ASSUME TexecomInv, NEW t \in Threads, Free(t), SameMind, mem' \in Minds, connStat' \in BOOLEAN, conn' \in ConnStates,
         at' \in [Threads -> Places], panel' \in Panels, SamePanel, s' \in {"none", "open", "broken"}, UNCHANGED wire, Session',
         UNCHANGED <<topic, events, active, texecom, call, evaluating, told, toldEvents, excused>>, used' \in Nat,
         NEW q \in Seq(Reports), \A i \in DOMAIN q : q[i][1] # "event",
         UNCHANGED rows \/ rows' = [rows EXCEPT ![t] = q]
  PROVE  TexecomInv'
<1>1. TexecomTypeOK /\ rows[t] = << >> /\ call[t].result = << >>
  BY DEF TexecomInv, Free, NoCall
<1>2. RowsCalm /\ rows' \in [Threads -> Seq(Reports)] /\ \A u \in Threads : u # t => rows'[u] = rows[u]
  BY <1>1 DEF RowsCalm, TexecomTypeOK
<1>3. TexecomTypeOK'
  BY <1>1, <1>2 DEF TexecomTypeOK
<1>4. Calm
  BY <1>2, CallsLeft, WireLeft DEF Calm
<1>5. Evaluating'
  BY <1>1, <1>2 DEF TexecomInv, Evaluating
<1> QED BY <1>3, <1>4, <1>5, CalmSteps DEF TexecomInv

(* A heartbeat is a report, and not of an event.                           *)
LEMMA BeatIs == ASSUME NEW x PROVE Beat(x) \in Reports /\ Beat(x)[1] = "beat"
BY DEF Beat, Reports

(* PanelOn keeps the invariant.                                            *)
LEMMA PanelOnKeeps == ASSUME TexecomInv, PanelOn PROVE TexecomInv'
<1> DEFINE q == (IF mem.panel = "ON" THEN << >> ELSE << <<"panel", "ON">> >>) \o <<Beat("ON")>>
<1>1. /\ "loop" \in Threads /\ Free("loop") /\ at' = [at EXCEPT !["loop"] = After("on")]
      /\ mem' = [mem EXCEPT !.panel = "ON"] /\ rows' = [rows EXCEPT !["loop"] = q]
      /\ UNCHANGED <<topic, events, active, texecom, call, evaluating, told, toldEvents, used, panel, wire, s, conn, connStat, excused>>
  BY DEF PanelOn, Threads, Goes, doings, sameSession
<1>2. q \in Seq(Reports) /\ \A i \in DOMAIN q : q[i][1] # "event"
  <2>1. PICK beat \in Reports : beat = Beat("ON") /\ beat[1] = "beat"
    BY BeatIs
  <2>0. <<"panel", "ON">> \in Reports
    BY DEF Reports
  <2>2. PICK on \in Reports : on = <<"panel", "ON">> /\ on[1] = "panel"
    BY <2>0
  <2>3. PICK p : p = IF mem.panel = "ON" THEN << >> ELSE << <<"panel", "ON">> >>
    OBVIOUS
  <2>6. p = << >> \/ p = <<on>>
    BY <2>2, <2>3
  <2>7. p \in Seq(Reports) /\ \A i \in DOMAIN p : p[i][1] # "event"
    <3>1. CASE p = << >>
      BY <3>1
    <3>2. CASE p = <<on>>
      <4>1. <<on>> \in Seq(Reports) /\ DOMAIN <<on>> = {1} /\ <<on>>[1] = on
        OBVIOUS
      <4> QED BY <2>2, <3>2, <4>1
    <3> QED BY <2>6, <3>1, <3>2
  <2>8. q = p \o <<beat>>
    BY <2>1, <2>3
  <2> HIDE DEF q
  <2>4. q \in Seq(Reports)
    BY <2>1, <2>7, <2>8
  <2>5. ASSUME NEW i \in DOMAIN q PROVE q[i] = beat \/ (i \in DOMAIN p /\ q[i] = p[i])
    BY <2>1, <2>7, <2>8
  <2> QED BY <2>1, <2>7, <2>4, <2>5
<1> HIDE DEF q
<1>3. mem' \in Minds /\ SameMind
  BY <1>1 DEF TexecomInv, TexecomTypeOK, Minds, SameMind
<1>4. at' \in [Threads -> Places] /\ Session'
  BY <1>1, AfterIs, Going
<1>5. panel' \in Panels /\ SamePanel /\ connStat' \in BOOLEAN /\ conn' \in ConnStates /\ s' \in {"none", "open", "broken"} /\ used' \in Nat
  BY <1>1 DEF TexecomInv, TexecomTypeOK, SamePanel
<1> QED BY <1>1, <1>2, <1>3, <1>4, <1>5, DoneCalmly

(* PowerStateKnown keeps the invariant.                                    *)
LEMMA PowerStateKnownKeeps == ASSUME TexecomInv, PowerStateKnown PROVE TexecomInv'
<1>1. /\ "loop" \in Threads /\ Free("loop") /\ at' = [at EXCEPT !["loop"] = "listen"]
      /\ UNCHANGED <<topic, panel, events, wire, s, active, texecom, call, evaluating, rows, conn, mem, connStat, told, toldEvents, excused, used>>
  BY DEF PowerStateKnown, Threads, Goes, heard
<1>2. at' \in [Threads -> Places] /\ Session'
  <2>1. "listen" \in Places
    BY DEF Places
  <2> QED BY <1>1, <2>1, Going
<1>3. panel' \in Panels /\ SamePanel /\ connStat' \in BOOLEAN /\ conn' \in ConnStates /\ s' \in {"none", "open", "broken"} /\ used' \in Nat
  BY <1>1 DEF TexecomInv, TexecomTypeOK, SamePanel
<1>4. << >> \in Seq(Reports) /\ \A i \in DOMAIN << >> : << >>[i][1] # "event"
  OBVIOUS
<1> QED BY <1>1, <1>2, <1>3, <1>4, SameMindLeft, DoneCalmly

(* PanelConnect keeps the invariant.                                       *)
LEMMA PanelConnectKeeps == ASSUME TexecomInv, PanelConnect PROVE TexecomInv'
<1>1. /\ "loop" \in Threads /\ Free("loop") /\ at' = [at EXCEPT !["loop"] = "login"] /\ at["loop"] = "connect"
      /\ s' = "open" /\ wire' = << >> /\ panel' = [panel EXCEPT !.subscribed = FALSE]
      /\ conn' = [conn EXCEPT !.last_received = IF @ = "none" THEN @ ELSE "former"]
      /\ UNCHANGED <<topic, events, active, texecom, call, evaluating, told, toldEvents, used, rows, mem, connStat, excused>>
  BY DEF PanelConnect, Threads, Goes, doings
<1>2. UNCHANGED wire
  BY <1>1 DEF TexecomInv, Session
<1>3. at' \in [Threads -> Places] /\ at'["loop"] = "login"
  BY <1>1 DEF TexecomInv, TexecomTypeOK, Places
<1>4. Session'
  BY <1>1, <1>3 DEF Session
<1>5. panel' \in Panels /\ SamePanel /\ connStat' \in BOOLEAN /\ conn' \in ConnStates /\ used' \in Nat
  BY <1>1 DEF TexecomInv, TexecomTypeOK, SamePanel, Panels, ConnStates
<1>6. << >> \in Seq(Reports) /\ \A i \in DOMAIN << >> : << >>[i][1] # "event"
  OBVIOUS
<1> QED BY <1>1, <1>2, <1>3, <1>4, <1>5, <1>6, SameMindLeft, DoneCalmly

(* PanelRefuses keeps the invariant.                                       *)
LEMMA PanelRefusesKeeps == ASSUME TexecomInv, PanelRefuses PROVE TexecomInv'
<1> DEFINE q == << <<"panel", "OFF">>, Beat("OFF") >>
<1>1. /\ "loop" \in Threads /\ Free("loop")
      /\ mem' = [mem EXCEPT !.panel = "OFF"] /\ (UNCHANGED rows \/ rows' = [rows EXCEPT !["loop"] = q]) /\ connStat' = FALSE
      /\ UNCHANGED <<topic, events, active, texecom, call, evaluating, told, toldEvents, used, panel, wire, s, at, conn, excused>>
  BY DEF PanelRefuses, Threads, doings, sameSession
<1>2. q \in Seq(Reports) /\ \A i \in DOMAIN q : q[i][1] # "event"
  <2>1. PICK beat \in Reports : beat = Beat("OFF") /\ beat[1] = "beat"
    BY BeatIs
  <2>0. <<"panel", "OFF">> \in Reports
    BY DEF Reports
  <2>2. PICK off \in Reports : off = <<"panel", "OFF">> /\ off[1] = "panel"
    BY <2>0
  <2>3. q = <<off, beat>>
    BY <2>1, <2>2
  <2> QED BY <2>1, <2>2, <2>3
<1> HIDE DEF q
<1>3. mem' \in Minds /\ SameMind
  BY <1>1 DEF TexecomInv, TexecomTypeOK, Minds, SameMind
<1>4. at' \in [Threads -> Places] /\ Session'
  BY <1>1 DEF TexecomInv, TexecomTypeOK, Session
<1>5. panel' \in Panels /\ SamePanel /\ conn' \in ConnStates /\ s' \in {"none", "open", "broken"} /\ used' \in Nat
  BY <1>1 DEF TexecomInv, TexecomTypeOK, SamePanel
<1> QED BY <1>1, <1>2, <1>3, <1>4, <1>5, DoneCalmly

(* Heartbeat keeps the invariant.                                          *)
LEMMA HeartbeatKeeps == ASSUME TexecomInv, Heartbeat PROVE TexecomInv'
<1> DEFINE q == <<Beat(mem.panel)>>
<1>1. /\ "scheduler" \in Threads /\ Free("scheduler") /\ rows' = [rows EXCEPT !["scheduler"] = q]
      /\ UNCHANGED <<topic, events, active, texecom, call, evaluating, told, toldEvents, used, panel, wire, s, at, conn, mem, connStat, excused>>
  BY DEF Heartbeat, Threads, doings, sameSession
<1>2. q \in Seq(Reports) /\ \A i \in DOMAIN q : q[i][1] # "event"
  BY BeatIs
<1> HIDE DEF q
<1>3. at' \in [Threads -> Places] /\ Session'
  BY <1>1 DEF TexecomInv, TexecomTypeOK, Session
<1>4. panel' \in Panels /\ SamePanel /\ conn' \in ConnStates /\ s' \in {"none", "open", "broken"} /\ used' \in Nat /\ connStat' \in BOOLEAN
  BY <1>1 DEF TexecomInv, TexecomTypeOK, SamePanel
<1> QED BY <1>1, <1>2, <1>3, <1>4, SameMindLeft, DoneCalmly

(* Job keeps the invariant.                                                *)
LEMMA JobKeeps == ASSUME TexecomInv, Job PROVE TexecomInv'
<1>1. PICK job \in {"status", "time"} : at' = [at EXCEPT !["scheduler"] = job]
  BY DEF Job, Goes
<1>2. /\ "scheduler" \in Threads /\ Free("scheduler") /\ used' = used + 1
      /\ UNCHANGED <<topic, panel, events, wire, s, active, texecom, call, evaluating, rows, conn, mem, connStat, told, toldEvents, excused>>
  BY DEF Job, Threads, Happens, heard
<1>3. at' \in [Threads -> Places] /\ Session'
  <2>1. job \in Places
    BY <1>1 DEF Places
  <2> QED BY <1>1, <1>2, <2>1, Going
<1>4. panel' \in Panels /\ SamePanel /\ connStat' \in BOOLEAN /\ conn' \in ConnStates /\ s' \in {"none", "open", "broken"} /\ used' \in Nat
  BY <1>2 DEF TexecomInv, TexecomTypeOK, SamePanel
<1>5. << >> \in Seq(Reports) /\ \A i \in DOMAIN << >> : << >>[i][1] # "event"
  OBVIOUS
<1> QED BY <1>2, <1>3, <1>4, <1>5, SameMindLeft, DoneCalmly

-----------------------------------------------------------------------------
(* Texecom: the panel speaks.                                              *)

MindLeft == UNCHANGED <<call, evaluating, rows, mem, told>>

(* When the panel speaks, the threads and what they report are left alone. *)
LEMMA MindIsLeft ==
  ASSUME TexecomInv, MindLeft
  PROVE  /\ Evaluating' /\ NewReadings
         /\ \A n : InRows(n)' <=> InRows(n)
         /\ RowsOnce => RowsOnce'
         /\ \A what : Reported(what) => Reported(what)'
BY CallsLeft, EvaluatingLeft DEF TexecomInv, MindLeft, InRows, Reporting, RowsOnce, Reported

(* Events are numbered from 1; the number 0 says that none is pending.     *)
LEMMA NoEventZero == ASSUME TexecomTypeOK PROVE 0 \notin DOMAIN events
BY DEF TexecomTypeOK

(* MainsChange keeps the invariant.                                        *)
LEMMA MainsChangeKeeps == ASSUME TexecomInv, MainsChange PROVE TexecomInv'
<1>1. /\ panel' = [panel EXCEPT !.mains = IF @ = "ON" THEN "OFF" ELSE "ON", !.unsaid = TRUE]
      /\ used' = used + 1
      /\ UNCHANGED <<topic, events, wire, s, active, texecom, at, call, evaluating, rows, conn, mem, connStat,
                     told, toldEvents, excused>>
  BY DEF MainsChange, Happens, process, heard
<1>2. TexecomTypeOK /\ MindLeft /\ QuietWire
  BY <1>1, WireLeft DEF TexecomInv, MindLeft
<1>3. panel' \in Panels /\ panel'.unsaid = TRUE /\ panel'.battery = panel.battery
  BY <1>1, <1>2 DEF TexecomTypeOK, Panels
<1>4. TexecomTypeOK'
  BY <1>1, <1>2, <1>3 DEF TexecomTypeOK
<1>5. EventsInv'
  <2>1. QuietEvents
    BY <1>1, <1>2, MindIsLeft, NoEventZero DEF QuietEvents, KeepsContext
  <2> QED BY <1>2, <2>1, QuietForEvents DEF QuietWire, TexecomInv, ReportInv
<1>6. MainsInv'
  BY <1>3 DEF MainsInv
<1>7. BatteryInv'
  <2>1. QuietBattery
    BY <1>1, <1>2, <1>3, MindIsLeft DEF QuietBattery
  <2> QED BY <1>2, <2>1, QuietForBattery DEF QuietWire, TexecomInv, ReportInv
<1>8. DriftInv'
  BY <1>1 DEF DriftInv, TexecomInv, ReportInv
<1>9. Session' /\ Evaluating'
  BY <1>1, <1>2, MindIsLeft DEF TexecomInv, Session
<1> QED BY <1>4, <1>5, <1>6, <1>7, <1>8, <1>9 DEF TexecomInv, ReportInv

(* News of mains or battery, heard or missed: no event is concerned.       *)
LEMMA NewsSaid ==
  ASSUME TexecomInv, NEW m \in Messages, m[1] \in {"mains", "battery"}, Say(<<m>>)
  PROVE  /\ EventsWire /\ ReadingsWire /\ wire' \in Seq(Messages) /\ excused' \subseteq Excuses
         /\ \A n : <<"told", n>> \in excused' <=> <<"told", n>> \in excused
         /\ \A n : <<"zone", n>> \in excused' <=> <<"zone", n>> \in excused
         /\ \A n : <<"late", n>> \in excused' <=> <<"late", n>> \in excused
         /\ \A n : <<"drift", n>> \in excused' <=> <<"drift", n>> \in excused
         /\ \A what \in {"mains", "battery"} : what # m[1] =>
               KeepsNews(what) /\ (<<what, 0>> \in excused' <=> <<what, 0>> \in excused)
         /\ <<m[1], 0>> \notin excused' => \A x : LastIs(wire', m[1], x) <=> m[2] = x
         /\ <<m[1], 0>> \notin excused' => News(wire', m[1])
         /\ s = "none" => wire' = wire
<1>1. wire \in Seq(Messages) /\ m[1] \notin Tidings /\ m[1] # "answer" /\ m[1] \notin {"direct", "omit", "bypass", "unlisted"}
  BY DEF TexecomInv, TexecomTypeOK, Tidings
<1>2. /\ wire' \in Seq(Messages) /\ excused' \subseteq Excuses
      /\ \/ s = "open" /\ wire' = Append(wire, m) /\ excused' = excused \ Missing(<<m>>)
         \/ wire' = wire /\ excused' = excused \cup Missing(<<m>>)
  BY SayOne
<1>3. /\ \A n : <<"told", n>> \notin Missing(<<m>>)
      /\ \A n : <<"zone", n>> \notin Missing(<<m>>) /\ <<"late", n>> \notin Missing(<<m>>) /\ <<"drift", n>> \notin Missing(<<m>>)
      /\ \A what \in {"mains", "battery"} : <<what, 0>> \in Missing(<<m>>) <=> m[1] = what
  BY <1>1, MissingOne
<1>4. CASE s = "open" /\ wire' = Append(wire, m) /\ excused' = excused \ Missing(<<m>>)
  <2>1. EventsWire /\ ReadingsWire
    BY <1>1, <1>4, AtTheEnd DEF EventsWire, ReadingsWire
  <2>2. \A what \in {"mains", "battery"} : what # m[1] => KeepsNews(what)
    BY <1>1, <1>4, AtTheEnd DEF KeepsNews
  <2>3. (\A x : LastIs(wire', m[1], x) <=> m[2] = x) /\ News(wire', m[1])
    BY <1>1, <1>4, AtTheEnd
  <2> QED BY <1>2, <1>3, <1>4, <2>1, <2>2, <2>3
<1>5. CASE wire' = wire /\ excused' = excused \cup Missing(<<m>>)
  BY <1>2, <1>3, <1>5, WireLeft DEF QuietWire
<1> QED BY <1>2, <1>4, <1>5

(* MainsSaid keeps the invariant.                                          *)
LEMMA MainsSaidKeeps == ASSUME TexecomInv, MainsSaid PROVE TexecomInv'
<1> DEFINE m == <<"mains", panel.mains>>
<1>1. /\ panel' = [panel EXCEPT !.unsaid = FALSE] /\ Say(<<m>>)
      /\ UNCHANGED <<topic, events, s, active, texecom, at, call, evaluating, rows, conn, mem, connStat, told, toldEvents, used>>
  BY DEF MainsSaid, process
<1>2. TexecomTypeOK /\ MindLeft
  BY <1>1 DEF TexecomInv, MindLeft
<1>3. panel' \in Panels /\ panel'.mains = panel.mains /\ panel'.battery = panel.battery /\ panel.mains \in {"ON", "OFF"}
  BY <1>1, <1>2 DEF TexecomTypeOK, Panels
<1>4. m \in Messages /\ m[1] = "mains" /\ m[2] = panel.mains
  BY <1>3 DEF Messages
<1> HIDE DEF m
<1>5. TexecomTypeOK'
  BY <1>1, <1>2, <1>3, <1>4, NewsSaid DEF TexecomTypeOK
<1>6. EventsInv'
  <2>1. QuietEvents
    BY <1>1, <1>2, <1>4, MindIsLeft, NoEventZero, NewsSaid DEF QuietEvents, KeepsContext
  <2> QED BY <1>1, <1>4, <2>1, NewsSaid, QuietForEvents DEF TexecomInv, ReportInv
<1>7. MainsInv'
  BY <1>1, <1>3, <1>4, NewsSaid DEF MainsInv
<1>8. BatteryInv'
  <2>1. QuietBattery
    BY <1>1, <1>2, <1>3, <1>4, MindIsLeft, NewsSaid DEF QuietBattery
  <2> QED BY <1>1, <1>4, <2>1, NewsSaid, QuietForBattery DEF TexecomInv, ReportInv
<1>9. DriftInv'
  BY <1>1, <1>4, NewsSaid DEF DriftInv, TexecomInv, ReportInv
<1>10. Session' /\ Evaluating'
  BY <1>1, <1>2, <1>4, MindIsLeft, NewsSaid DEF TexecomInv, Session
<1> QED BY <1>5, <1>6, <1>7, <1>8, <1>9, <1>10 DEF TexecomInv, ReportInv

(* BatteryChange keeps the invariant.                                      *)
LEMMA BatteryChangeKeeps == ASSUME TexecomInv, BatteryChange PROVE TexecomInv'
<1> DEFINE m == <<"battery", panel'.battery>>
<1>1. /\ panel' = [panel EXCEPT !.battery = IF @ = "fine" THEN "alarm" ELSE "fine"] /\ Say(<<m>>) /\ used' = used + 1
      /\ UNCHANGED <<topic, events, s, active, texecom, at, call, evaluating, rows, conn, mem, connStat, told, toldEvents>>
  BY DEF BatteryChange, process, Happens
<1>2. TexecomTypeOK /\ MindLeft
  BY <1>1 DEF TexecomInv, MindLeft
<1>3. panel' \in Panels /\ panel'.mains = panel.mains /\ panel'.unsaid = panel.unsaid /\ panel'.battery \in {"fine", "alarm"}
  BY <1>1, <1>2 DEF TexecomTypeOK, Panels
<1>4. m \in Messages /\ m[1] = "battery" /\ m[2] = panel'.battery
  BY <1>3 DEF Messages
<1> HIDE DEF m
<1>5. TexecomTypeOK'
  BY <1>1, <1>2, <1>3, <1>4, NewsSaid DEF TexecomTypeOK
<1>6. EventsInv'
  <2>1. QuietEvents
    BY <1>1, <1>2, <1>4, MindIsLeft, NoEventZero, NewsSaid DEF QuietEvents, KeepsContext
  <2> QED BY <1>1, <1>4, <2>1, NewsSaid, QuietForEvents DEF TexecomInv, ReportInv
<1>7. BatteryInv'
  BY <1>1, <1>3, <1>4, NewsSaid DEF BatteryInv, TexecomInv, ReportInv
<1>8. MainsInv'
  <2>1. QuietMains
    BY <1>1, <1>2, <1>3, <1>4, MindIsLeft, NewsSaid DEF QuietMains
  <2> QED BY <1>1, <1>4, <2>1, NewsSaid, QuietForMains DEF TexecomInv, ReportInv
<1>9. DriftInv'
  BY <1>1, <1>4, NewsSaid DEF DriftInv, TexecomInv, ReportInv
<1>10. Session' /\ Evaluating'
  BY <1>1, <1>2, <1>4, MindIsLeft, NewsSaid DEF TexecomInv, Session
<1> QED BY <1>5, <1>6, <1>7, <1>8, <1>9, <1>10 DEF TexecomInv, ReportInv

(* An event of which the panel tells, with one message or two: it is heard *)
(* or missed.                                                              *)
LEMMA EventSaid ==
  ASSUME TexecomInv, NEW z \in TexecomZones, NEW m \in Messages, NEW w \in Seq(Messages), NEW ms \in Seq(Messages),
         m[1] \in Tidings, m[2] = Len(events) + 1, topic = "incidents" => m[1] = "incident",
         \A n : Tells(w, n) <=> Tells(wire, n), TellsOnce(w), topic = "incidents" => NoKeys(w),
         \A what \in {"mains", "battery"} : (News(w, what) <=> News(wire, what))
                                           /\ \A x : LastIs(w, what, x) <=> LastIs(wire, what, x),
         \A r : Carries(w, r) <=> Carries(wire, r),
         \A x : x \in Missing(ms) <=> x = <<"told", Len(events) + 1>>,
         wire \o ms = Append(w, m), EventsSay(z, ms)
  PROVE  TexecomInv'
<1>0. PICK N : N = Len(events) + 1
  OBVIOUS
<1>1. /\ events' = Append(events, z) /\ toldEvents' = Append(toldEvents, [times |-> 0, zone |-> 0])
      /\ used' = used + 1 /\ Say(ms)
      /\ UNCHANGED <<topic, panel, s, active, texecom, at, call, evaluating, rows, conn, mem, connStat, told>>
  BY DEF EventsSay, Happens, process
<1>2. TexecomTypeOK /\ MindLeft /\ wire \in Seq(Messages)
  BY <1>1 DEF TexecomInv, MindLeft, TexecomTypeOK
<1>3. /\ events \in Seq(TexecomZones) /\ toldEvents \in Seq([times : Nat, zone : Nat]) /\ Len(toldEvents) = Len(events)
      /\ DOMAIN events = 1 .. Len(events) /\ N \in Nat \ {0} /\ N \notin DOMAIN events /\ Len(events) \in Nat
  BY <1>0, <1>2 DEF TexecomTypeOK
<1>4. /\ events' \in Seq(TexecomZones) /\ Len(events') = N /\ DOMAIN events' = DOMAIN events \cup {N}
      /\ \A n \in DOMAIN events : events'[n] = events[n]
  BY <1>0, <1>1, <1>3
<1>5. /\ toldEvents' \in Seq([times : Nat, zone : Nat]) /\ Len(toldEvents') = N
      /\ \A n \in DOMAIN events : toldEvents'[n] = toldEvents[n]
      /\ toldEvents'[N] = [times |-> 0, zone |-> 0]
  <2>1. [times |-> 0, zone |-> 0] \in [times : Nat, zone : Nat]
    OBVIOUS
  <2>2. PICK new \in [times : Nat, zone : Nat] : new = [times |-> 0, zone |-> 0]
    BY <2>1
  <2>3. toldEvents' = Append(toldEvents, new)
    BY <1>1, <2>2
  <2> QED BY <1>0, <1>3, <2>2, <2>3
<1>6. /\ ~ Tells(wire, N) /\ ~ InRows(N) /\ <<"told", N>> \notin excused /\ mem.PENDING_INCIDENT # N
      /\ 0 \notin DOMAIN events
  BY <1>2, <1>3 DEF TexecomInv, ReportInv, EventsInv, AllKnown
<1>7. \/ wire' = Append(w, m) /\ excused' = excused \ Missing(ms)
      \/ wire' = wire /\ excused' = excused \cup Missing(ms)
  BY <1>1 DEF Say
<1>8. <<"told", N>> \in Excuses /\ excused \subseteq Excuses
  BY <1>2, <1>3 DEF Excuses, TexecomTypeOK
<1>9. /\ excused' \subseteq Excuses
      /\ \A x : x # <<"told", N>> => (x \in excused' <=> x \in excused)
  BY <1>0, <1>7, <1>8
<1>10. /\ \A n : <<"zone", n>> # <<"told", N>> /\ <<"late", n>> # <<"told", N>> /\ <<"drift", n>> # <<"told", N>>
                 /\ <<"mains", n>> # <<"told", N>> /\ <<"battery", n>> # <<"told", N>>
       /\ \A n : n # N => <<"told", n>> # <<"told", N>>
  OBVIOUS
<1>11. /\ wire' \in Seq(Messages)
       /\ \A n : Tells(wire', n) => Tells(wire, n) \/ n = N
       /\ \A n : Tells(wire, n) => Tells(wire', n)
       /\ TellsOnce(wire') /\ (topic = "incidents" => NoKeys(wire'))
       /\ \A what \in {"mains", "battery"} : (News(wire', what) <=> News(wire, what))
                                           /\ \A x : LastIs(wire', what, x) <=> LastIs(wire, what, x)
       /\ \A r : Carries(wire', r) => Carries(wire, r)
       /\ Tells(wire', N) \/ <<"told", N>> \in excused'
  <2>1. CASE wire' = wire /\ excused' = excused \cup Missing(ms)
    BY <1>0, <1>2, <2>1 DEF TexecomInv, ReportInv, EventsInv, OfTopic
  <2>2. CASE wire' = Append(w, m)
    <3>1. m[1] # "answer" /\ m[1] \notin {"mains", "battery"} /\ m[2] = N
      BY <1>0 DEF Tidings
    <3>2. ~ Tells(w, N)
      BY <1>6
    <3>3. \A n : Tells(wire', n) <=> Tells(wire, n) \/ n = N
      BY <2>2, <3>1, AtTheEnd
    <3>4. TellsOnce(wire') /\ wire' \in Seq(Messages)
      BY <2>2, <3>1, <3>2, AtTheEnd
    <3>5. topic = "incidents" => NoKeys(wire')
      BY <2>2, AtTheEnd
    <3>6. \A what \in {"mains", "battery"} : (News(wire', what) <=> News(wire, what))
                                           /\ \A x : LastIs(wire', what, x) <=> LastIs(wire, what, x)
      BY <2>2, <3>1, AtTheEnd
    <3>7. \A r : Carries(wire', r) => Carries(wire, r)
      BY <2>2, <3>1, AtTheEnd
    <3> QED BY <3>3, <3>4, <3>5, <3>6, <3>7
  <2> QED BY <1>7, <2>1, <2>2
<1>12. TexecomTypeOK'
  <2>1. used' \in Nat
    BY <1>1, <1>2 DEF TexecomTypeOK
  <2> QED BY <1>1, <1>2, <1>4, <1>5, <1>9, <1>11, <2>1 DEF TexecomTypeOK
<1>13. AllKnown'
  <2>1. ASSUME NEW n \in Nat, Tells(wire', n) \/ InRows(n)' \/ <<"told", n>> \in excused' PROVE n \in DOMAIN events'
    <3>1. CASE n = N
      BY <1>4, <3>1
    <3>2. CASE n # N
      BY <1>2, <1>4, <1>9, <1>10, <1>11, <2>1, <3>2, MindIsLeft DEF TexecomInv, ReportInv, EventsInv, AllKnown
    <3> QED BY <3>1, <3>2
  <2> QED BY <1>1, <1>4, <2>1 DEF AllKnown, TexecomInv, ReportInv, EventsInv
<1>14. OfTopic'
  BY <1>1, <1>2, <1>11, MindIsLeft DEF OfTopic, TexecomInv, ReportInv, EventsInv
<1>15. ASSUME NEW n \in DOMAIN events PROVE OnOneWay(n)'
  <2>1. n # N /\ events'[n] = events[n] /\ toldEvents'[n] = toldEvents[n]
    BY <1>3, <1>4, <1>5
  <2>2. (IsTold(n) => IsTold(n)') /\ (IsPending(n) => IsPending(n)')
    BY <1>1, <1>9, <1>10, <2>1 DEF IsTold, IsPending, Rightly
  <2>3. (Tells(wire', n) <=> Tells(wire, n)) /\ (<<"told", n>> \in excused' <=> <<"told", n>> \in excused)
    BY <1>9, <1>10, <1>11, <2>1
  <2>4. OnOneWay(n)
    BY DEF TexecomInv, ReportInv, EventsInv, OneWay
  <2> QED BY <1>1, <1>2, <2>1, <2>2, <2>3, <2>4, MindIsLeft DEF OnOneWay
<1>16. OnOneWay(N)'
  <2>1. ~ InRows(N)' /\ mem'.PENDING_INCIDENT # N /\ toldEvents'[N].times = 0
    BY <1>1, <1>2, <1>5, <1>6, MindIsLeft
  <2> QED BY <1>11, <2>1 DEF OnOneWay
<1>17. EventsInv'
  <2>1. OneWay'
    BY <1>4, <1>15, <1>16 DEF OneWay
  <2>2. RowsOnce'
    BY <1>2, MindIsLeft DEF TexecomInv, ReportInv, EventsInv
  <2> QED BY <1>11, <1>13, <1>14, <2>1, <2>2 DEF EventsInv
<1>18. KeepsNews("mains") /\ KeepsNews("battery") /\ ReadingsWire
  BY <1>11 DEF KeepsNews, ReadingsWire
<1>19. MainsInv' /\ BatteryInv' /\ DriftInv'
  <2>1. QuietMains
    BY <1>1, <1>2, <1>9, <1>10, MindIsLeft DEF QuietMains
  <2>2. QuietBattery
    BY <1>1, <1>2, <1>9, <1>10, MindIsLeft DEF QuietBattery
  <2>3. QuietDrift
    BY <1>1, <1>9, <1>10 DEF QuietDrift
  <2> QED BY <1>18, <2>1, <2>2, <2>3, QuietForMains, QuietForBattery, QuietForDrift DEF TexecomInv, ReportInv
<1>20. Session' /\ Evaluating'
  <2>1. s = "none" => wire' = wire
    BY <1>1 DEF Say
  <2> QED BY <1>1, <1>2, <2>1, MindIsLeft DEF TexecomInv, Session
<1> QED BY <1>12, <1>17, <1>19, <1>20 DEF TexecomInv, ReportInv

(* KeyPressed keeps the invariant.                                         *)
LEMMA KeyPressedKeeps == ASSUME TexecomInv, KeyPressed PROVE TexecomInv'
<1> DEFINE z == CHOOSE z \in TexecomZones : TRUE
<1>1. PICK kind \in {"direct", "omit", "bypass", "unlisted"} : EventsSay(z, << <<kind, Len(events) + 1>> >>)
  BY DEF KeyPressed, LogEvents
<1>2. z \in TexecomZones
  BY TexecomAssumption
<1> HIDE DEF z
<1>3. wire \in Seq(Messages) /\ Len(events) + 1 \in Nat \ {0} /\ topic # "incidents"
  BY DEF TexecomInv, TexecomTypeOK, KeyPressed
<1>4. PICK m : m = <<kind, Len(events) + 1>>
  OBVIOUS
<1>5. m \in Messages /\ m[1] \in Tidings /\ m[2] = Len(events) + 1
  BY <1>3, <1>4 DEF Messages, Tidings
<1>6. EventsSay(z, <<m>>)
  BY <1>1, <1>4
<1>7. wire \o <<m>> = Append(wire, m) /\ <<m>> \in Seq(Messages)
  BY <1>3, <1>5
<1>8. ASSUME NEW x PROVE x \in Missing(<<m>>) <=> x = <<"told", Len(events) + 1>>
  <2>1. Missing(<<m>>) = {<<"told", m[2]>>}
    <3>1. m[1] \notin {"answer", "mains", "battery", "zone"}
      BY <1>5 DEF Tidings
    <3>2. Missing(<<m>>) = IF IsAnswer(m) THEN {} ELSE Subject(m)
      BY DEF Missing
    <3> QED BY <3>1, <3>2 DEF IsAnswer, Subject
  <2> QED BY <1>5, <2>1
<1>9. TellsOnce(wire)
  BY DEF TexecomInv, ReportInv, EventsInv
<1> QED BY <1>2, <1>3, <1>5, <1>6, <1>7, <1>8, <1>9, EventSaid

(* Alarm keeps the invariant.                                              *)
LEMMA AlarmKeeps == ASSUME TexecomInv, NEW z \in TexecomZones, Alarm(z) PROVE TexecomInv'
<1>1. wire \in Seq(Messages) /\ Len(events) + 1 \in Nat \ {0} /\ topic = "incidents"
  BY DEF TexecomInv, TexecomTypeOK, Alarm
<1>2. PICK p, m : p = <<"zone", z>> /\ m = <<"incident", Len(events) + 1>>
  OBVIOUS
<1>3. EventsSay(z, <<p, m>>)
  BY <1>2 DEF Alarm
<1>4. m \in Messages /\ m[1] = "incident" /\ m[2] = Len(events) + 1 /\ p \in Messages /\ p[1] = "zone"
  BY <1>1, <1>2 DEF Messages, Tidings
<1>5. p[1] \notin Tidings /\ m[1] \in Tidings /\ p[1] \notin {"mains", "battery", "answer", "direct", "omit", "bypass", "unlisted"}
  BY <1>4 DEF Tidings
<1> DEFINE w == Append(wire, p)
<1>6. /\ w \in Seq(Messages)
      /\ \A n : Tells(w, n) <=> Tells(wire, n)
      /\ \A what \in {"mains", "battery"} : (News(w, what) <=> News(wire, what))
                                           /\ \A x : LastIs(w, what, x) <=> LastIs(wire, what, x)
      /\ \A r : Carries(w, r) <=> Carries(wire, r)
  BY <1>1, <1>4, <1>5, AtTheEnd
<1>7. TellsOnce(w) /\ NoKeys(w)
  <2>1. TellsOnce(wire) /\ NoKeys(wire)
    BY <1>1 DEF TexecomInv, ReportInv, EventsInv, OfTopic
  <2> QED BY <1>1, <1>4, <1>5, <2>1, AtTheEnd
<1>8. wire \o <<p, m>> = Append(w, m) /\ <<p, m>> \in Seq(Messages)
  BY <1>1, <1>4
<1> HIDE DEF w
<1>9. ASSUME NEW x PROVE x \in Missing(<<p, m>>) <=> x = <<"told", Len(events) + 1>>
  <2>1. Missing(<<p, m>>) = (IF IsAnswer(p) THEN {} ELSE Subject(p)) \cup (IF IsAnswer(m) THEN {} ELSE Subject(m))
    <3>1. DOMAIN <<p, m>> = {1, 2} /\ <<p, m>>[1] = p /\ <<p, m>>[2] = m
      OBVIOUS
    <3> QED BY <3>1 DEF Missing
  <2>2. Missing(<<p, m>>) = {<<"told", m[2]>>}
    BY <1>4, <2>1 DEF IsAnswer, Subject
  <2> QED BY <1>4, <2>2
<1> QED BY <1>1, <1>3, <1>4, <1>5, <1>6, <1>7, <1>8, <1>9, EventSaid

-----------------------------------------------------------------------------
(* Texecom: messages are received.                                         *)

(* Thread t takes a message from the wire, of which f is what is left of   *)
(* the memory, and excuses at most misses and the zone of what is pending. *)
Takes(t) ==
    /\ wire # << >> /\ wire' = Tail(wire) /\ ~ IsAnswer(Head(wire))
    /\ s # "none" /\ rows[t] = << >> /\ call[t].result = << >> /\ conn' \in ConnStates
    /\ UNCHANGED <<topic, events, active, texecom, connStat, told, toldEvents, panel, s, at, call, evaluating, used>>

Excusing(misses) ==
    /\ excused \subseteq excused' /\ misses \subseteq excused'
    /\ \A x \in excused' : x \in excused \/ x \in misses \/ x = <<"zone", mem.PENDING_INCIDENT>>

Fresh(f) ==
    /\ f \in Minds
    /\ f.PENDING_INCIDENT = mem.PENDING_INCIDENT
    /\ f.timers = mem.timers /\ f.clearing = mem.clearing
    /\ f.mains = mem.mains /\ f.battery = mem.battery
    /\ f.BATTERY_ALARM_ACTIVE = mem.BATTERY_ALARM_ACTIVE
    /\ f.BATTERY_CONFIRMED = mem.BATTERY_CONFIRMED
    /\ f.last_drift_alert = mem.last_drift_alert
    /\ \/ f.EVENT_CONTEXT = mem.EVENT_CONTEXT \/ mem.PENDING_INCIDENT = 0
       \/ <<"zone", mem.PENDING_INCIDENT>> \in excused'

(* The memory, the rows and the excuses after that.                        *)
Handled(t, f, r) ==
    /\ Takes(t) /\ Fresh(f) /\ mem' = r.mem /\ rows' = [rows EXCEPT ![t] = r.rows] /\ Excusing(r.misses)

(* A message that is taken: the types, and what else follows for every     *)
(* message.                                                                *)
LEMMA TakenTypes ==
  ASSUME TexecomInv, NEW t \in Threads, Takes(t), mem' \in Minds, NEW q \in Seq(Reports),
         rows' = [rows EXCEPT ![t] = q], NEW misses \in SUBSET Excuses, Excusing(misses)
  PROVE  /\ TexecomTypeOK' /\ Evaluating' /\ Session' /\ NewReadings /\ ReadingsWire
         /\ \A what : Reported(what) => Reported(what)'
<1>1. TexecomTypeOK /\ wire \in Seq(Messages)
  BY DEF TexecomInv, TexecomTypeOK
<1>2. wire' \in Seq(Messages) /\ ReadingsWire
  BY <1>1, AtTheFront DEF Takes, ReadingsWire
<1>3. rows \in [Threads -> Seq(Reports)]
  BY <1>1 DEF TexecomTypeOK
<1>4. rows' \in [Threads -> Seq(Reports)] /\ rows'[t] = q /\ \A u \in Threads : u # t => rows'[u] = rows[u]
  BY <1>3
<1>5. excused' \subseteq Excuses
  <2>1. mem.PENDING_INCIDENT \in Nat
    BY <1>1 DEF TexecomTypeOK, Minds
  <2>2. <<"zone", mem.PENDING_INCIDENT>> \in Excuses /\ excused \subseteq Excuses
    BY <1>1, <2>1 DEF Excuses, TexecomTypeOK
  <2> QED BY <2>2 DEF Excusing
<1>6. TexecomTypeOK'
  BY <1>1, <1>2, <1>4, <1>5 DEF TexecomTypeOK, Takes
<1>7. Evaluating'
  BY <1>4 DEF TexecomInv, Evaluating, Takes
<1>8. Session' /\ NewReadings
  BY CallsLeft DEF Session, Takes, TexecomInv
<1>9. \A what : Reported(what) => Reported(what)'
  BY <1>4 DEF Reported, Takes
<1> QED BY <1>2, <1>6, <1>7, <1>8, <1>9

(* At most one report, not of an event.                                    *)
LEMMA OneRow ==
  ASSUME NEW row \in Reports, row[1] # "event", NEW q, q = << >> \/ q = <<row>>
  PROVE  q \in Seq(Reports) /\ \A i \in DOMAIN q : q[i][1] # "event"
<1>1. <<row>> \in Seq(Reports) /\ DOMAIN <<row>> = {1} /\ <<row>>[1] = row
  OBVIOUS
<1>2. CASE q = << >>
  BY <1>2
<1>3. CASE q = <<row>>
  BY <1>1, <1>3
<1> QED BY <1>2, <1>3

(* A message that tells of no event leaves the events as they are.         *)
LEMMA NoEventTaken ==
  ASSUME TexecomInv, NEW t \in Threads, Takes(t), Head(wire)[1] \notin Tidings, KeepsContext,
         NEW q \in Seq(Reports), \A i \in DOMAIN q : q[i][1] # "event", rows' = [rows EXCEPT ![t] = q],
         mem'.PENDING_INCIDENT = mem.PENDING_INCIDENT, mem'.timers = mem.timers, mem'.clearing = mem.clearing,
         NEW misses, Excusing(misses), \A n : <<"told", n>> \notin misses
  PROVE  EventsInv'
<1>1. TexecomTypeOK /\ wire \in Seq(Messages)
  BY DEF TexecomInv, TexecomTypeOK
<1>2. EventsWire
  BY <1>1, AtTheFront DEF Takes, EventsWire
<1>3. ASSUME NEW n PROVE <<"told", n>> \in excused' <=> <<"told", n>> \in excused
  <2>1. <<"told", n>> # <<"zone", mem.PENDING_INCIDENT>>
    OBVIOUS
  <2> QED BY <2>1 DEF Excusing
<1>4. QuietEvents
  BY <1>1, <1>3, RowsPut, NoEventZero DEF QuietEvents, Takes, Excusing
<1> QED BY <1>2, <1>4, QuietForEvents DEF TexecomInv, ReportInv

(* One of other than mains leaves what is told of the mains, and so on.    *)
LEMMA NoMainsTaken ==
  ASSUME TexecomInv, NEW t \in Threads, Takes(t), Head(wire)[1] # "mains", mem'.mains = mem.mains,
         excused \subseteq excused', NewReadings, ReadingsWire, Reported("mains") => Reported("mains")'
  PROVE  MainsInv'
<1>1. wire \in Seq(Messages)
  BY DEF TexecomInv, TexecomTypeOK
<1>2. KeepsNews("mains")
  BY <1>1, AtTheFront DEF Takes, KeepsNews
<1>3. QuietMains
  BY DEF QuietMains, Takes
<1> QED BY <1>2, <1>3, QuietForMains DEF TexecomInv, ReportInv

(* A message of other than the battery leaves what is told of the battery. *)
LEMMA NoBatteryTaken ==
  ASSUME TexecomInv, NEW t \in Threads, Takes(t), Head(wire)[1] # "battery", mem'.battery = mem.battery,
         mem'.BATTERY_ALARM_ACTIVE = mem.BATTERY_ALARM_ACTIVE, mem'.BATTERY_CONFIRMED = mem.BATTERY_CONFIRMED,
         excused \subseteq excused', NewReadings, ReadingsWire, Reported("battery") => Reported("battery")'
  PROVE  BatteryInv'
<1>1. wire \in Seq(Messages)
  BY DEF TexecomInv, TexecomTypeOK
<1>2. KeepsNews("battery")
  BY <1>1, AtTheFront DEF Takes, KeepsNews
<1>3. QuietBattery
  BY DEF QuietBattery, Takes
<1> QED BY <1>2, <1>3, QuietForBattery DEF TexecomInv, ReportInv

(* A message leaves what is told of the drift.                             *)
LEMMA NoDriftTaken ==
  ASSUME TexecomInv, NEW t \in Threads, Takes(t), mem'.last_drift_alert = mem.last_drift_alert, excused \subseteq excused'
  PROVE  DriftInv'
BY DEF TexecomInv, ReportInv, DriftInv, Takes

-----------------------------------------------------------------------------
(* Texecom: a zone.                                                        *)

(* The event of a zone: it joins the zones of what is pending, if that is  *)
(* waiting for one.                                                        *)
LEMMA ZoneEventKeeps ==
  ASSUME TexecomInv, NEW t \in Threads, NEW f, NEW z \in TexecomZones,
         Head(wire)[1] = "zone", Handled(t, f, ZoneEvent(f, z))
  PROVE  TexecomInv'
<1> DEFINE n == f.PENDING_INCIDENT
           misses == IF n # 0 /\ events[n] # z THEN PendingZone(f) ELSE {}
<1>1. /\ Takes(t) /\ Fresh(f) /\ mem' = [f EXCEPT !.EVENT_CONTEXT = @ \cup {z}, !.recent = TRUE]
      /\ rows' = [rows EXCEPT ![t] = << >>] /\ Excusing(misses)
  BY DEF Handled, ZoneEvent, Result
<1>2. /\ mem' \in Minds /\ mem'.EVENT_CONTEXT = f.EVENT_CONTEXT \cup {z}
      /\ mem'.PENDING_INCIDENT = mem.PENDING_INCIDENT
      /\ mem'.timers = mem.timers /\ mem'.clearing = mem.clearing
      /\ mem'.mains = mem.mains /\ mem'.battery = mem.battery
      /\ mem'.BATTERY_ALARM_ACTIVE = mem.BATTERY_ALARM_ACTIVE
      /\ mem'.BATTERY_CONFIRMED = mem.BATTERY_CONFIRMED
      /\ mem'.last_drift_alert = mem.last_drift_alert
  BY <1>1 DEF Fresh, Minds
<1>3. /\ misses \subseteq {<<"zone", n>>} /\ (n # 0 /\ events[n] # z => <<"zone", n>> \in misses)
      /\ n = mem.PENDING_INCIDENT /\ n \in Nat
  BY <1>1 DEF PendingZone, ZoneOf, Fresh, Minds
<1> HIDE DEF misses
<1>4. misses \in SUBSET Excuses
  BY <1>3 DEF Excuses
<1>5. << >> \in Seq(Reports) /\ \A i \in DOMAIN << >> : << >>[i][1] # "event"
  OBVIOUS
<1>6. /\ TexecomTypeOK' /\ Evaluating' /\ Session' /\ NewReadings /\ ReadingsWire
      /\ \A what : Reported(what) => Reported(what)'
  BY <1>1, <1>2, <1>4, <1>5, TakenTypes
<1>7. KeepsContext
  BY <1>1, <1>2, <1>3 DEF KeepsContext, Fresh, Excusing
<1>8. EventsInv'
  <2>1. \A k : <<"told", k>> \notin misses
    BY <1>3
  <2>2. Head(wire)[1] \notin Tidings
    BY DEF Tidings
  <2> QED BY <1>1, <1>2, <1>5, <1>7, <2>1, <2>2, NoEventTaken
<1>9. MainsInv' /\ BatteryInv' /\ DriftInv'
  BY <1>1, <1>2, <1>6, NoMainsTaken, NoBatteryTaken, NoDriftTaken DEF Excusing
<1> QED BY <1>6, <1>8, <1>9 DEF TexecomInv, ReportInv

-----------------------------------------------------------------------------
(* Texecom: mains and battery.                                             *)

(* A report of the mains is remembered and about to be reported.           *)
LEMMA MainsEventKeeps ==
  ASSUME TexecomInv, NEW t \in Threads, NEW f, NEW state \in {"ON", "OFF"},
         Head(wire) = <<"mains", state>>, Handled(t, f, MainsEvent(f, state))
  PROVE  TexecomInv'
<1>1. Takes(t) /\ Fresh(f) /\ Head(wire)[1] = "mains" /\ Head(wire)[2] = state
  BY DEF Handled
<1>2. PICK q, misses :
         /\ \/ f.mains = state /\ mem' = f /\ q = << >> /\ misses = IF told.mains = state THEN {} ELSE {<<"mains", 0>>}
            \/ f.mains # state /\ mem' = [f EXCEPT !.mains = state] /\ q = << <<"mains", state>> >> /\ misses = {}
         /\ rows' = [rows EXCEPT ![t] = q] /\ Excusing(misses)
  BY DEF Handled, MainsEvent, Result
<1>3. /\ mem' \in Minds /\ mem'.mains = state /\ mem'.EVENT_CONTEXT = f.EVENT_CONTEXT
      /\ mem'.PENDING_INCIDENT = mem.PENDING_INCIDENT
      /\ mem'.timers = mem.timers /\ mem'.clearing = mem.clearing
      /\ mem'.battery = mem.battery
      /\ mem'.BATTERY_ALARM_ACTIVE = mem.BATTERY_ALARM_ACTIVE
      /\ mem'.BATTERY_CONFIRMED = mem.BATTERY_CONFIRMED
      /\ mem'.last_drift_alert = mem.last_drift_alert
  BY <1>1, <1>2 DEF Fresh, Minds, MainsStates
<1>4. q \in Seq(Reports) /\ \A i \in DOMAIN q : q[i][1] # "event"
  <2>1. <<"mains", state>> \in Reports
    BY DEF Reports
  <2>2. PICK row \in Reports : row = <<"mains", state>> /\ row[1] = "mains"
    BY <2>1
  <2>3. q = << >> \/ q = <<row>>
    BY <1>2, <2>2
  <2> QED BY <2>2, <2>3, OneRow
<1>5. misses \in SUBSET Excuses /\ \A n : <<"told", n>> \notin misses
  BY <1>2 DEF Excuses
<1>6. /\ TexecomTypeOK' /\ Evaluating' /\ Session' /\ NewReadings /\ ReadingsWire
      /\ \A what : Reported(what) => Reported(what)'
  BY <1>1, <1>2, <1>3, <1>4, <1>5, TakenTypes
<1>7. KeepsContext
  BY <1>1, <1>3 DEF KeepsContext, Fresh
<1>8. EventsInv'
  <2>2. Head(wire)[1] \notin Tidings
    BY <1>1 DEF Tidings
  <2> QED BY <1>1, <1>2, <1>3, <1>4, <1>5, <1>7, <2>2, NoEventTaken
<1>9. BatteryInv' /\ DriftInv'
  BY <1>1, <1>2, <1>3, <1>6, NoBatteryTaken, NoDriftTaken DEF Excusing
<1>10. MainsInv'
  <2> SUFFICES ASSUME ~ panel'.unsaid, <<"mains", 0>> \notin excused'
               PROVE  /\ LastIs(wire', "mains", panel'.mains)
                      /\ ~ News(wire', "mains") =>
                            /\ mem'.mains = panel'.mains
                            /\ \/ Reported("mains")'
                               \/ told'.mains \in {"None", panel'.mains}
    BY DEF MainsInv
  <2>1. wire \in Seq(Messages) /\ rows \in [Threads -> Seq(Reports)]
    BY DEF TexecomInv, TexecomTypeOK
  <2>2. LastIs(wire, "mains", panel.mains) /\ panel' = panel /\ wire' = Tail(wire) /\ wire # << >> /\ told' = told
    BY <1>1, <1>2 DEF TexecomInv, ReportInv, MainsInv, Takes, Excusing
  <2>3. LastIs(wire', "mains", panel.mains) /\ (~ News(wire', "mains") => state = panel.mains)
    BY <1>1, <2>1, <2>2, AtTheFront
  <2>4. CASE f.mains = state
    <3>1. told.mains = state
      BY <1>2, <2>4 DEF Excusing
    <3> QED BY <1>3, <2>2, <2>3, <3>1
  <2>5. CASE f.mains # state
    <3>1. rows'[t] = << <<"mains", state>> >>
      BY <1>2, <2>1, <2>5
    <3>2. 1 \in DOMAIN rows'[t] /\ rows'[t][1][1] = "mains"
      BY <3>1
    <3>3. Reported("mains")'
      BY <3>2 DEF Reported
    <3> QED BY <1>3, <2>2, <2>3, <3>3
  <2> QED BY <2>4, <2>5
<1> QED BY <1>6, <1>8, <1>9, <1>10 DEF TexecomInv, ReportInv

(* A report of the battery: an alarm starts the evaluation, an end is      *)
(* reported unless it was confirmed before.                                *)
LEMMA BatteryEventKeeps ==
  ASSUME TexecomInv, NEW t \in Threads, NEW f, NEW state \in {"fine", "alarm"},
         Head(wire) = <<"battery", state>>, Handled(t, f, BatteryEvent(f, state))
  PROVE  TexecomInv'
<1>1. Takes(t) /\ Fresh(f) /\ Head(wire)[1] = "battery" /\ Head(wire)[2] = state
  BY DEF Handled
<1>2. PICK q, misses :
         /\ \/ /\ state = "alarm" /\ q = << >> /\ misses = {}
               /\ mem' = [f EXCEPT !.BATTERY_ALARM_ACTIVE = TRUE, !.BATTERY_CONFIRMED = FALSE, !.HISTORY = 0]
            \/ /\ state = "fine" /\ f.BATTERY_CONFIRMED /\ mem' = f /\ q = << >>
               /\ misses = IF f.battery = "ON" /\ told.battery = "ON" THEN {} ELSE {<<"battery", 0>>}
            \/ /\ state = "fine" /\ ~ f.BATTERY_CONFIRMED /\ q = << <<"battery", "ON">> >> /\ misses = {}
               /\ mem' = [f EXCEPT !.battery = "ON", !.BATTERY_CONFIRMED = TRUE, !.BATTERY_ALARM_ACTIVE = FALSE, !.HISTORY = 0]
         /\ rows' = [rows EXCEPT ![t] = q] /\ Excusing(misses)
  <2>1. CASE state = "alarm"
    BY <2>1 DEF Handled, BatteryEvent, Result
  <2>2. CASE state = "fine" /\ f.BATTERY_CONFIRMED
    BY <2>2 DEF Handled, BatteryEvent, Result
  <2>3. CASE state = "fine" /\ ~ f.BATTERY_CONFIRMED
    BY <2>3 DEF Handled, BatteryEvent, Result
  <2> QED BY <2>1, <2>2, <2>3
<1>3. /\ mem' \in Minds /\ mem'.EVENT_CONTEXT = f.EVENT_CONTEXT
      /\ mem'.PENDING_INCIDENT = mem.PENDING_INCIDENT
      /\ mem'.timers = mem.timers /\ mem'.clearing = mem.clearing
      /\ mem'.mains = mem.mains
      /\ mem'.last_drift_alert = mem.last_drift_alert
      /\ \/ state = "alarm" /\ ~ mem'.BATTERY_CONFIRMED
         \/ mem'.BATTERY_CONFIRMED /\ state = "fine" /\ mem'.BATTERY_ALARM_ACTIVE = f.BATTERY_ALARM_ACTIVE /\ mem'.battery = f.battery
            /\ f.BATTERY_CONFIRMED
         \/ mem'.BATTERY_CONFIRMED /\ state = "fine" /\ ~ mem'.BATTERY_ALARM_ACTIVE /\ mem'.battery = "ON" /\ ~ f.BATTERY_CONFIRMED
  <2>1. CASE mem' = [f EXCEPT !.BATTERY_ALARM_ACTIVE = TRUE, !.BATTERY_CONFIRMED = FALSE, !.HISTORY = 0] /\ state = "alarm"
    BY <1>1, <2>1 DEF Fresh, Minds
  <2>2. CASE mem' = f /\ state = "fine" /\ f.BATTERY_CONFIRMED
    BY <1>1, <2>2 DEF Fresh
  <2>3. CASE /\ mem' = [f EXCEPT !.battery = "ON", !.BATTERY_CONFIRMED = TRUE, !.BATTERY_ALARM_ACTIVE = FALSE, !.HISTORY = 0]
             /\ state = "fine" /\ ~ f.BATTERY_CONFIRMED
    BY <1>1, <2>3 DEF Fresh, Minds, BatteryStates
  <2> QED BY <1>2, <2>1, <2>2, <2>3
<1>4. q \in Seq(Reports) /\ \A i \in DOMAIN q : q[i][1] # "event"
  <2>1. <<"battery", "ON">> \in Reports
    BY DEF Reports, BatteryStates
  <2>2. PICK row \in Reports : row = <<"battery", "ON">> /\ row[1] = "battery"
    BY <2>1
  <2>3. q = << >> \/ q = <<row>>
    BY <1>2, <2>2
  <2> QED BY <2>2, <2>3, OneRow
<1>5. misses \in SUBSET Excuses /\ \A n : <<"told", n>> \notin misses
  BY <1>2 DEF Excuses
<1>6. /\ TexecomTypeOK' /\ Evaluating' /\ Session' /\ NewReadings /\ ReadingsWire
      /\ \A what : Reported(what) => Reported(what)'
  BY <1>1, <1>2, <1>3, <1>4, <1>5, TakenTypes
<1>7. KeepsContext
  BY <1>1, <1>3 DEF KeepsContext, Fresh
<1>8. EventsInv'
  <2>2. Head(wire)[1] \notin Tidings
    BY <1>1 DEF Tidings
  <2> QED BY <1>1, <1>2, <1>3, <1>4, <1>5, <1>7, <2>2, NoEventTaken
<1>9. MainsInv' /\ DriftInv'
  BY <1>1, <1>2, <1>3, <1>6, NoMainsTaken, NoDriftTaken DEF Excusing
<1>10. BatteryInv'
  <2>0. mem'.BATTERY_CONFIRMED => ~ mem'.BATTERY_ALARM_ACTIVE
    BY <1>1, <1>3 DEF Fresh, TexecomInv, ReportInv, BatteryInv
  <2> SUFFICES ASSUME panel'.battery = "fine", <<"battery", 0>> \notin excused'
               PROVE  /\ LastIs(wire', "battery", "fine")
                      /\ ~ News(wire', "battery") =>
                            /\ ~ mem'.BATTERY_ALARM_ACTIVE /\ mem'.battery \in {"None", "ON"}
                            /\ mem'.BATTERY_CONFIRMED
                            /\ \/ Reported("battery")'
                               \/ told'.battery \notin {"LOW", "DISCONNECTED"}
    BY <2>0 DEF BatteryInv
  <2>1. wire \in Seq(Messages) /\ rows \in [Threads -> Seq(Reports)]
    BY DEF TexecomInv, TexecomTypeOK
  <2>2. LastIs(wire, "battery", "fine") /\ panel' = panel /\ wire' = Tail(wire) /\ wire # << >> /\ told' = told
    BY <1>1, <1>2 DEF TexecomInv, ReportInv, BatteryInv, Takes, Excusing
  <2>3. LastIs(wire', "battery", "fine") /\ (~ News(wire', "battery") => state = "fine")
    BY <1>1, <2>1, <2>2, AtTheFront
  <2>4. CASE state = "alarm"
    BY <2>3, <2>4
  <2>5. CASE state = "fine" /\ f.BATTERY_CONFIRMED
    <3>1. f.battery = "ON" /\ told.battery = "ON"
      BY <1>2, <2>5 DEF Excusing
    <3> QED BY <1>3, <2>0, <2>2, <2>3, <2>5, <3>1
  <2>6. CASE state = "fine" /\ ~ f.BATTERY_CONFIRMED
    <3>1. rows'[t] = << <<"battery", "ON">> >>
      BY <1>2, <2>1, <2>6
    <3>2. 1 \in DOMAIN rows'[t] /\ rows'[t][1][1] = "battery"
      BY <3>1
    <3>3. Reported("battery")'
      BY <3>2 DEF Reported
    <3> QED BY <1>3, <2>3, <2>6, <3>3
  <2> QED BY <2>4, <2>5, <2>6
<1> QED BY <1>6, <1>8, <1>9, <1>10 DEF TexecomInv, ReportInv

-----------------------------------------------------------------------------
(* Texecom: an incident.                                                   *)

(* An incident becomes the pending one, and one that still was is excused. *)
LEMMA IncidentKeeps ==
  ASSUME TexecomInv, NEW t \in Threads, NEW f, NEW n \in Nat \ {0},
         Head(wire) = <<"incident", n>>, Handled(t, f, Incident(f, n))
  PROVE  TexecomInv'
<1> DEFINE misses == (IF f.timers + f.clearing > 0 THEN Pending(f) \cup {<<"told", n>>} ELSE {})
                       \cup (IF f.EVENT_CONTEXT = {events[n]} THEN {} ELSE ZoneOf(n))
           p == mem.PENDING_INCIDENT
<1>1. /\ Takes(t) /\ Fresh(f) /\ Head(wire)[1] = "incident" /\ Head(wire)[2] = n
      /\ mem' = [f EXCEPT !.PENDING_INCIDENT = n, !.timers = @ + 1]
      /\ rows' = [rows EXCEPT ![t] = << >>] /\ Excusing(misses)
  BY DEF Handled, Incident, Result
<1>2. /\ mem' \in Minds /\ mem'.EVENT_CONTEXT = f.EVENT_CONTEXT
      /\ mem'.PENDING_INCIDENT = n
      /\ mem'.timers = mem.timers + 1 /\ mem'.clearing = mem.clearing
      /\ mem'.mains = mem.mains /\ mem'.battery = mem.battery
      /\ mem'.BATTERY_ALARM_ACTIVE = mem.BATTERY_ALARM_ACTIVE
      /\ mem'.BATTERY_CONFIRMED = mem.BATTERY_CONFIRMED
      /\ mem'.last_drift_alert = mem.last_drift_alert
      /\ mem.timers \in Nat /\ mem.clearing \in Nat /\ p \in Nat
  <2>1. f.timers \in Nat /\ mem.timers \in Nat /\ mem.clearing \in Nat /\ p \in Nat
    BY <1>1 DEF Fresh, Minds
  <2>2. PICK k \in Nat : k = f.timers + 1
    BY <2>1
  <2>3. mem' = [f EXCEPT !.PENDING_INCIDENT = n, !.timers = k]
    BY <1>1, <2>2
  <2> QED BY <1>1, <2>1, <2>2, <2>3 DEF Fresh, Minds
<1>3. /\ \A x \in misses : x = <<"told", p>> \/ x = <<"told", n>> \/ x = <<"zone", n>>
      /\ <<"told", p>> \in misses => p # 0 \/ p = n
      /\ mem.timers + mem.clearing > 0 => <<"told", n>> \in misses /\ (p # 0 => <<"told", p>> \in misses)
      /\ <<"zone", n>> \in misses \/ f.EVENT_CONTEXT = {events[n]}
  BY <1>1 DEF Pending, ZoneOf, Fresh
<1> HIDE DEF misses
<1>4. misses \in SUBSET Excuses
  BY <1>2, <1>3 DEF Excuses
<1>5. << >> \in Seq(Reports) /\ \A i \in DOMAIN << >> : << >>[i][1] # "event"
  OBVIOUS
<1>6. /\ TexecomTypeOK' /\ Evaluating' /\ Session' /\ NewReadings /\ ReadingsWire
      /\ \A what : Reported(what) => Reported(what)'
  BY <1>1, <1>2, <1>4, <1>5, TakenTypes
<1>7. MainsInv' /\ BatteryInv' /\ DriftInv'
  BY <1>1, <1>2, <1>6, NoMainsTaken, NoBatteryTaken, NoDriftTaken DEF Excusing
<1>8. TexecomTypeOK /\ wire \in Seq(Messages) /\ EventsInv
  BY DEF TexecomInv, TexecomTypeOK, ReportInv
<1>9. /\ \A k : Tells(wire, k) <=> Tells(wire', k) \/ k = n
      /\ TellsOnce(wire') /\ ~ Tells(wire', n)
      /\ NoKeys(wire) => NoKeys(wire')
  <2>1. Head(wire)[1] \in Tidings
    BY <1>1 DEF Tidings
  <2> QED BY <1>1, <1>8, <2>1, AtTheFront DEF Takes, EventsInv
<1>10. /\ \A k : InRows(k)' <=> InRows(k)
       /\ RowsOnce'
  BY <1>1, <1>5, <1>8, RowsPut DEF Takes, EventsInv
<1>11. n \in DOMAIN events /\ 0 \notin DOMAIN events
  BY <1>8, <1>9, NoEventZero DEF EventsInv, AllKnown
<1>12. OnOneWay(n)
  BY <1>8, <1>11 DEF EventsInv, OneWay
<1>13. UNCHANGED <<topic, events, toldEvents>> /\ excused \subseteq excused'
  BY <1>1 DEF Takes, Excusing
<1>14. \A k : <<"told", k>> \in excused' => <<"told", k>> \in excused \/ k = n \/ (k = p /\ p # 0)
  <2> SUFFICES ASSUME NEW k, <<"told", k>> \in excused', <<"told", k>> \notin excused PROVE k = n \/ (k = p /\ p # 0)
    OBVIOUS
  <2>1. <<"told", k>> # <<"zone", p>> /\ <<"told", k>> # <<"zone", n>>
    OBVIOUS
  <2>2. <<"told", k>> \in misses
    BY <1>1, <2>1 DEF Excusing
  <2> QED BY <1>3, <2>1, <2>2
<1>15. AllKnown'
  <2>1. ASSUME NEW k \in Nat, Tells(wire', k) \/ InRows(k)' \/ <<"told", k>> \in excused' PROVE k \in DOMAIN events
    BY <1>8, <1>9, <1>10, <1>11, <1>14, <2>1 DEF EventsInv, AllKnown
  <2> QED BY <1>2, <1>11, <1>13, <2>1 DEF AllKnown
<1>16. OfTopic'
  BY <1>8, <1>9, <1>10, <1>13 DEF OfTopic, EventsInv
<1>17. ASSUME NEW k \in DOMAIN events, k # n PROVE OnOneWay(k)'
  <2>1. OnOneWay(k)
    BY <1>8 DEF EventsInv, OneWay
  <2>2. IsTold(k) => IsTold(k)'
    BY <1>13 DEF IsTold, Rightly
  <2>3. k = p => <<"told", k>> \in excused'
    <3>1. CASE mem.timers + mem.clearing > 0
      BY <1>1, <1>3, <1>11, <3>1 DEF Excusing
    <3>2. CASE ~ (mem.timers + mem.clearing > 0)
      <4>1. ~ (mem.timers = 1) /\ ~ (mem.clearing = 1)
        BY <1>2, <3>2
      <4>2. k = p => ~ IsPending(k)
        BY <4>1 DEF IsPending
      <4> QED BY <1>13, <2>1, <4>2 DEF OnOneWay
    <3> QED BY <3>1, <3>2
  <2> QED BY <1>2, <1>9, <1>10, <1>13, <1>17, <2>1, <2>2, <2>3 DEF OnOneWay
<1>18. OnOneWay(n)'
  <2>1. ~ InRows(n) /\ toldEvents[n].times = 0
    BY <1>9, <1>12 DEF OnOneWay
  <2>2. <<"told", n>> \notin excused' => IsPending(n)'
    <3> SUFFICES ASSUME <<"told", n>> \notin excused' PROVE IsPending(n)'
      OBVIOUS
    <3>1. mem'.timers = 1 /\ mem'.clearing = 0
      BY <1>1, <1>2, <1>3 DEF Excusing
    <3>2. Rightly(n, mem.EVENT_CONTEXT)'
      BY <1>1, <1>2, <1>3, <1>13 DEF Rightly, Excusing
    <3> QED BY <1>13, <2>1, <3>1, <3>2 DEF IsPending
  <2> QED BY <1>2, <1>9, <1>10, <2>1, <2>2 DEF OnOneWay
<1>19. OneWay'
  BY <1>13, <1>17, <1>18 DEF OneWay
<1> QED BY <1>6, <1>7, <1>9, <1>10, <1>15, <1>16, <1>19 DEF TexecomInv, ReportInv, EventsInv

-----------------------------------------------------------------------------
(* Texecom: a keyswitch, the omit key, a bypass.                           *)

(* The event goes from the wire to the rows, or is not told.               *)
LEMMA PassedKeeps ==
  ASSUME TexecomInv, NEW t \in Threads, NEW n \in Nat \ {0}, NEW kind \in {"direct", "omit", "bypass", "unlisted"},
         Takes(t), Head(wire) = <<kind, n>>, SameMind \/ (topic # "incidents" =>
            /\ mem'.PENDING_INCIDENT = mem.PENDING_INCIDENT
            /\ mem'.timers = mem.timers /\ mem'.clearing = mem.clearing
            /\ mem'.mains = mem.mains /\ mem'.battery = mem.battery
            /\ mem'.BATTERY_ALARM_ACTIVE = mem.BATTERY_ALARM_ACTIVE
            /\ mem'.BATTERY_CONFIRMED = mem.BATTERY_CONFIRMED
            /\ mem'.last_drift_alert = mem.last_drift_alert),
         mem' \in Minds, NEW q \in {<< >>, << <<"event", n>> >>}, rows' = [rows EXCEPT ![t] = q],
         NEW misses \in SUBSET {<<"told", n>>}, Excusing(misses), q = << >> => <<"told", n>> \in misses
  PROVE  TexecomInv'
<1>1. TexecomTypeOK /\ wire \in Seq(Messages) /\ EventsInv /\ rows \in [Threads -> Seq(Reports)]
  BY DEF TexecomInv, TexecomTypeOK, ReportInv
<1>2. Head(wire)[1] = kind /\ Head(wire)[2] = n /\ kind \in Tidings /\ kind \notin {"mains", "battery"}
  BY DEF Tidings
<1>3. topic # "incidents"
  <2>1. NoKeys(wire) => kind \notin {"direct", "omit", "bypass", "unlisted"}
    BY <1>1, <1>2, AtTheFront DEF Takes
  <2> QED BY <1>1, <2>1 DEF EventsInv, OfTopic
<1>4. /\ mem'.PENDING_INCIDENT = mem.PENDING_INCIDENT
      /\ mem'.timers = mem.timers /\ mem'.clearing = mem.clearing
      /\ mem'.mains = mem.mains /\ mem'.battery = mem.battery
      /\ mem'.BATTERY_ALARM_ACTIVE = mem.BATTERY_ALARM_ACTIVE
      /\ mem'.BATTERY_CONFIRMED = mem.BATTERY_CONFIRMED
      /\ mem'.last_drift_alert = mem.last_drift_alert
  BY <1>3 DEF SameMind
<1>5. <<"event", n>> \in Reports
  BY DEF Reports
<1>6. PICK row \in Reports : row = <<"event", n>> /\ row[1] = "event"
  BY <1>5
<1>7. q = << >> \/ q = <<row>>
  BY <1>6
<1>8. /\ q \in Seq(Reports)
      /\ \A i \in DOMAIN q : i = 1 /\ q[i] = row /\ q # << >>
      /\ q # << >> => 1 \in DOMAIN q
  <2>1. CASE q = << >>
    BY <2>1
  <2>2. CASE q = <<row>>
    BY <1>6, <2>2
  <2> QED BY <1>7, <2>1, <2>2
<1>9. misses \in SUBSET Excuses
  BY DEF Excuses
<1>10. /\ TexecomTypeOK' /\ Evaluating' /\ Session' /\ NewReadings /\ ReadingsWire
       /\ \A what : Reported(what) => Reported(what)'
  BY <1>8, <1>9, TakenTypes
<1>11. MainsInv' /\ BatteryInv' /\ DriftInv'
  BY <1>2, <1>4, <1>10, NoMainsTaken, NoBatteryTaken, NoDriftTaken DEF Excusing
<1>12. /\ \A k : Tells(wire, k) <=> Tells(wire', k) \/ k = n
       /\ TellsOnce(wire') /\ ~ Tells(wire', n)
  BY <1>1, <1>2, AtTheFront DEF Takes, EventsInv
<1>13. n \in DOMAIN events /\ 0 \notin DOMAIN events
  BY <1>1, <1>12, NoEventZero DEF EventsInv, AllKnown
<1>14. OnOneWay(n)
  BY <1>1, <1>13 DEF EventsInv, OneWay
<1>15. ~ InRows(n) /\ mem.PENDING_INCIDENT # n /\ toldEvents[n].times = 0
  BY <1>12, <1>14 DEF OnOneWay
<1>16. UNCHANGED <<topic, events, toldEvents>> /\ excused \subseteq excused'
  BY DEF Takes, Excusing
<1>17. rows'[t] = q /\ \A u \in Threads : u # t => rows'[u] = rows[u]
  BY <1>1
<1>18. \A i \in DOMAIN rows[t] : FALSE
  BY DEF Takes
<1>19. /\ \A k : k # n => (InRows(k)' <=> InRows(k))
       /\ q # << >> => InRows(n)'
  <2>1. ASSUME NEW k, k # n PROVE InRows(k)' <=> InRows(k)
    <3>1. \A i \in DOMAIN q : q[i] # <<"event", k>>
      BY <1>6, <1>8, <2>1
    <3> QED BY <1>17, <1>18, <3>1 DEF InRows, Reporting
  <2>2. q # << >> => InRows(n)'
    BY <1>6, <1>8, <1>17 DEF InRows, Reporting
  <2> QED BY <2>1, <2>2
<1>20. RowsOnce'
  <2> SUFFICES ASSUME NEW u \in Threads, NEW v \in Threads, NEW i \in DOMAIN rows'[u], NEW j \in DOMAIN rows'[v],
                      rows'[u][i][1] = "event", rows'[v][j] = rows'[u][i]
               PROVE  u = v /\ i = j
    BY DEF RowsOnce
  <2>1. ASSUME NEW x \in Threads, x # t, NEW k \in DOMAIN rows[x], rows[x][k] = row PROVE FALSE
    BY <1>6, <1>15, <2>1 DEF InRows, Reporting
  <2>2. CASE u = t /\ v = t
    BY <1>8, <1>17, <2>2
  <2>3. CASE u = t /\ v # t
    BY <1>8, <1>17, <2>1, <2>3
  <2>4. CASE u # t /\ v = t
    BY <1>8, <1>17, <2>1, <2>4
  <2>5. CASE u # t /\ v # t
    BY <1>1, <1>17, <2>5 DEF EventsInv, RowsOnce
  <2> QED BY <2>2, <2>3, <2>4, <2>5
<1>21. \A k : <<"told", k>> \in excused' => <<"told", k>> \in excused \/ k = n
  <2> SUFFICES ASSUME NEW k, <<"told", k>> \in excused', <<"told", k>> \notin excused PROVE k = n
    OBVIOUS
  <2>1. <<"told", k>> # <<"zone", mem.PENDING_INCIDENT>>
    OBVIOUS
  <2> QED BY <2>1 DEF Excusing
<1>22. AllKnown'
  <2>1. ASSUME NEW k \in Nat, Tells(wire', k) \/ InRows(k)' \/ <<"told", k>> \in excused' PROVE k \in DOMAIN events
    BY <1>1, <1>12, <1>13, <1>19, <1>21, <2>1 DEF EventsInv, AllKnown
  <2>2. mem'.PENDING_INCIDENT # 0 => mem'.PENDING_INCIDENT \in DOMAIN events
    BY <1>1, <1>4 DEF EventsInv, AllKnown
  <2> QED BY <1>16, <2>1, <2>2 DEF AllKnown
<1>23. ASSUME NEW k \in DOMAIN events, k # n PROVE OnOneWay(k)'
  <2>1. OnOneWay(k)
    BY <1>1 DEF EventsInv, OneWay
  <2>2. (IsTold(k) => IsTold(k)') /\ (IsPending(k) => IsPending(k)')
    BY <1>3, <1>4, <1>16 DEF IsTold, IsPending, Rightly
  <2> QED BY <1>4, <1>12, <1>16, <1>19, <1>23, <2>1, <2>2 DEF OnOneWay
<1>24. OnOneWay(n)'
  <2>1. q = << >> => <<"told", n>> \in excused'
    BY DEF Excusing
  <2> QED BY <1>4, <1>12, <1>15, <1>16, <1>19, <2>1 DEF OnOneWay
<1>25. OneWay' /\ OfTopic'
  BY <1>3, <1>16, <1>23, <1>24 DEF OneWay, OfTopic
<1> QED BY <1>10, <1>11, <1>12, <1>20, <1>22, <1>25 DEF TexecomInv, ReportInv, EventsInv

(* ReceiveMessage keeps the invariant.                                     *)
LEMMA ReceiveMessageKeeps == ASSUME TexecomInv, NEW t \in Threads, ReceiveMessage(t) PROVE TexecomInv'
<1> DEFINE m == Head(wire)
           f == FreshContext
           r == MessageHandler(f, m)
<1>1. TexecomTypeOK /\ wire \in Seq(Messages) /\ mem \in Minds
  BY DEF TexecomInv, TexecomTypeOK
<1>2. Takes(t)
  <2>1. call[t].result = << >> /\ rows[t] = << >>
    BY DEF ReceiveMessage, Receives, Waits, NoCall
  <2>2. conn' \in ConnStates
    BY <1>1 DEF ReceiveMessage, TexecomTypeOK, ConnStates
  <2> QED BY <2>1, <2>2 DEF ReceiveMessage, Takes, received
<1>3. m \in Messages
  BY <1>1, <1>2, AtTheFront DEF Takes
<1>4. CASE excused' = excused \cup Missing(<<m>>) /\ UNCHANGED <<mem, rows>>
  <2>1. QuietWire /\ wire' \in Seq(Messages)
    BY <1>1, <1>2, <1>4, FrontMissed, AtTheFront DEF Takes
  <2>2. Missing(<<m>>) \subseteq Missing(wire) /\ Missing(wire) \subseteq Excuses
    <3>1. wire[1] = m /\ 1 \in DOMAIN wire
      BY <1>1, <1>2 DEF Takes
    <3>2. Missing(<<m>>) = IF IsAnswer(m) THEN {} ELSE Subject(m)
      BY DEF Missing
    <3> QED BY <1>1, <3>1, <3>2, MissingIs DEF Missing
  <2>3. TexecomTypeOK'
    BY <1>1, <1>2, <1>4, <2>1, <2>2 DEF TexecomTypeOK, Takes
  <2>4. Calm
    BY <1>2, <1>4, <2>1, <2>2, CallsLeft DEF Calm, Takes, SameMind, SamePanel, RowsCalm
  <2>5. Evaluating' /\ Session'
    BY <1>2, <1>4, EvaluatingLeft DEF TexecomInv, Session, Takes
  <2> QED BY <2>3, <2>4, <2>5, CalmSteps DEF TexecomInv
<1>5. CASE /\ mem' = r.mem /\ rows' = [rows EXCEPT ![t] = r.rows]
           /\ excused' = excused \cup r.misses \cup IF f = mem THEN {} ELSE PendingZone(mem)
  <2>1. Excusing(r.misses)
    <3>1. \A x \in PendingZone(mem) : x = <<"zone", mem.PENDING_INCIDENT>>
      BY DEF PendingZone, ZoneOf
    <3> QED BY <1>5, <3>1 DEF Excusing
  <2>2. Fresh(f)
    <3>1. CASE f = mem
      BY <1>1, <3>1 DEF Fresh
    <3>2. CASE f # mem
      <4>1. f = [mem EXCEPT !.EVENT_CONTEXT = {}]
        BY <3>2 DEF FreshContext
      <4>2. mem.PENDING_INCIDENT = 0 \/ <<"zone", mem.PENDING_INCIDENT>> \in excused'
        BY <1>5, <3>2 DEF PendingZone, ZoneOf
      <4> HIDE DEF f
      <4> QED BY <1>1, <4>1, <4>2 DEF Fresh, Minds
    <3> QED BY <3>1, <3>2
  <2>3. Handled(t, f, r)
    BY <1>2, <1>5, <2>1, <2>2 DEF Handled
  <2> HIDE DEF f
  <2>4. CASE m[1] = "zone"
    <3>1. m[2] \in TexecomZones
      BY <1>3, <2>4, MessageKinds DEF Tidings
    <3>2. r = ZoneEvent(f, m[2])
      BY <2>4 DEF MessageHandler
    <3> QED BY <2>3, <2>4, <3>1, <3>2, ZoneEventKeeps
  <2>5. CASE m[1] = "mains"
    <3>1. m = <<"mains", m[2]>> /\ m[2] \in {"ON", "OFF"}
      BY <1>3, <2>5, MessageKinds DEF Tidings
    <3>2. r = MainsEvent(f, m[2])
      BY <2>5 DEF MessageHandler
    <3> QED BY <2>3, <3>1, <3>2, MainsEventKeeps
  <2>6. CASE m[1] = "battery"
    <3>1. m = <<"battery", m[2]>> /\ m[2] \in {"fine", "alarm"}
      BY <1>3, <2>6, MessageKinds DEF Tidings
    <3>2. r = BatteryEvent(f, m[2])
      BY <2>6 DEF MessageHandler
    <3> QED BY <2>3, <3>1, <3>2, BatteryEventKeeps
  <2>7. CASE m[1] = "incident"
    <3>1. m = <<"incident", m[2]>> /\ m[2] \in Nat \ {0}
      BY <1>3, <2>7, MessageKinds DEF Tidings
    <3>2. r = Incident(f, m[2])
      BY <2>7 DEF MessageHandler
    <3> QED BY <2>3, <3>1, <3>2, IncidentKeeps
  <2>8. CASE m[1] \in {"direct", "omit", "bypass", "unlisted"}
    <3>1. PICK n \in Nat \ {0}, kind \in {"direct", "omit", "bypass", "unlisted"} : m = <<kind, n>>
      BY <1>3, <2>8, MessageKinds DEF Tidings
    <3>2. m[1] = kind /\ m[2] = n
      BY <3>1
    <3>3. /\ r.rows \in {<< >>, << <<"event", n>> >>} /\ r.misses \in SUBSET {<<"told", n>>}
          /\ r.rows = << >> => <<"told", n>> \in r.misses
          /\ \/ r.mem = f \/ r.mem = [f EXCEPT !.OMIT_CONTEXT = TRUE]
             \/ r.mem = [f EXCEPT !.OMIT_CONTEXT = FALSE, !.EVENT_CONTEXT = @ \cup {events[n]}, !.recent = TRUE]
      <4>0. << <<"event", n>> >> # << >>
        OBVIOUS
      <4>1. CASE kind = "direct"
        <5>1. r = Result(f, << <<"event", n>> >>, {})
          BY <3>2, <4>1 DEF MessageHandler
        <5> QED BY <4>0, <5>1 DEF Result
      <4>2. CASE kind = "omit" /\ f.OMIT_CONTEXT
        <5>1. r = Result(f, << >>, {<<"told", n>>})
          BY <3>2, <4>2 DEF MessageHandler, OmitKey
        <5> QED BY <4>0, <5>1 DEF Result
      <4>3. CASE kind = "omit" /\ ~ f.OMIT_CONTEXT
        <5>1. r = Result([f EXCEPT !.OMIT_CONTEXT = TRUE], << <<"event", n>> >>, {})
          BY <3>2, <4>3 DEF MessageHandler, OmitKey
        <5> QED BY <4>0, <5>1 DEF Result
      <4>4. CASE kind = "bypass"
        <5>1. r = Result([f EXCEPT !.OMIT_CONTEXT = FALSE, !.EVENT_CONTEXT = @ \cup {events[n]}, !.recent = TRUE],
                         << <<"event", n>> >>, {})
          BY <3>2, <4>4 DEF MessageHandler, Bypass
        <5> QED BY <4>0, <5>1 DEF Result
      <4>5. CASE kind = "unlisted"
        <5>1. r = Result(f, << >>, {<<"told", n>>})
          BY <3>2, <4>5 DEF MessageHandler, Unlisted
        <5> QED BY <4>0, <5>1 DEF Result
      <4> QED BY <4>1, <4>2, <4>3, <4>4, <4>5
    <3>4. n \in DOMAIN events
      <4>1. Tells(wire, n)
        BY <1>1, <1>2, <3>1, <3>2, AtTheFront DEF Takes, Tidings
      <4> QED BY <4>1 DEF TexecomInv, ReportInv, EventsInv, AllKnown
    <3>5. events[n] \in TexecomZones
      BY <1>1, <3>4 DEF TexecomTypeOK
    <3> HIDE DEF r
    <3>6. /\ mem' \in Minds
          /\ mem'.PENDING_INCIDENT = mem.PENDING_INCIDENT
          /\ mem'.timers = mem.timers /\ mem'.clearing = mem.clearing
          /\ mem'.mains = mem.mains /\ mem'.battery = mem.battery
          /\ mem'.BATTERY_ALARM_ACTIVE = mem.BATTERY_ALARM_ACTIVE
          /\ mem'.BATTERY_CONFIRMED = mem.BATTERY_CONFIRMED
          /\ mem'.last_drift_alert = mem.last_drift_alert
      <4>1. mem' = r.mem
        BY <1>5
      <4>2. CASE mem' = f
        BY <2>2, <4>2 DEF Fresh
      <4>3. CASE mem' = [f EXCEPT !.OMIT_CONTEXT = TRUE]
        BY <2>2, <4>3 DEF Fresh, Minds
      <4>4. CASE mem' = [f EXCEPT !.OMIT_CONTEXT = FALSE, !.EVENT_CONTEXT = @ \cup {events[n]}, !.recent = TRUE]
        BY <2>2, <3>5, <4>4 DEF Fresh, Minds
      <4> QED BY <3>3, <4>1, <4>2, <4>3, <4>4
    <3>7. rows' = [rows EXCEPT ![t] = r.rows] /\ Excusing(r.misses)
      BY <1>5, <2>1
    <3> QED BY <1>2, <3>1, <3>3, <3>6, <3>7, PassedKeeps
  <2>9. m[1] # "answer"
    BY <1>2 DEF Takes, IsAnswer
  <2> QED BY <1>3, <2>4, <2>5, <2>6, <2>7, <2>8, <2>9, MessageKinds DEF Tidings
<1> QED BY <1>4, <1>5 DEF ReceiveMessage

-----------------------------------------------------------------------------
(* Texecom: the timers.                                                    *)

(* A set of numbers that is not empty has a smallest element.              *)
LEMMA SmallestExists ==
  ASSUME NEW S, S \subseteq Nat, S # {}
  PROVE  \E i \in S : \A j \in S : i <= j
<1>1. PICK i \in S : \A j \in S : ~ (<<j, i>> \in OpToRel(<, Nat))
  BY NatLessThanWellFounded, WFMin, ZenonT(60)
<1>2. \A j \in S : ~ (j < i)
  BY <1>1 DEF OpToRel
<1>3. \A j \in S : i \in Nat /\ j \in Nat
  OBVIOUS
<1>4. \A j \in S : i <= j
  BY <1>2, <1>3
<1> QED BY <1>4

(* The lowest of some zones is one of them.                                *)
LEMMA LowestIs ==
  ASSUME NEW S, S \subseteq Nat, S # {}
  PROVE  Lowest(S) \in S
<1>1. \E i \in S : \A j \in S : i <= j
  BY SmallestExists
<1> QED BY <1>1 DEF Lowest

(* An element of a sequence.                                               *)
LEMMA ElementOf == ASSUME NEW S, NEW w \in Seq(S), NEW i \in DOMAIN w PROVE w[i] \in S
OBVIOUS

(* A timer changes nothing but what is pending and what is told of it.     *)
LEMMA TimerStep ==
  ASSUME TexecomInv, UNCHANGED timer, mem' \in Minds,
         mem'.mains = mem.mains, mem'.battery = mem.battery,
         mem'.BATTERY_ALARM_ACTIVE = mem.BATTERY_ALARM_ACTIVE,
         mem'.BATTERY_CONFIRMED = mem.BATTERY_CONFIRMED,
         mem'.last_drift_alert = mem.last_drift_alert,
         toldEvents' \in Seq([times : Nat, zone : Nat]), Len(toldEvents') = Len(toldEvents),
         excused \subseteq excused', \A x \in excused' : x \in excused \/ x = <<"told", mem.PENDING_INCIDENT>>,
         used' \in Nat, mem'.PENDING_INCIDENT \in {0, mem.PENDING_INCIDENT},
         <<"told", mem.PENDING_INCIDENT>> \in excused' => <<"told", mem.PENDING_INCIDENT>> \in excused \/ mem.PENDING_INCIDENT # 0,
         \A n \in DOMAIN events : OnOneWay(n)'
  PROVE  TexecomInv'
<1>1. TexecomTypeOK /\ EventsInv /\ mem.PENDING_INCIDENT \in Nat
  BY DEF TexecomInv, ReportInv, TexecomTypeOK, Minds
<1>2. UNCHANGED <<topic, panel, events, wire, s, active, texecom, at, call, evaluating, rows, conn, connStat, told>>
  BY DEF timer
<1>3. excused' \subseteq Excuses
  <2>1. <<"told", mem.PENDING_INCIDENT>> \in Excuses
    BY <1>1 DEF Excuses
  <2> QED BY <1>1, <2>1 DEF TexecomTypeOK
<1>4. TexecomTypeOK'
  BY <1>1, <1>2, <1>3 DEF TexecomTypeOK
<1>5. /\ QuietWire /\ NewReadings
      /\ \A n : InRows(n)' <=> InRows(n)
      /\ RowsOnce => RowsOnce'
      /\ \A what : Reported(what) => Reported(what)'
  BY <1>2, WireLeft, CallsLeft DEF InRows, Reporting, RowsOnce, Reported
<1>6. \A n : <<"mains", 0>> # <<"told", n>> /\ <<"battery", 0>> # <<"told", n>> /\ <<"drift", 0>> # <<"told", n>>
  OBVIOUS
<1>7. MainsInv' /\ BatteryInv' /\ DriftInv'
  <2>1. QuietMains
    BY <1>2, <1>5 DEF QuietMains
  <2>2. QuietBattery
    BY <1>2, <1>5 DEF QuietBattery
  <2>3. QuietDrift
    BY <1>2 DEF QuietDrift
  <2> QED BY <1>5, <2>1, <2>2, <2>3, QuietForMains, QuietForBattery, QuietForDrift DEF QuietWire, TexecomInv, ReportInv
<1>8. EventsInv'
  <2>1. \A n : <<"told", n>> \in excused' => <<"told", n>> \in excused \/ (n = mem.PENDING_INCIDENT /\ n # 0)
    OBVIOUS
  <2>2. AllKnown'
    BY <1>1, <1>2, <1>5, <2>1 DEF EventsInv, AllKnown
  <2>3. OneWay'
    BY <1>2 DEF OneWay
  <2> QED BY <1>1, <1>2, <1>5, <2>2, <2>3 DEF EventsInv, OfTopic
<1>9. Evaluating' /\ Session'
  BY <1>2, EvaluatingLeft DEF TexecomInv, Session
<1> QED BY <1>4, <1>7, <1>8, <1>9 DEF TexecomInv, ReportInv

(* ClearEverything keeps the invariant.                                    *)
LEMMA ClearEverythingKeeps == ASSUME TexecomInv, ClearEverything PROVE TexecomInv'
<1>1. /\ mem.clearing > 0 /\ UNCHANGED timer /\ UNCHANGED <<toldEvents, excused, used>>
      /\ mem' = [mem EXCEPT !.clearing = @ - 1, !.PENDING_INCIDENT = 0, !.EVENT_CONTEXT = {}, !.recent = FALSE]
  BY DEF ClearEverything
<1>2. TexecomTypeOK /\ mem \in Minds /\ mem.clearing \in Nat
  BY DEF TexecomInv, TexecomTypeOK, Minds
<1>3. /\ mem' \in Minds /\ mem'.PENDING_INCIDENT = 0
      /\ mem'.mains = mem.mains /\ mem'.battery = mem.battery
      /\ mem'.BATTERY_ALARM_ACTIVE = mem.BATTERY_ALARM_ACTIVE
      /\ mem'.BATTERY_CONFIRMED = mem.BATTERY_CONFIRMED
      /\ mem'.last_drift_alert = mem.last_drift_alert
  <2>1. PICK k \in Nat : k = mem.clearing - 1
    BY <1>1, <1>2
  <2>2. mem' = [mem EXCEPT !.clearing = k, !.PENDING_INCIDENT = 0, !.EVENT_CONTEXT = {}, !.recent = FALSE]
    BY <1>1, <2>1
  <2> QED BY <1>2, <2>2 DEF Minds
<1>4. toldEvents' \in Seq([times : Nat, zone : Nat]) /\ Len(toldEvents') = Len(toldEvents) /\ used' \in Nat
  BY <1>1, <1>2 DEF TexecomTypeOK
<1>5. UNCHANGED <<topic, events, wire, rows>>
  BY <1>1 DEF timer
<1>6. ASSUME NEW n \in DOMAIN events PROVE OnOneWay(n)'
  <2>1. OnOneWay(n) /\ n # 0
    BY <1>2, NoEventZero DEF TexecomInv, ReportInv, EventsInv, OneWay
  <2>2. IsTold(n) => IsTold(n)'
    BY <1>1, <1>5 DEF IsTold, Rightly
  <2>3. IsPending(n) => IsTold(n)
    BY <1>1, <1>2 DEF IsPending
  <2>4. (InRows(n)' <=> InRows(n)) /\ (Tells(wire', n) <=> Tells(wire, n))
    BY <1>5 DEF InRows, Reporting
  <2> QED BY <1>1, <1>3, <2>1, <2>2, <2>3, <2>4 DEF OnOneWay
<1> QED BY <1>1, <1>3, <1>4, <1>6, TimerStep

(* FinalizeIncident keeps the invariant.                                   *)
LEMMA FinalizeIncidentKeeps == ASSUME TexecomInv, FinalizeIncident PROVE TexecomInv'
<1>0. PICK n : n = mem.PENDING_INCIDENT
  OBVIOUS
<1> DEFINE zone == IF mem.EVENT_CONTEXT = {} THEN 0 ELSE Lowest(mem.EVENT_CONTEXT)
<1>1. /\ mem.timers > 0 /\ UNCHANGED timer
      /\ \/ /\ n = 0 /\ mem' = [mem EXCEPT !.timers = @ - 1] /\ UNCHANGED <<toldEvents, excused, used>>
         \/ /\ n # 0 /\ mem' = [mem EXCEPT !.timers = @ - 1, !.clearing = @ + 1]
            /\ \/ /\ toldEvents' = [toldEvents EXCEPT ![n] = [times |-> @.times + 1, zone |-> zone]]
                  /\ UNCHANGED <<excused, used>>
               \/ /\ used' = used + 1 /\ excused' = excused \cup Pending(mem) /\ UNCHANGED toldEvents
  BY <1>0 DEF FinalizeIncident, Happens
<1>2. TexecomTypeOK /\ mem \in Minds /\ mem.timers \in Nat /\ mem.clearing \in Nat /\ n \in Nat
      /\ mem.EVENT_CONTEXT \subseteq TexecomZones /\ toldEvents \in Seq([times : Nat, zone : Nat]) /\ used \in Nat
      /\ Len(toldEvents) = Len(events) /\ DOMAIN toldEvents = DOMAIN events
  BY <1>0 DEF TexecomInv, TexecomTypeOK, Minds
<1>3. /\ mem' \in Minds /\ mem'.PENDING_INCIDENT = n /\ mem'.EVENT_CONTEXT = mem.EVENT_CONTEXT
      /\ mem'.mains = mem.mains /\ mem'.battery = mem.battery
      /\ mem'.BATTERY_ALARM_ACTIVE = mem.BATTERY_ALARM_ACTIVE
      /\ mem'.BATTERY_CONFIRMED = mem.BATTERY_CONFIRMED
      /\ mem'.last_drift_alert = mem.last_drift_alert
      /\ mem'.timers = mem.timers - 1 /\ (n # 0 => mem'.clearing = mem.clearing + 1)
  <2>1. PICK k \in Nat, c \in Nat : k = mem.timers - 1 /\ c = mem.clearing + 1
    BY <1>1, <1>2
  <2>2. CASE n = 0
    <3>1. mem' = [mem EXCEPT !.timers = k]
      BY <1>1, <2>1, <2>2
    <3> QED BY <1>0, <1>2, <2>1, <2>2, <3>1 DEF Minds
  <2>3. CASE n # 0
    <3>1. mem' = [mem EXCEPT !.timers = k, !.clearing = c]
      BY <1>1, <2>1, <2>3
    <3> QED BY <1>0, <1>2, <2>1, <2>3, <3>1 DEF Minds
  <2> QED BY <2>2, <2>3
<1>4. zone \in Nat
  <2>1. mem.EVENT_CONTEXT \subseteq Nat
    BY <1>2, TexecomAssumption
  <2> QED BY <2>1, LowestIs
<1>5. ASSUME NEW x, mem.EVENT_CONTEXT = {x} PROVE zone = x
  <2>1. mem.EVENT_CONTEXT \subseteq Nat /\ mem.EVENT_CONTEXT # {}
    BY <1>2, <1>5, TexecomAssumption
  <2> QED BY <1>5, <2>1, LowestIs
<1> HIDE DEF zone
<1>6. UNCHANGED <<topic, events, wire, rows>>
  BY <1>1 DEF timer
<1>7. \A k : (InRows(k)' <=> InRows(k)) /\ (Tells(wire', k) <=> Tells(wire, k))
  BY <1>6 DEF InRows, Reporting
<1>8. ASSUME NEW k \in DOMAIN events PROVE OnOneWay(k) /\ k # 0
  BY <1>2, NoEventZero DEF TexecomInv, ReportInv, EventsInv, OneWay
<1>9. CASE n = 0
  <2>1. UNCHANGED <<toldEvents, excused, used>>
    BY <1>1, <1>9
  <2>2. ASSUME NEW k \in DOMAIN events PROVE OnOneWay(k)'
    <3>1. IsTold(k) => IsTold(k)'
      BY <1>6, <2>1 DEF IsTold, Rightly
    <3> QED BY <1>0, <1>3, <1>7, <1>8, <1>9, <2>1, <3>1 DEF OnOneWay
  <2> QED BY <1>1, <1>2, <1>3, <1>9, <2>1, <2>2, <1>0, TimerStep
<1>10. CASE n # 0 /\ used' = used + 1 /\ excused' = excused \cup Pending(mem) /\ UNCHANGED toldEvents
  <2>1. \A x \in excused' : x \in excused \/ x = <<"told", n>>
    BY <1>0, <1>2, <1>10, PendingIs
  <2>2. <<"told", n>> \in excused' /\ excused \subseteq excused'
    BY <1>0, <1>2, <1>10, PendingIs
  <2>3. ASSUME NEW k \in DOMAIN events PROVE OnOneWay(k)'
    <3>1. IsTold(k) => IsTold(k)'
      BY <1>6, <1>10, <2>2 DEF IsTold, Rightly
    <3> QED BY <1>0, <1>3, <1>7, <1>8, <1>10, <2>2, <3>1 DEF OnOneWay
  <2> QED BY <1>1, <1>2, <1>3, <1>10, <2>1, <2>2, <2>3, <1>0, TimerStep
<1>11. CASE n # 0 /\ toldEvents' = [toldEvents EXCEPT ![n] = [times |-> @.times + 1, zone |-> zone]] /\ UNCHANGED <<excused, used>>
  <2>1. n \in DOMAIN events
    BY <1>0, <1>11 DEF TexecomInv, ReportInv, EventsInv, AllKnown
  <2>2. PICK e \in [times : Nat, zone : Nat] : e = [times |-> toldEvents[n].times + 1, zone |-> zone]
    <3>0. toldEvents[n] \in [times : Nat, zone : Nat]
      <4>1. toldEvents \in Seq([times : Nat, zone : Nat]) /\ n \in DOMAIN toldEvents
        BY <1>2, <2>1
      <4> QED BY <4>1, ElementOf
    <3>1. PICK k \in Nat : k = toldEvents[n].times + 1
      BY <3>0
    <3>2. [times |-> k, zone |-> zone] \in [times : Nat, zone : Nat]
      BY <1>4
    <3> QED BY <3>1, <3>2
  <2>3. /\ toldEvents' \in Seq([times : Nat, zone : Nat]) /\ Len(toldEvents') = Len(toldEvents)
        /\ toldEvents'[n] = e /\ \A k \in DOMAIN events : k # n => toldEvents'[k] = toldEvents[k]
    <3>1. toldEvents' = [toldEvents EXCEPT ![n] = e]
      BY <1>11, <2>2
    <3> QED BY <1>2, <2>1, <3>1
  <2>4. ASSUME NEW k \in DOMAIN events, k # n PROVE OnOneWay(k)'
    <3>1. IsTold(k) => IsTold(k)'
      BY <1>6, <1>11, <2>3, <2>4 DEF IsTold, Rightly
    <3> QED BY <1>0, <1>3, <1>7, <1>8, <1>11, <2>3, <2>4, <3>1 DEF OnOneWay
  <2>5. OnOneWay(n)'
    <3>1. ~ Tells(wire, n) /\ ~ InRows(n)
      BY <1>0, <1>8, <2>1 DEF OnOneWay
    <3>2. ASSUME <<"told", n>> \notin excused PROVE IsPending(n)'
      <4>1. mem.timers = 1 /\ mem.clearing = 0 /\ toldEvents[n].times = 0 /\ Rightly(n, mem.EVENT_CONTEXT)
        <5>1. IsPending(n)
          BY <1>0, <1>8, <2>1, <3>2 DEF OnOneWay
        <5> QED BY <1>1, <5>1 DEF IsPending
      <4>2. mem'.timers = 0 /\ mem'.clearing = 1
        BY <1>3, <1>11, <4>1
      <4>3. toldEvents'[n].times = 1 /\ toldEvents'[n].zone = zone
        BY <2>2, <2>3, <4>1
      <4>4. Rightly(n, {toldEvents'[n].zone})
        BY <1>5, <4>1, <4>3 DEF Rightly
      <4>5. IsTold(n)'
        BY <1>6, <1>11, <4>3, <4>4 DEF IsTold, Rightly
      <4> QED BY <4>2, <4>5 DEF IsPending
    <3> QED BY <1>3, <1>7, <1>11, <3>1, <3>2 DEF OnOneWay
  <2>6. \A k \in DOMAIN events : OnOneWay(k)'
    BY <2>4, <2>5
  <2> QED BY <1>1, <1>2, <1>3, <1>11, <2>3, <2>6, <1>0, TimerStep
<1> QED BY <1>1, <1>9, <1>10, <1>11

-----------------------------------------------------------------------------
(* Texecom: the verdict on the battery.                                    *)

(* Verdict keeps the invariant.                                            *)
LEMMA VerdictKeeps == ASSUME TexecomInv, NEW t \in Threads, Verdict(t) PROVE TexecomInv'
<1>1. /\ evaluating[t] = "decide" /\ evaluating' = [evaluating EXCEPT ![t] = "done"]
      /\ UNCHANGED <<topic, panel, events, wire, s, active, texecom, at, call, conn, connStat, told, toldEvents, used>>
  BY DEF Verdict, evaluation
<1>2. TexecomTypeOK /\ call[t].result # << >> /\ rows[t] = << >>
  BY <1>1 DEF TexecomInv, Evaluating
<1>3. evaluating' \in [Threads -> {"no", "decide", "done"}]
  BY <1>1, <1>2 DEF TexecomTypeOK
<1>4. QuietWire /\ NewReadings /\ Session'
  BY <1>1, WireLeft, CallsLeft DEF TexecomInv, Session
<1>5. CASE UNCHANGED <<mem, rows, excused>>
  <2>1. TexecomTypeOK'
    BY <1>1, <1>2, <1>3, <1>5 DEF TexecomTypeOK
  <2>2. Calm
    BY <1>1, <1>4, <1>5, SameMindLeft DEF Calm, SamePanel, RowsCalm
  <2>3. Evaluating'
    BY <1>1, <1>2, <1>5 DEF TexecomInv, Evaluating, TexecomTypeOK
  <2> QED BY <1>2, <1>4, <2>1, <2>2, <2>3, CalmSteps DEF TexecomInv
<1>6. ASSUME NEW state \in {"LOW", "DISCONNECTED"},
             mem' = [mem EXCEPT !.battery = state, !.BATTERY_ALARM_ACTIVE = FALSE],
             rows' = [rows EXCEPT ![t] = << <<"battery", state>> >>],
             excused' = IF mem.BATTERY_ALARM_ACTIVE THEN excused ELSE excused \cup {<<"battery", 0>>}
      PROVE  TexecomInv'
  <2>1. /\ mem' \in Minds
        /\ mem'.PENDING_INCIDENT = mem.PENDING_INCIDENT /\ mem'.EVENT_CONTEXT = mem.EVENT_CONTEXT
        /\ mem'.timers = mem.timers /\ mem'.clearing = mem.clearing
        /\ mem'.mains = mem.mains /\ mem'.last_drift_alert = mem.last_drift_alert
        /\ mem'.BATTERY_ALARM_ACTIVE = FALSE
    BY <1>2, <1>6 DEF TexecomTypeOK, Minds, BatteryStates
  <2>2. /\ rows' \in [Threads -> Seq(Reports)]
        /\ \A n : InRows(n)' <=> InRows(n)
        /\ RowsOnce => RowsOnce'
        /\ \A what : Reported(what) => Reported(what)'
    <3>1. <<"battery", state>> \in Reports
      BY DEF Reports, BatteryStates
    <3>2. PICK row \in Reports : row = <<"battery", state>> /\ row[1] = "battery"
      BY <3>1
    <3>3. PICK q : q = <<row>> /\ rows' = [rows EXCEPT ![t] = q]
      BY <1>6, <3>2
    <3>4. q \in Seq(Reports) /\ \A i \in DOMAIN q : q[i][1] # "event"
      BY <3>2, <3>3, OneRow
    <3> QED BY <1>2, <3>3, <3>4, RowsPut
  <2>3. /\ excused \subseteq excused' /\ excused' \subseteq excused \cup {<<"battery", 0>>} /\ excused' \subseteq Excuses
        /\ ~ mem.BATTERY_ALARM_ACTIVE => <<"battery", 0>> \in excused'
    <3>1. <<"battery", 0>> \in Excuses /\ excused \subseteq Excuses
      BY <1>2 DEF Excuses, TexecomTypeOK
    <3> QED BY <1>6, <3>1
  <2>4. TexecomTypeOK'
    BY <1>1, <1>2, <1>3, <2>1, <2>2, <2>3 DEF TexecomTypeOK
  <2>5. Evaluating'
    BY <1>1, <1>2, <1>6 DEF TexecomInv, Evaluating, TexecomTypeOK
  <2>6. EventsInv'
    <3>1. QuietEvents
      BY <1>1, <1>2, <2>1, <2>2, <2>3, NoEventZero DEF QuietEvents, KeepsContext
    <3> QED BY <1>4, <3>1, QuietForEvents DEF QuietWire, TexecomInv, ReportInv
  <2>7. MainsInv'
    <3>1. QuietMains
      BY <1>1, <1>4, <2>1, <2>2, <2>3 DEF QuietMains
    <3> QED BY <1>4, <3>1, QuietForMains DEF QuietWire, TexecomInv, ReportInv
  <2>8. BatteryInv'
    <3> SUFFICES ASSUME panel'.battery = "fine", <<"battery", 0>> \notin excused'
                 PROVE  LastIs(wire', "battery", "fine") /\ News(wire', "battery")
      BY <2>1 DEF BatteryInv
    <3> QED BY <1>1, <2>3 DEF BatteryInv, TexecomInv, ReportInv
  <2>9. DriftInv'
    BY <1>1, <2>1, <2>3 DEF DriftInv, TexecomInv, ReportInv
  <2> QED BY <1>4, <2>4, <2>5, <2>6, <2>7, <2>8, <2>9 DEF TexecomInv, ReportInv
<1> QED BY <1>5, <1>6 DEF Verdict

-----------------------------------------------------------------------------
(* Texecom: the voltages.                                                  *)

(* What is known of the mains is replaced by what has been read.           *)
LEMMA MainsReplaced ==
  ASSUME TexecomInv, NEW t \in Threads, HasAnswer(t), Ok(t), mem'.mains = Mains(t),
         UNCHANGED <<panel, wire, told>>, excused \cup Replaced(t) \subseteq excused',
         NewReadings, Reported("mains") => Reported("mains")'
  PROVE  MainsInv'
<1>1. TexecomTypeOK /\ MainsInv
  BY DEF TexecomInv, ReportInv
<1>2. Reading(t) \in Readings /\ UnderWay(Reading(t)) /\ panel.mains \in {"ON", "OFF"}
  BY <1>1, ReadingIs DEF TexecomTypeOK, Panels
<1> SUFFICES ASSUME ~ panel.unsaid, <<"mains", 0>> \notin excused'
             PROVE  /\ LastIs(wire, "mains", panel.mains)
                    /\ ~ News(wire, "mains") =>
                          /\ mem'.mains = panel.mains
                          /\ \/ <<"late", "mains">> \in excused' \/ Reported("mains")'
                             \/ told.mains \in {"None", panel.mains}
  BY DEF MainsInv
<1>3. mem.mains \in {"None", Mains(t)}
  BY DEF Replaced
<1>4. ASSUME ~ News(wire, "mains") PROVE Mains(t) = panel.mains
  BY <1>1, <1>2, <1>3, <1>4 DEF MainsInv, Mains
<1> QED BY <1>1, <1>4 DEF MainsInv

(* VoltageAnswered keeps the invariant.                                    *)
LEMMA VoltageAnsweredKeeps == ASSUME TexecomInv, VoltageAnswered PROVE TexecomInv'
<1>0. /\ Proceeds("loop") /\ Forgotten /\ Goes("loop", "once") /\ UNCHANGED <<sameSession, rows, connStat>>
  BY DEF VoltageAnswered
<1>1. /\ "loop" \in Threads /\ Proceeds("loop") /\ Forgotten /\ at' = [at EXCEPT !["loop"] = "once"]
      /\ UNCHANGED <<panel, wire, s, rows, connStat>>
  BY <1>0 DEF Threads, Goes, sameSession
<1>2. at' \in [Threads -> Places] /\ at'["loop"] # "connect" /\ connStat' \in BOOLEAN /\ TexecomTypeOK
  BY <1>1 DEF TexecomInv, TexecomTypeOK, Places
<1>3. CASE ~ Ok("loop")
  <2>1. UNCHANGED <<mem, excused>>
    BY <1>3 DEF VoltageAnswered
  <2> QED BY <1>1, <1>2, <2>1, SameMindLeft, AnsweredCalmly
<1>4. ASSUME Ok("loop"), NEW battery \in IF Reading("loop").battery = "fine" THEN {"ON"} ELSE {"ON", "LOW"},
             mem' = [mem EXCEPT !.mains = Mains("loop"), !.battery = battery],
             excused' = excused \cup Replaced("loop") 
                    \cup (IF battery = "LOW" /\ mem.BATTERY_CONFIRMED THEN {<<"battery", 0>>} ELSE {})
      PROVE  TexecomInv'
  <2>1. Reading("loop") \in Readings /\ UnderWay(Reading("loop")) /\ HasAnswer("loop") /\ battery \in {"ON", "LOW"}
    BY <1>1, <1>2, <1>4, ReadingIs DEF Proceeds
  <2>2. /\ mem' \in Minds
        /\ mem'.PENDING_INCIDENT = mem.PENDING_INCIDENT /\ mem'.EVENT_CONTEXT = mem.EVENT_CONTEXT
        /\ mem'.timers = mem.timers /\ mem'.clearing = mem.clearing
        /\ mem'.mains = Mains("loop") /\ mem'.battery = battery /\ mem'.last_drift_alert = mem.last_drift_alert
        /\ mem'.BATTERY_ALARM_ACTIVE = mem.BATTERY_ALARM_ACTIVE /\ mem'.BATTERY_CONFIRMED = mem.BATTERY_CONFIRMED
    <3>1. Mains("loop") \in MainsStates
      BY <2>1 DEF Mains, Readings, MainsStates
    <3> QED BY <1>2, <1>4, <2>1, <3>1 DEF TexecomTypeOK, Minds, BatteryStates
  <2>3. /\ excused \cup Replaced("loop") \subseteq excused' /\ excused' \subseteq excused \cup {<<"mains", 0>>, <<"battery", 0>>}
        /\ battery = "LOW" /\ mem.BATTERY_CONFIRMED => <<"battery", 0>> \in excused'
    BY <1>4 DEF Replaced
  <2>4. excused' \subseteq Excuses
    <3>1. <<"battery", 0>> \in Excuses /\ <<"mains", 0>> \in Excuses /\ excused \subseteq Excuses
      BY <1>2 DEF Excuses, TexecomTypeOK
    <3> QED BY <2>3, <3>1
  <2>5. TexecomTypeOK'
    BY <1>1, <1>2, <2>2, <2>4, Proceeding, ForgottenIs DEF TexecomTypeOK
  <2>6. /\ QuietWire /\ Evaluating' /\ Session' /\ NewReadings /\ UNCHANGED <<topic, events, told, toldEvents>>
        /\ \A n : InRows(n)' <=> InRows(n)
        /\ RowsOnce => RowsOnce'
        /\ \A what : Reported(what) => Reported(what)'
    BY <1>1, <1>2, WireLeft, Proceeding DEF TexecomInv, Session, InRows, Reporting, RowsOnce, Reported
  <2>7. EventsInv'
    <3>1. QuietEvents
      BY <1>1, <1>2, <2>2, <2>3, <2>6, NoEventZero DEF QuietEvents, KeepsContext
    <3> QED BY <2>6, <3>1, QuietForEvents DEF QuietWire, TexecomInv, ReportInv
  <2>8. MainsInv'
    BY <1>1, <1>4, <2>1, <2>2, <2>3, <2>6, MainsReplaced
  <2>9. BatteryInv'
    <3>1. BatteryInv
      BY DEF TexecomInv, ReportInv
    <3> SUFFICES ASSUME panel.battery = "fine", <<"battery", 0>> \notin excused', ~ News(wire, "battery")
                 PROVE  mem'.battery = "ON" /\ \A r \in Readings : UnderWay(r)' /\ r.battery = "alarm" => mem'.BATTERY_CONFIRMED
      BY <1>1, <2>2, <2>3, <2>6, <3>1 DEF BatteryInv
    <3>2. \A r \in Readings : UnderWay(r) /\ r.battery = "alarm" => mem.BATTERY_CONFIRMED
      BY <2>3, <3>1 DEF BatteryInv
    <3>3. battery = "ON"
      <4>1. ASSUME battery = "LOW" PROVE FALSE
        <5>1. Reading("loop").battery = "alarm"
          BY <1>4, <2>1, <4>1 DEF Readings
        <5> QED BY <2>1, <2>3, <3>2, <4>1, <5>1
      <4> QED BY <2>1, <4>1
    <3>4. ASSUME NEW r \in Readings, UnderWay(r)', r.battery = "alarm" PROVE mem'.BATTERY_CONFIRMED
      <4>1. UnderWay(r)
        BY <1>1, <2>6, <3>4 DEF UnderWay, NewReadings, Now
      <4> QED BY <2>2, <3>2, <3>4, <4>1
    <3> QED BY <2>2, <3>3, <3>4
  <2>10. DriftInv'
    BY <2>2, <2>3, <2>6 DEF DriftInv, TexecomInv, ReportInv
  <2> QED BY <2>5, <2>6, <2>7, <2>8, <2>9, <2>10 DEF TexecomInv, ReportInv
<1>5. ASSUME Ok("loop")
      PROVE  \E battery \in IF Reading("loop").battery = "fine" THEN {"ON"} ELSE {"ON", "LOW"} :
               /\ mem' = [mem EXCEPT !.mains = Mains("loop"), !.battery = battery]
               /\ excused' = excused \cup Replaced("loop") 
                    \cup (IF battery = "LOW" /\ mem.BATTERY_CONFIRMED THEN {<<"battery", 0>>} ELSE {})
  BY <1>5 DEF VoltageAnswered
<1> QED BY <1>3, <1>4, <1>5

(* PowerStateAnswered keeps the invariant.                                 *)
LEMMA PowerStateAnsweredKeeps == ASSUME TexecomInv, PowerStateAnswered PROVE TexecomInv'
<1>1. /\ "loop" \in Threads /\ Proceeds("loop") /\ Forgotten /\ at' = [at EXCEPT !["loop"] = "listen"]
      /\ mem' = [mem EXCEPT !.mains = IF Ok("loop") THEN Mains("loop") ELSE @, !.POWER_STATE_SENT = TRUE]
      /\ excused' = IF Ok("loop") THEN excused \cup Replaced("loop") ELSE excused
      /\ rows' = [rows EXCEPT !["loop"] = << <<"initial", mem'.mains, mem'.battery>> >>]
      /\ UNCHANGED <<panel, wire, s, connStat>>
  BY DEF PowerStateAnswered, Threads, Goes, sameSession
<1>2. at' \in [Threads -> Places] /\ at'["loop"] # "connect" /\ connStat' \in BOOLEAN /\ TexecomTypeOK
      /\ HasAnswer("loop") /\ rows["loop"] = << >>
  BY <1>1 DEF TexecomInv, TexecomTypeOK, Places, Proceeds, HasAnswer
<1>3. PICK mains \in MainsStates : mains = IF Ok("loop") THEN Mains("loop") ELSE mem.mains
  BY <1>1, <1>2, ReadingIs DEF Mains, Readings, MainsStates, TexecomTypeOK, Minds
<1>4. /\ mem' \in Minds
      /\ mem'.PENDING_INCIDENT = mem.PENDING_INCIDENT /\ mem'.EVENT_CONTEXT = mem.EVENT_CONTEXT
      /\ mem'.timers = mem.timers /\ mem'.clearing = mem.clearing
      /\ mem'.mains = mains /\ mem'.battery = mem.battery /\ mem'.last_drift_alert = mem.last_drift_alert
      /\ mem'.BATTERY_ALARM_ACTIVE = mem.BATTERY_ALARM_ACTIVE /\ mem'.BATTERY_CONFIRMED = mem.BATTERY_CONFIRMED
  <2>1. mem' = [mem EXCEPT !.mains = mains, !.POWER_STATE_SENT = TRUE]
    BY <1>1, <1>3
  <2> QED BY <1>2, <2>1 DEF TexecomTypeOK, Minds
<1>5. PICK row \in Reports : row = <<"initial", mem'.mains, mem'.battery>> /\ row[1] = "initial"
  <2>1. mem'.mains \in MainsStates /\ mem'.battery \in BatteryStates
    BY <1>4 DEF Minds
  <2>2. <<"initial", mem'.mains, mem'.battery>> \in Reports
    BY <2>1 DEF Reports
  <2> QED BY <2>2
<1>6. PICK q : q = <<row>> /\ rows' = [rows EXCEPT !["loop"] = q]
  BY <1>1, <1>5
<1>7. q \in Seq(Reports) /\ \A i \in DOMAIN q : q[i][1] # "event"
  BY <1>5, <1>6, OneRow
<1>8. CASE ~ Ok("loop")
  <2>1. SameMind /\ UNCHANGED excused
    BY <1>1, <1>3, <1>4, <1>8 DEF SameMind
  <2> QED BY <1>1, <1>2, <1>4, <1>6, <1>7, <2>1, AnsweredCalmly
<1>9. CASE Ok("loop")
  <2>1. excused' = excused \cup Replaced("loop") /\ excused' \subseteq excused \cup {<<"mains", 0>>} /\ mem'.mains = Mains("loop")
    BY <1>1, <1>3, <1>4, <1>9 DEF Replaced
  <2>2. excused' \subseteq Excuses
    <3>1. <<"mains", 0>> \in Excuses /\ excused \subseteq Excuses
      BY <1>2 DEF Excuses, TexecomTypeOK
    <3> QED BY <2>1, <3>1
  <2>3. /\ rows' \in [Threads -> Seq(Reports)]
        /\ \A n : InRows(n)' <=> InRows(n)
        /\ RowsOnce => RowsOnce'
        /\ \A what : Reported(what) => Reported(what)'
    <3>1. "loop" \in Threads /\ rows["loop"] = << >> /\ TexecomTypeOK /\ rows' = [rows EXCEPT !["loop"] = q]
      BY <1>1, <1>2, <1>6
    <3> QED BY <1>7, <3>1, RowsPut
  <2>4. TexecomTypeOK'
    BY <1>1, <1>2, <1>4, <2>2, <2>3, Proceeding, ForgottenIs DEF TexecomTypeOK
  <2>5. /\ QuietWire /\ NewReadings /\ Session' /\ UNCHANGED <<topic, events, told, toldEvents>>
    BY <1>1, <1>2, WireLeft, Proceeding DEF TexecomInv, Session
  <2>6. Evaluating'
    <3>1. \A u \in Threads : u # "loop" => rows'[u] = rows[u]
      BY <1>2, <1>6 DEF TexecomTypeOK
    <3> QED BY <1>1, <3>1, Proceeding
  <2>7. EventsInv'
    <3>1. QuietEvents
      BY <1>2, <1>4, <2>1, <2>3, <2>5, NoEventZero DEF QuietEvents, KeepsContext
    <3> QED BY <2>5, <3>1, QuietForEvents DEF QuietWire, TexecomInv, ReportInv
  <2>8. MainsInv'
    BY <1>1, <1>2, <1>9, <2>1, <2>3, <2>5, MainsReplaced
  <2>9. BatteryInv'
    <3>1. QuietBattery
      BY <1>1, <1>4, <2>1, <2>3, <2>5 DEF QuietBattery
    <3> QED BY <2>5, <3>1, QuietForBattery DEF QuietWire, TexecomInv, ReportInv
  <2>10. DriftInv'
    BY <1>4, <2>1, <2>5 DEF DriftInv, TexecomInv, ReportInv
  <2> QED BY <2>4, <2>5, <2>6, <2>7, <2>8, <2>9, <2>10 DEF TexecomInv, ReportInv
<1> QED BY <1>8, <1>9

-----------------------------------------------------------------------------
(* Texecom: a report is stored, or not.                                    *)

(* A report is one of these.                                               *)
LEMMA ReportKinds ==
  ASSUME NEW row \in Reports
  PROVE  \/ row[1] = "event" /\ row = <<"event", row[2]>> /\ row[2] \in Nat \ {0}
         \/ row[1] = "mains" /\ row[2] \in {"ON", "OFF"}
         \/ row[1] = "battery" /\ row[2] \in BatteryStates
         \/ row[1] = "initial" /\ row[2] \in MainsStates /\ row[3] \in BatteryStates
         \/ row[1] = "panel" /\ row[2] \in {"ON", "OFF"}
         \/ row[1] = "beat" /\ row[2] \in {"online", "LinkFail"}
         \/ row[1] = "drift" /\ row[2] \in BOOLEAN
BY DEF Reports

(* The first report of thread t leaves.                                    *)
Pops(t, row) ==
    /\ rows[t] # << >> /\ row = Head(rows[t]) /\ rows' = [rows EXCEPT ![t] = Tail(@)]
    /\ mem' = IF row[1] = "drift" THEN [mem EXCEPT !.last_drift_alert = row[2]] ELSE mem
    /\ UNCHANGED <<topic, panel, events, wire, s, active, texecom, at, call, evaluating, conn, connStat>>

(* What is about to be reported is what is left, and the report that       *)
(* leaves.                                                                 *)
LEMMA RowsPop ==
  ASSUME TexecomTypeOK, NEW t \in Threads, NEW row, Pops(t, row)
  PROVE  /\ rows' \in [Threads -> Seq(Reports)] /\ row \in Reports
         /\ \A u \in Threads : u # t => rows'[u] = rows[u]
         /\ \A n : InRows(n) <=> InRows(n)' \/ row = <<"event", n>>
         /\ RowsOnce => RowsOnce'
         /\ RowsOnce => \A n : row = <<"event", n>> => ~ InRows(n)'
         /\ \A what : Reported(what) <=> Reported(what)' \/ row[1] \in {what, "initial"}
<1> DEFINE q == rows[t]  r == Tail(q)
<1>1. rows \in [Threads -> Seq(Reports)] /\ q # << >> /\ row = Head(q)
  BY DEF TexecomTypeOK, Pops
<1>2. rows' = [rows EXCEPT ![t] = r]
  BY DEF Pops
<1>3. q \in Seq(Reports)
  BY <1>1
<1> HIDE DEF q
<1>4. /\ r \in Seq(Reports) /\ row \in Reports /\ DOMAIN q = 1 .. Len(q) /\ Len(q) \in Nat \ {0}
      /\ DOMAIN r = 1 .. Len(q) - 1 /\ row = q[1] /\ \A i \in DOMAIN r : r[i] = q[i + 1]
  BY <1>1, <1>3
<1>0. q = rows[t]
  BY DEF q
<1> HIDE DEF r
<1>5. rows' \in [Threads -> Seq(Reports)] /\ rows'[t] = r /\ \A u \in Threads : u # t => rows'[u] = rows[u]
  BY <1>1, <1>2, <1>4
<1>6. \A i \in DOMAIN q : i # 1 => i - 1 \in DOMAIN r /\ r[i - 1] = q[i]
  BY <1>4
<1>7. \A i \in DOMAIN r : i + 1 \in DOMAIN q /\ i + 1 # 1 /\ i \in Int
  BY <1>4
<1>8. 1 \in DOMAIN q
  BY <1>4
<1>9. \A n : Reporting(t, n) <=> Reporting(t, n)' \/ row = <<"event", n>>
  <2>1. ASSUME NEW n
        PROVE  (\E i \in DOMAIN q : q[i] = <<"event", n>>)
                 <=> (\E i \in DOMAIN r : r[i] = <<"event", n>>) \/ row = <<"event", n>>
    BY <1>4, <1>6, <1>7, <1>8
  <2> QED BY <1>0, <1>5, <2>1 DEF Reporting
<1>10. \A u \in Threads : u # t => \A n : Reporting(u, n) <=> Reporting(u, n)'
  BY <1>5 DEF Reporting
<1>11. \A n : InRows(n) <=> InRows(n)' \/ row = <<"event", n>>
  BY <1>9, <1>10 DEF InRows
<1>12. ASSUME RowsOnce, NEW u \in Threads, NEW v \in Threads, NEW i \in DOMAIN rows'[u], NEW j \in DOMAIN rows'[v],
              rows'[u][i][1] = "event", rows'[v][j] = rows'[u][i]
       PROVE  u = v /\ i = j
  <2>1. CASE u # t /\ v # t
    BY <1>5, <1>12, <2>1 DEF RowsOnce
  <2>2. CASE u = t /\ v # t
    <3>1. i + 1 \in DOMAIN rows[t] /\ rows[t][i + 1] = rows'[u][i] /\ rows[v] = rows'[v]
      BY <1>0, <1>4, <1>5, <1>7, <1>12, <2>2
    <3> QED BY <1>12, <2>2, <3>1 DEF RowsOnce
  <2>3. CASE u # t /\ v = t
    <3>1. j + 1 \in DOMAIN rows[t] /\ rows[t][j + 1] = rows'[v][j] /\ rows[u] = rows'[u]
      BY <1>0, <1>4, <1>5, <1>7, <1>12, <2>3
    <3> QED BY <1>12, <2>3, <3>1 DEF RowsOnce
  <2>4. CASE u = t /\ v = t
    <3>1. /\ i + 1 \in DOMAIN rows[t] /\ rows[t][i + 1] = rows'[u][i] /\ i \in Int
          /\ j + 1 \in DOMAIN rows[t] /\ rows[t][j + 1] = rows'[v][j] /\ j \in Int
      BY <1>0, <1>4, <1>5, <1>7, <1>12, <2>4
    <3>2. i + 1 = j + 1
      BY <1>12, <2>4, <3>1 DEF RowsOnce
    <3> QED BY <2>4, <3>1, <3>2
  <2> QED BY <2>1, <2>2, <2>3, <2>4
<1>13. ASSUME RowsOnce, NEW n, row = <<"event", n>>, NEW u \in Threads, Reporting(u, n)' PROVE FALSE
  <2>0. 1 \in DOMAIN rows[t] /\ rows[t][1] = <<"event", n>> /\ rows[t][1][1] = "event"
    BY <1>0, <1>4, <1>8, <1>13
  <2>1. PICK i \in DOMAIN rows'[u] : rows'[u][i] = <<"event", n>>
    BY <1>13 DEF Reporting
  <2>2. CASE u = t
    <3>1. i + 1 \in DOMAIN rows[t] /\ rows[t][i + 1] = <<"event", n>> /\ i + 1 # 1
      BY <1>0, <1>4, <1>5, <1>7, <2>1, <2>2
    <3> QED BY <1>13, <2>0, <3>1 DEF RowsOnce
  <2>3. CASE u # t
    <3>1. i \in DOMAIN rows[u] /\ rows[u][i] = <<"event", n>>
      BY <1>5, <2>1, <2>3
    <3> QED BY <1>13, <2>0, <2>3, <3>1 DEF RowsOnce
  <2> QED BY <2>2, <2>3
<1>14. ASSUME NEW what PROVE Reported(what) <=> Reported(what)' \/ row[1] \in {what, "initial"}
  <2>1. (\E i \in DOMAIN q : q[i][1] \in {what, "initial"})
           <=> (\E i \in DOMAIN r : r[i][1] \in {what, "initial"}) \/ row[1] \in {what, "initial"}
    BY <1>4, <1>6, <1>7, <1>8
  <2> QED BY <1>0, <1>5, <2>1 DEF Reported
<1>15. RowsOnce => RowsOnce'
  BY <1>12 DEF RowsOnce
<1>16. RowsOnce => \A n : row = <<"event", n>> => ~ InRows(n)'
  BY <1>13 DEF InRows
<1> QED BY <1>4, <1>5, <1>11, <1>14, <1>15, <1>16

(* What is remembered is the same, but for the drift.                      *)
LEMMA MindPops ==
  ASSUME TexecomInv, NEW t \in Threads, NEW row, Pops(t, row)
  PROVE  /\ mem' \in Minds
         /\ mem'.PENDING_INCIDENT = mem.PENDING_INCIDENT /\ mem'.EVENT_CONTEXT = mem.EVENT_CONTEXT
         /\ mem'.timers = mem.timers /\ mem'.clearing = mem.clearing
         /\ mem'.mains = mem.mains /\ mem'.battery = mem.battery
         /\ mem'.BATTERY_ALARM_ACTIVE = mem.BATTERY_ALARM_ACTIVE /\ mem'.BATTERY_CONFIRMED = mem.BATTERY_CONFIRMED
         /\ mem'.last_drift_alert = IF row[1] = "drift" THEN row[2] ELSE mem.last_drift_alert
<1>1. TexecomTypeOK /\ row \in Reports /\ mem \in Minds
  BY RowsPop DEF TexecomInv, TexecomTypeOK
<1>2. CASE row[1] = "drift"
  <2>1. mem' = [mem EXCEPT !.last_drift_alert = row[2]]
    BY <1>2 DEF Pops
  <2>2. row[2] \in BOOLEAN
    BY <1>1, <1>2, ReportKinds
  <2> QED BY <1>1, <1>2, <2>1, <2>2 DEF Minds
<1>3. CASE row[1] # "drift"
  BY <1>1, <1>3 DEF Pops
<1> QED BY <1>2, <1>3

(* An event that is not stored is excused; nothing else is told of one.    *)
LEMMA EventsPop ==
  ASSUME TexecomInv, NEW t \in Threads, NEW row, Pops(t, row), UNCHANGED toldEvents,
         \A n : row = <<"event", n>> => <<"told", n>> \in excused',
         \A n : <<"told", n>> \in excused => <<"told", n>> \in excused',
         \A n : <<"told", n>> \in excused' => <<"told", n>> \in excused \/ row = <<"event", n>>,
         \A n : <<"zone", n>> \in excused => <<"zone", n>> \in excused'
  PROVE  EventsInv'
<1>1. TexecomTypeOK /\ EventsInv
  BY DEF TexecomInv, ReportInv
<1>2. UNCHANGED <<topic, events, wire>>
  BY DEF Pops
<1>3. /\ \A n : InRows(n) <=> InRows(n)' \/ row = <<"event", n>>
      /\ RowsOnce'
  BY <1>1, RowsPop DEF EventsInv
<1>4. TellsOnce(wire)' /\ OfTopic'
  BY <1>1, <1>2, <1>3 DEF EventsInv, OfTopic
<1>5. AllKnown'
  BY <1>1, <1>2, <1>3, MindPops DEF EventsInv, AllKnown
<1>6. ASSUME NEW n \in DOMAIN events PROVE OnOneWay(n)'
  <2>1. OnOneWay(n)
    BY <1>1 DEF EventsInv, OneWay
  <2>2. IsTold(n) => IsTold(n)'
    BY <1>2 DEF IsTold, Rightly
  <2>3. IsPending(n) => IsPending(n)'
    BY <1>2, <2>2, MindPops DEF IsPending, Rightly
  <2>4. mem'.PENDING_INCIDENT = mem.PENDING_INCIDENT
    BY MindPops
  <2> QED BY <1>2, <1>3, <2>1, <2>2, <2>3, <2>4 DEF OnOneWay
<1>7. OneWay'
  BY <1>2, <1>6 DEF OneWay
<1> QED BY <1>3, <1>4, <1>5, <1>7 DEF EventsInv

(* One element of a sequence is replaced.                                  *)
LEMMA ElementSet ==
  ASSUME NEW S, NEW w \in Seq(S), NEW d \in S, NEW i \in DOMAIN w, NEW v, v = [w EXCEPT ![i] = d]
  PROVE  v \in Seq(S) /\ Len(v) = Len(w) /\ v[i] = d /\ \A n \in DOMAIN w : n # i => v[n] = w[n]
OBVIOUS

(* An event that is stored is told, for the first time.                    *)
LEMMA EventStored ==
  ASSUME TexecomInv, NEW t \in Threads, NEW row, Pops(t, row), UNCHANGED excused, row[1] = "event",
         toldEvents' = [toldEvents EXCEPT ![row[2]].times = @ + 1]
  PROVE  /\ EventsInv'
         /\ toldEvents' \in Seq([times : Nat, zone : Nat]) /\ Len(toldEvents') = Len(events)
<1>1. TexecomTypeOK /\ EventsInv
  BY DEF TexecomInv, ReportInv
<1>2. UNCHANGED <<topic, events, wire>>
  BY DEF Pops
<1>3. /\ \A n : InRows(n) <=> InRows(n)' \/ row = <<"event", n>>
      /\ RowsOnce' /\ row \in Reports
      /\ \A n : row = <<"event", n>> => ~ InRows(n)'
  BY <1>1, RowsPop DEF EventsInv
<1>4. PICK m \in Nat : row = <<"event", m>> /\ m = row[2]
  BY <1>3, ReportKinds
<1>5. InRows(m) /\ ~ InRows(m)' /\ m \in DOMAIN events
  BY <1>1, <1>3, <1>4 DEF EventsInv, AllKnown
<1>6. OnOneWay(m) /\ toldEvents[m].times = 0 /\ ~ Tells(wire, m) /\ mem.PENDING_INCIDENT # m
  BY <1>1, <1>5 DEF EventsInv, OneWay, OnOneWay
<1>7. /\ toldEvents \in Seq([times : Nat, zone : Nat]) /\ DOMAIN toldEvents = DOMAIN events
      /\ m \in DOMAIN toldEvents /\ Len(toldEvents) = Len(events)
  BY <1>1, <1>5 DEF TexecomTypeOK
<1>8. toldEvents[m] \in [times : Nat, zone : Nat]
  BY <1>7, ElementOf
<1>9. PICK e \in [times : Nat, zone : Nat] : e = [toldEvents[m] EXCEPT !.times = 1] /\ e.times = 1
  <2>1. PICK o \in [times : Nat, zone : Nat] : o = toldEvents[m]
    BY <1>8
  <2>2. [o EXCEPT !.times = 1] \in [times : Nat, zone : Nat] /\ [o EXCEPT !.times = 1].times = 1
    OBVIOUS
  <2> QED BY <2>1, <2>2
<1>10. toldEvents' = [toldEvents EXCEPT ![m] = e]
  <2>1. toldEvents[m].times + 1 = 1
    BY <1>6
  <2>2. toldEvents' = [toldEvents EXCEPT ![m].times = 1]
    BY <1>4, <2>1
  <2> QED BY <1>9, <2>2
<1>11. /\ toldEvents' \in Seq([times : Nat, zone : Nat]) /\ Len(toldEvents') = Len(events)
       /\ toldEvents'[m] = e /\ \A n \in DOMAIN events : n # m => toldEvents'[n] = toldEvents[n]
  <2>1. /\ toldEvents' \in Seq([times : Nat, zone : Nat]) /\ Len(toldEvents') = Len(toldEvents)
        /\ toldEvents'[m] = e /\ \A n \in DOMAIN toldEvents : n # m => toldEvents'[n] = toldEvents[n]
    <3>1. toldEvents \in Seq([times : Nat, zone : Nat]) /\ m \in DOMAIN toldEvents
      BY <1>7
    <3>2. PICK w, v : w = toldEvents /\ v = toldEvents'
      OBVIOUS
    <3>3. w \in Seq([times : Nat, zone : Nat]) /\ m \in DOMAIN w /\ v = [w EXCEPT ![m] = e]
      BY <1>10, <3>1, <3>2
    <3>4. v \in Seq([times : Nat, zone : Nat]) /\ Len(v) = Len(w) /\ v[m] = e /\ \A n \in DOMAIN w : n # m => v[n] = w[n]
      BY <3>3, ElementSet
    <3> QED BY <3>2, <3>4
  <2> QED BY <1>7, <2>1
<1>12. TellsOnce(wire)' /\ OfTopic'
  BY <1>1, <1>2, <1>3 DEF EventsInv, OfTopic
<1>13. AllKnown'
  BY <1>1, <1>2, <1>3, MindPops DEF EventsInv, AllKnown
<1>14. ASSUME NEW n \in DOMAIN events, n # m PROVE OnOneWay(n)'
  <2>1. OnOneWay(n) /\ toldEvents'[n] = toldEvents[n]
    BY <1>1, <1>11, <1>14 DEF EventsInv, OneWay
  <2>2. IsTold(n) => IsTold(n)'
    BY <1>2, <2>1 DEF IsTold, Rightly
  <2>3. IsPending(n) => IsPending(n)'
    BY <1>2, <2>1, <2>2, MindPops DEF IsPending, Rightly
  <2>4. mem'.PENDING_INCIDENT = mem.PENDING_INCIDENT /\ (InRows(n)' <=> InRows(n))
    BY <1>3, <1>4, <1>14, MindPops
  <2> QED BY <1>2, <2>1, <2>2, <2>3, <2>4 DEF OnOneWay
<1>15. OnOneWay(m)'
  <2>1. topic # "incidents"
    BY <1>1, <1>4, <1>5 DEF EventsInv, OfTopic
  <2>2. IsTold(m)'
    BY <1>2, <1>9, <1>11, <2>1 DEF IsTold, Rightly
  <2>3. mem'.PENDING_INCIDENT # m
    BY <1>6, MindPops
  <2> QED BY <1>2, <1>5, <1>6, <2>2, <2>3 DEF OnOneWay
<1>16. OneWay'
  BY <1>2, <1>14, <1>15 DEF OneWay
<1> QED BY <1>3, <1>11, <1>12, <1>13, <1>16 DEF EventsInv

(* What a step of this kind leaves of mains and battery: what is told is   *)
(* what is known, or excused, or has not changed.                          *)
TellsWhatIsKnown(what, row) ==
    /\ <<what, 0>> \in excused => <<what, 0>> \in excused'
    /\ \/ <<what, 0>> \in excused'
       \/ told'[what] = mem[what] \/ <<"late", what>> \in excused'
       \/ /\ row[1] \notin {what, "initial"} /\ told'[what] = told[what]
          /\ <<"late", what>> \in excused => <<"late", what>> \in excused'

(* What is told of the mains is what is known of them, or excused, or has  *)
(* not changed.                                                            *)
LEMMA MainsPops ==
  ASSUME TexecomInv, NEW t \in Threads, NEW row, Pops(t, row), TellsWhatIsKnown("mains", row)
  PROVE  MainsInv'
<1>1. MainsInv /\ TexecomTypeOK
  BY DEF TexecomInv, ReportInv
<1>2. /\ UNCHANGED <<panel, wire, call>> /\ mem'.mains = mem.mains
      /\ row[1] \notin {"mains", "initial"} => (Reported("mains")' <=> Reported("mains"))
  BY <1>1, MindPops, RowsPop DEF Pops
<1> SUFFICES ASSUME ~ panel.unsaid, <<"mains", 0>> \notin excused'
             PROVE  ~ News(wire, "mains") =>
                       \/ <<"late", "mains">> \in excused' \/ Reported("mains")'
                       \/ told'.mains \in {"None", panel.mains}
  BY <1>1, <1>2 DEF MainsInv, TellsWhatIsKnown, UnderWay
<1> QED BY <1>1, <1>2 DEF MainsInv, TellsWhatIsKnown

(* The same of the battery.                                                *)
LEMMA BatteryPops ==
  ASSUME TexecomInv, NEW t \in Threads, NEW row, Pops(t, row), TellsWhatIsKnown("battery", row)
  PROVE  BatteryInv'
<1>1. BatteryInv /\ TexecomTypeOK
  BY DEF TexecomInv, ReportInv
<1>2. /\ UNCHANGED <<panel, wire, call>> /\ mem'.battery = mem.battery
      /\ mem'.BATTERY_ALARM_ACTIVE = mem.BATTERY_ALARM_ACTIVE /\ mem'.BATTERY_CONFIRMED = mem.BATTERY_CONFIRMED
      /\ row[1] \notin {"battery", "initial"} => (Reported("battery")' <=> Reported("battery"))
  BY <1>1, MindPops, RowsPop DEF Pops
<1> SUFFICES ASSUME panel.battery = "fine", <<"battery", 0>> \notin excused'
             PROVE  ~ News(wire, "battery") =>
                       \/ <<"late", "battery">> \in excused' \/ Reported("battery")'
                       \/ told'.battery \notin {"LOW", "DISCONNECTED"}
  BY <1>1, <1>2 DEF BatteryInv, TellsWhatIsKnown, UnderWay
<1> QED BY <1>1, <1>2 DEF BatteryInv, TellsWhatIsKnown

(* The invariant is kept if its parts are.                                 *)
LEMMA PoppedKeeps ==
  ASSUME TexecomInv, NEW t \in Threads, NEW row, Pops(t, row),
         told' \in ToldStates, excused' \subseteq Excuses, used' \in Nat,
         toldEvents' \in Seq([times : Nat, zone : Nat]), Len(toldEvents') = Len(events), EventsInv',
         TellsWhatIsKnown("mains", row), TellsWhatIsKnown("battery", row),
         mem'.last_drift_alert => told'.drift \/ <<"drift", 0>> \in excused'
  PROVE  TexecomInv'
<1>1. TexecomTypeOK /\ rows[t] # << >>
  BY DEF TexecomInv, Pops
<1>2. mem' \in Minds /\ rows' \in [Threads -> Seq(Reports)] /\ \A u \in Threads : u # t => rows'[u] = rows[u]
  BY <1>1, MindPops, RowsPop
<1>3. UNCHANGED <<topic, panel, events, wire, s, active, texecom, at, call, evaluating, conn, connStat>>
  BY DEF Pops
<1>4. TexecomTypeOK'
  BY <1>1, <1>2, <1>3 DEF TexecomTypeOK
<1>5. Evaluating' /\ Session'
  BY <1>1, <1>2, <1>3 DEF TexecomInv, Evaluating, Session
<1>6. MainsInv' /\ BatteryInv'
  BY MainsPops, BatteryPops
<1>7. DriftInv'
  BY DEF DriftInv
<1> QED BY <1>4, <1>5, <1>6, <1>7 DEF TexecomInv, ReportInv

(* What is late is not missed.                                             *)
LEMMA LateIs ==
  ASSUME TexecomInv, NEW what \in {"mains", "battery"}, NEW others, others \subseteq Excuses, NEW state
  PROVE  /\ Late(others, what, state) \subseteq Excuses
         /\ state # mem[what] => <<"late", what>> \in Late(others, what, state)
         /\ \A x : x # <<"late", what>> => (x \in Late(others, what, state) <=> x \in others)
<1>1. <<"late", what>> \in Excuses
  BY DEF Excuses
<1> QED BY <1>1 DEF Late

(* What a report is about.                                                 *)
LEMMA AboutIs ==
  ASSUME NEW row \in Reports
  PROVE  /\ About(row) \subseteq Excuses
         /\ \A n : <<"told", n>> \in About(row) <=> row = <<"event", n>>
         /\ \A n : <<"zone", n>> \notin About(row) /\ <<"late", n>> \notin About(row)
         /\ \A what \in {"mains", "battery"} : <<what, 0>> \in About(row) <=> row[1] \in {what, "initial"}
         /\ <<"drift", 0>> \in About(row) <=> row[1] = "drift"
<1>1. CASE row[1] = "event"
  <2>1. row = <<"event", row[2]>> /\ row[2] \in Nat \ {0}
    BY <1>1, ReportKinds
  <2> QED BY <1>1, <2>1 DEF About, Excuses
<1>2. CASE row[1] = "initial"
  BY <1>2 DEF About, Excuses
<1>3. CASE row[1] \in {"mains", "battery", "drift", "panel", "beat"}
  BY <1>3 DEF About, Excuses
<1> QED BY <1>1, <1>2, <1>3, ReportKinds

(* A report that is not stored is excused.                                 *)
LEMMA NotStored ==
  ASSUME TexecomInv, NEW t \in Threads, NEW row, Pops(t, row),
         excused' = excused \cup About(row), UNCHANGED <<told, toldEvents>>, used' \in Nat
  PROVE  TexecomInv'
<1>1. TexecomTypeOK /\ row \in Reports
  BY RowsPop DEF TexecomInv
<1>2. /\ told' \in ToldStates /\ toldEvents' \in Seq([times : Nat, zone : Nat]) /\ Len(toldEvents') = Len(events)
      /\ excused \subseteq Excuses
  BY <1>1 DEF TexecomTypeOK
<1>3. excused' \subseteq Excuses
  BY <1>1, <1>2, AboutIs
<1>4. EventsInv'
  BY <1>1, AboutIs, EventsPop
<1>5. TellsWhatIsKnown("mains", row) /\ TellsWhatIsKnown("battery", row)
  BY <1>1, AboutIs DEF TellsWhatIsKnown
<1>6. mem'.last_drift_alert => told'.drift \/ <<"drift", 0>> \in excused'
  BY <1>1, AboutIs, MindPops DEF TexecomInv, ReportInv, DriftInv
<1> QED BY <1>2, <1>3, <1>4, <1>5, <1>6, PoppedKeeps

(* The report of mains and battery at the start is stored; it may have     *)
(* been overtaken.                                                         *)
LEMMA InitialStored ==
  ASSUME TexecomInv, NEW t \in Threads, NEW row, Pops(t, row), row[1] = "initial",
         told' = [told EXCEPT !.mains = row[2], !.battery = row[3]],
         excused' = Late(Late(excused, "mains", row[2]), "battery", row[3]),
         UNCHANGED <<toldEvents, used>>
  PROVE  TexecomInv'
<1>1. TexecomTypeOK /\ row \in Reports /\ excused \subseteq Excuses
  BY RowsPop DEF TexecomInv, TexecomTypeOK
<1>2. row[2] \in MainsStates /\ row[3] \in BatteryStates
  BY <1>1, ReportKinds
<1>3. /\ told' \in ToldStates /\ told'.mains = row[2] /\ told'.battery = row[3] /\ told'.drift = told.drift
      /\ toldEvents' \in Seq([times : Nat, zone : Nat]) /\ Len(toldEvents') = Len(events) /\ used' \in Nat
  BY <1>1, <1>2 DEF TexecomTypeOK, ToldStates
<1>4. PICK others : others = Late(excused, "mains", row[2])
  OBVIOUS
<1>5. /\ others \subseteq Excuses
      /\ row[2] # mem.mains => <<"late", "mains">> \in others
      /\ \A x : x # <<"late", "mains">> => (x \in others <=> x \in excused)
  BY <1>1, <1>4, LateIs
<1>6. /\ excused' \subseteq Excuses
      /\ row[3] # mem.battery => <<"late", "battery">> \in excused'
      /\ \A x : x # <<"late", "battery">> => (x \in excused' <=> x \in others)
  BY <1>4, <1>5, LateIs
<1>7. \A x : x[1] # "late" => (x \in excused' <=> x \in excused)
  BY <1>5, <1>6
<1>8. /\ \A n : <<"told", n>> \in excused' <=> <<"told", n>> \in excused
      /\ \A n : <<"zone", n>> \in excused' <=> <<"zone", n>> \in excused
      /\ \A n : <<"mains", n>> \in excused' <=> <<"mains", n>> \in excused
      /\ \A n : <<"battery", n>> \in excused' <=> <<"battery", n>> \in excused
      /\ \A n : <<"drift", n>> \in excused' <=> <<"drift", n>> \in excused
  BY <1>7
<1>9. EventsInv'
  BY <1>8, EventsPop
<1>10. TellsWhatIsKnown("mains", row) /\ TellsWhatIsKnown("battery", row)
  BY <1>3, <1>5, <1>6, <1>8 DEF TellsWhatIsKnown
<1>11. mem'.last_drift_alert => told'.drift \/ <<"drift", 0>> \in excused'
  BY <1>3, <1>8, MindPops DEF TexecomInv, ReportInv, DriftInv
<1> QED BY <1>3, <1>6, <1>9, <1>10, <1>11, PoppedKeeps

(* A report of the mains or of the battery is stored; it may have been     *)
(* overtaken.                                                              *)
LEMMA StateStored ==
  ASSUME TexecomInv, NEW t \in Threads, NEW row, Pops(t, row), NEW what \in {"mains", "battery"}, row[1] = what,
         told' = [told EXCEPT ![what] = row[2]], excused' = Late(excused, what, row[2]),
         UNCHANGED <<toldEvents, used>>
  PROVE  TexecomInv'
<1>1. TexecomTypeOK /\ row \in Reports /\ excused \subseteq Excuses
  BY RowsPop DEF TexecomInv, TexecomTypeOK
<1>2. /\ told' \in ToldStates /\ told'[what] = row[2] /\ told'.drift = told.drift
      /\ \A other \in {"mains", "battery"} : other # what => told'[other] = told[other]
  <2>1. CASE what = "mains"
    <3>1. row[2] \in MainsStates
      BY <1>1, <2>1, ReportKinds DEF MainsStates
    <3> QED BY <1>1, <2>1, <3>1 DEF TexecomTypeOK, ToldStates
  <2>2. CASE what = "battery"
    <3>1. row[2] \in BatteryStates
      BY <1>1, <2>2, ReportKinds
    <3> QED BY <1>1, <2>2, <3>1 DEF TexecomTypeOK, ToldStates
  <2> QED BY <2>1, <2>2
<1>3. toldEvents' \in Seq([times : Nat, zone : Nat]) /\ Len(toldEvents') = Len(events) /\ used' \in Nat
  BY <1>1 DEF TexecomTypeOK
<1>4. /\ excused' \subseteq Excuses
      /\ row[2] # mem[what] => <<"late", what>> \in excused'
      /\ \A x : x # <<"late", what>> => (x \in excused' <=> x \in excused)
  BY <1>1, LateIs
<1>5. /\ \A x : x[1] # "late" => (x \in excused' <=> x \in excused)
      /\ \A other \in {"mains", "battery"} : other # what => (<<"late", other>> \in excused' <=> <<"late", other>> \in excused)
  BY <1>4
<1>6. /\ \A n : <<"told", n>> \in excused' <=> <<"told", n>> \in excused
      /\ \A n : <<"zone", n>> \in excused' <=> <<"zone", n>> \in excused
      /\ \A n : <<"mains", n>> \in excused' <=> <<"mains", n>> \in excused
      /\ \A n : <<"battery", n>> \in excused' <=> <<"battery", n>> \in excused
      /\ \A n : <<"drift", n>> \in excused' <=> <<"drift", n>> \in excused
  BY <1>5
<1>7. EventsInv'
  BY <1>6, EventsPop
<1>8. TellsWhatIsKnown("mains", row) /\ TellsWhatIsKnown("battery", row)
  <2>1. CASE what = "mains"
    BY <1>2, <1>4, <1>5, <1>6, <2>1 DEF TellsWhatIsKnown
  <2>2. CASE what = "battery"
    BY <1>2, <1>4, <1>5, <1>6, <2>2 DEF TellsWhatIsKnown
  <2> QED BY <2>1, <2>2
<1>9. mem'.last_drift_alert => told'.drift \/ <<"drift", 0>> \in excused'
  BY <1>2, <1>6, MindPops DEF TexecomInv, ReportInv, DriftInv
<1> QED BY <1>2, <1>3, <1>4, <1>7, <1>8, <1>9, PoppedKeeps

(* A report of the panel, a heartbeat or a drift is stored, the drift      *)
(* unless it is known.                                                     *)
LEMMA SignStored ==
  ASSUME TexecomInv, NEW t \in Threads, NEW row, Pops(t, row), NEW what \in {"panel", "beat", "drift"}, row[1] = what,
         \/ told' = [told EXCEPT ![what] = row[2]] /\ excused' = excused \ About(row)
         \/ what = "drift" /\ row[2] /\ mem.last_drift_alert /\ UNCHANGED <<told, excused>>,
         UNCHANGED <<toldEvents, used>>
  PROVE  TexecomInv'
<1>1. TexecomTypeOK /\ row \in Reports /\ excused \subseteq Excuses
  BY RowsPop DEF TexecomInv, TexecomTypeOK
<1>2. /\ told' \in ToldStates /\ told'.mains = told.mains /\ told'.battery = told.battery
      /\ what # "drift" => told'.drift = told.drift
      /\ what = "drift" => told'.drift = row[2] \/ (row[2] /\ mem.last_drift_alert /\ UNCHANGED <<told, excused>>)
  <2>1. CASE UNCHANGED told
    BY <1>1, <2>1 DEF TexecomTypeOK, ToldStates
  <2>2. CASE what = "panel" /\ told' = [told EXCEPT ![what] = row[2]]
    <3>1. row[2] \in {"ON", "OFF"}
      BY <1>1, <2>2, ReportKinds
    <3> QED BY <1>1, <2>2, <3>1 DEF TexecomTypeOK, ToldStates
  <2>3. CASE what = "beat" /\ told' = [told EXCEPT ![what] = row[2]]
    <3>1. row[2] \in {"online", "LinkFail"}
      BY <1>1, <2>3, ReportKinds
    <3> QED BY <1>1, <2>3, <3>1 DEF TexecomTypeOK, ToldStates
  <2>4. CASE what = "drift" /\ told' = [told EXCEPT ![what] = row[2]]
    <3>1. row[2] \in BOOLEAN
      BY <1>1, <2>4, ReportKinds
    <3> QED BY <1>1, <2>4, <3>1 DEF TexecomTypeOK, ToldStates
  <2> QED BY <2>1, <2>2, <2>3, <2>4
<1>3. toldEvents' \in Seq([times : Nat, zone : Nat]) /\ Len(toldEvents') = Len(events) /\ used' \in Nat
  BY <1>1 DEF TexecomTypeOK
<1>4. excused' \subseteq Excuses /\ \A x : x # <<what, 0>> => (x \in excused' <=> x \in excused)
  BY <1>1 DEF About
<1>5. /\ \A n : <<"told", n>> \in excused' <=> <<"told", n>> \in excused
      /\ \A n : <<"zone", n>> \in excused' <=> <<"zone", n>> \in excused
      /\ \A n : <<"late", n>> \in excused' <=> <<"late", n>> \in excused
      /\ \A n : <<"mains", n>> \in excused' <=> <<"mains", n>> \in excused
      /\ \A n : <<"battery", n>> \in excused' <=> <<"battery", n>> \in excused
      /\ what # "drift" => (<<"drift", 0>> \in excused' <=> <<"drift", 0>> \in excused)
  BY <1>4
<1>6. EventsInv'
  BY <1>5, EventsPop
<1>7. TellsWhatIsKnown("mains", row) /\ TellsWhatIsKnown("battery", row)
  BY <1>2, <1>5 DEF TellsWhatIsKnown
<1>8. mem'.last_drift_alert => told'.drift \/ <<"drift", 0>> \in excused'
  <2>1. CASE what = "drift"
    BY <1>2, <2>1, MindPops DEF TexecomInv, ReportInv, DriftInv
  <2>2. CASE what # "drift"
    BY <1>2, <1>5, <2>2, MindPops DEF TexecomInv, ReportInv, DriftInv
  <2> QED BY <2>1, <2>2
<1> QED BY <1>2, <1>3, <1>4, <1>6, <1>7, <1>8, PoppedKeeps

(* Insert keeps the invariant.                                             *)
LEMMA InsertKeeps == ASSUME TexecomInv, NEW t \in Threads, Insert(t) PROVE TexecomInv'
<1>1. PICK row : row = Head(rows[t])
  OBVIOUS
<1>2. Pops(t, row)
  BY <1>1 DEF Insert, Pops
<1>3. TexecomTypeOK /\ row \in Reports /\ used \in Nat
  BY <1>2, RowsPop DEF TexecomInv, TexecomTypeOK
<1>4. \/ Stores(row) /\ UNCHANGED used
      \/ excused' = excused \cup About(row) /\ used' \in Nat /\ UNCHANGED <<told, toldEvents>>
  BY <1>1, <1>3 DEF Insert, Happens
<1>5. CASE excused' = excused \cup About(row) /\ used' \in Nat /\ UNCHANGED <<told, toldEvents>>
  BY <1>2, <1>5, NotStored
<1>6. CASE Stores(row) /\ UNCHANGED used
  <2>1. CASE row[1] = "event"
    <3>1. toldEvents' = [toldEvents EXCEPT ![row[2]].times = @ + 1] /\ UNCHANGED <<told, excused>>
      BY <1>6, <2>1 DEF Stores
    <3>2. EventsInv' /\ toldEvents' \in Seq([times : Nat, zone : Nat]) /\ Len(toldEvents') = Len(events)
      BY <1>2, <2>1, <3>1, EventStored
    <3>3. told' \in ToldStates /\ excused' \subseteq Excuses /\ used' \in Nat
      BY <1>3, <1>6, <3>1 DEF TexecomTypeOK
    <3>4. TellsWhatIsKnown("mains", row) /\ TellsWhatIsKnown("battery", row)
      BY <2>1, <3>1 DEF TellsWhatIsKnown
    <3>5. mem'.last_drift_alert => told'.drift \/ <<"drift", 0>> \in excused'
      BY <1>2, <2>1, <3>1, MindPops DEF TexecomInv, ReportInv, DriftInv
    <3> QED BY <1>2, <3>2, <3>3, <3>4, <3>5, PoppedKeeps
  <2>2. CASE row[1] = "initial"
    <3>1. /\ told' = [told EXCEPT !.mains = row[2], !.battery = row[3]]
          /\ excused' = Late(Late(excused, "mains", row[2]), "battery", row[3]) /\ UNCHANGED <<toldEvents, used>>
      BY <1>6, <2>2 DEF Stores
    <3> QED BY <1>2, <2>2, <3>1, InitialStored
  <2>3. CASE row[1] \in {"mains", "battery"}
    <3>1. told' = [told EXCEPT ![row[1]] = row[2]] /\ excused' = Late(excused, row[1], row[2]) /\ UNCHANGED <<toldEvents, used>>
      BY <1>6, <2>3 DEF Stores
    <3> QED BY <1>2, <2>3, <3>1, StateStored
  <2>4. CASE row[1] \in {"panel", "beat", "drift"}
    <3>1. /\ \/ told' = [told EXCEPT ![row[1]] = row[2]] /\ excused' = excused \ About(row)
             \/ row[1] = "drift" /\ row[2] /\ mem.last_drift_alert /\ UNCHANGED <<told, excused>>
          /\ UNCHANGED <<toldEvents, used>>
      BY <1>6, <2>4 DEF Stores
    <3> QED BY <1>2, <2>4, <3>1, SignStored
  <2> QED BY <1>3, <2>1, <2>2, <2>3, <2>4, ReportKinds
<1> QED BY <1>4, <1>5, <1>6

-----------------------------------------------------------------------------
(* Texecom: the theorems.                                                  *)

(* The invariant holds when the program starts.                            *)
LEMMA TexecomInitInv == TexecomInit => TexecomInv
<1> SUFFICES ASSUME TexecomInit PROVE TexecomInv
  OBVIOUS
<1>1. /\ topic \in Topics /\ active \in BOOLEAN /\ events = << >> /\ wire = << >> /\ s = "none" /\ texecom = "starting"
      /\ at = [loop |-> "connect", scheduler |-> "sleep"] /\ call = [t \in Threads |-> NoCall]
      /\ evaluating = [t \in Threads |-> "no"] /\ rows = [t \in Threads |-> << >>]
      /\ conn = FirstConn /\ mem = FirstMem /\ connStat = FALSE /\ toldEvents = << >> /\ excused = {} /\ used = 0
      /\ told = [panel |-> "none", beat |-> "none", mains |-> "None", battery |-> "None", drift |-> FALSE]
  BY DEF TexecomInit
<1>2. panel \in Panels
  BY DEF TexecomInit, PanelState, Panels
<1>3. /\ at \in [Threads -> Places] /\ told \in ToldStates
      /\ events \in Seq(TexecomZones) /\ wire \in Seq(Messages) /\ toldEvents \in Seq([times : Nat, zone : Nat])
      /\ Len(toldEvents) = Len(events)
  BY <1>1 DEF Threads, Places, ToldStates, MainsStates, BatteryStates
<1>4. TexecomTypeOK
  <2>1. /\ call \in [Threads -> CallStates] /\ evaluating \in [Threads -> {"no", "decide", "done"}]
        /\ rows \in [Threads -> Seq(Reports)] /\ conn \in ConnStates /\ mem \in Minds
    BY <1>1, FirstTypes
  <2> QED BY <1>1, <1>2, <1>3, <2>1 DEF TexecomTypeOK
<1>5. \A t \in Threads : rows[t] = << >> /\ call[t].result = << >> /\ evaluating[t] = "no"
  BY <1>1 DEF NoCall
<1>6. (\A n : ~ InRows(n)) /\ RowsOnce
  BY <1>5 DEF InRows, Reporting, RowsOnce
<1>7. /\ \A n : ~ Tells(wire, n)
      /\ TellsOnce(wire) /\ NoKeys(wire)
      /\ \A what : ~ News(wire, what)
      /\ \A what, x : LastIs(wire, what, x)
      /\ \A r : ~ UnderWay(r)
  BY <1>1, <1>5, EmptyWire DEF UnderWay
<1>8. /\ mem.PENDING_INCIDENT = 0 /\ mem.mains = "None" /\ mem.battery = "None" /\ ~ mem.BATTERY_ALARM_ACTIVE
      /\ ~ mem.BATTERY_CONFIRMED /\ ~ mem.last_drift_alert /\ told.mains = "None" /\ told.battery = "None"
  BY <1>1 DEF FirstMem
<1>9. EventsInv
  <2>1. AllKnown
    BY <1>1, <1>6, <1>7, <1>8 DEF AllKnown
  <2>2. OneWay
    BY <1>1 DEF OneWay
  <2> QED BY <1>6, <1>7, <2>1, <2>2 DEF EventsInv, OfTopic
<1>10. MainsInv /\ BatteryInv /\ DriftInv
  BY <1>7, <1>8 DEF MainsInv, BatteryInv, DriftInv
<1>11. Evaluating /\ Session
  BY <1>1, <1>5 DEF Evaluating, Session
<1> QED BY <1>4, <1>9, <1>10, <1>11 DEF TexecomInv, ReportInv

(* A step that changes nothing keeps it.                                   *)
LEMMA TexecomStutters == ASSUME TexecomInv, UNCHANGED texecomVars PROVE TexecomInv'
<1>1. UNCHANGED <<topic, panel, events, wire, s, active, texecom, at, call, evaluating, rows, conn, mem, connStat,
                  told, toldEvents, excused, used>>
  BY DEF texecomVars, process, heard
<1>2. TexecomTypeOK'
  BY <1>1 DEF TexecomInv, TexecomTypeOK
<1>3. Calm
  BY <1>1, SameMindLeft, WireLeft, CallsLeft DEF Calm, SamePanel, RowsCalm
<1>4. Evaluating' /\ Session'
  BY <1>1, EvaluatingLeft DEF TexecomInv, Session
<1> QED BY <1>2, <1>3, <1>4, CalmSteps DEF TexecomInv

(* What the panel does keeps it, what a thread does, what the loop and     *)
(* what the scheduler does.                                                *)
LEMMA ThePanelKeeps == ASSUME TexecomInv, ThePanel PROVE TexecomInv'
BY AlarmKeeps, ZoneMovesKeeps, KeyPressedKeeps, MainsChangeKeeps, MainsSaidKeeps, BatteryChangeKeeps,
   ClockDriftsKeeps, LinkBreaksKeeps, AcceptsChangeKeeps DEF ThePanel

(* The same of either thread.                                              *)
LEMMA ThreadStepKeeps == ASSUME TexecomInv, NEW t \in Threads, ThreadStep(t) PROVE TexecomInv'
BY SendCommandKeeps, SendFailsKeeps, GoneKeeps, ReceiveAnswerKeeps, ReceiveMessageKeeps, TimeoutKeeps, EofKeeps,
   CollectVoltageKeeps, VerdictKeeps, TimeAnsweredKeeps, InsertKeeps DEF ThreadStep

(* The same of the loop.                                                   *)
LEMMA EventLoopKeeps == ASSUME TexecomInv, EventLoop PROVE TexecomInv'
<1>1. "loop" \in Threads
  BY DEF Threads
<1> QED BY <1>1, ThreadStepKeeps, PanelConnectKeeps, PanelRefusesKeeps, PanelOnKeeps, LoginAnsweredKeeps,
           EventsAnsweredKeeps, InitAnsweredKeeps, VoltageAnsweredKeeps, PowerStateAnsweredKeeps,
           PowerStateKnownKeeps, IdleAnsweredKeeps DEF EventLoop

(* The same of the scheduler.                                              *)
LEMMA SchedulerLoopKeeps == ASSUME TexecomInv, SchedulerLoop PROVE TexecomInv'
<1>1. "scheduler" \in Threads
  BY DEF Threads
<1> QED BY <1>1, ThreadStepKeeps, HeartbeatKeeps, JobKeeps, StatusAnsweredKeeps DEF SchedulerLoop

(* Every step keeps it.                                                    *)
LEMMA TexecomNextInv == TexecomInv /\ [TexecomNext]_texecomVars => TexecomInv'
<1> SUFFICES ASSUME TexecomInv, [TexecomNext]_texecomVars PROVE TexecomInv'
  OBVIOUS
<1>1. CASE ThePanel
  BY <1>1, ThePanelKeeps
<1>2. CASE EventLoop
  BY <1>2, EventLoopKeeps
<1>3. CASE SchedulerLoop
  BY <1>3, SchedulerLoopKeeps
<1>4. CASE Tear
  BY <1>4, TearKeeps
<1>5. CASE Timers
  BY <1>5, FinalizeIncidentKeeps, ClearEverythingKeeps DEF Timers
<1>6. CASE TimePasses \/ Death \/ LcdTexecom \/ TexecomStart
  BY <1>6, TimePassesKeeps, DeathKeeps, LcdTexecomKeeps, TexecomStartKeeps
<1>7. CASE UNCHANGED texecomVars
  BY <1>7, TexecomStutters
<1> QED BY <1>1, <1>2, <1>3, <1>4, <1>5, <1>6, <1>7 DEF TexecomNext

(* The inductive invariant of the Texecom integration (texecomConnect.py): *)
(* whatever the panel, the network, the two threads and the timers do, an  *)
(* event is on one way only, and what is told of mains and battery is what *)
(* the panel said, or is about to be, or is excused.                       *)
THEOREM TexecomInvariant == TexecomSpec => []TexecomInv
BY TexecomInitInv, TexecomNextInv, PTL DEF TexecomSpec

(* The Texecom integration keeps its types, whatever the number of zones,  *)
(* of tries and of changes.                                                *)
THEOREM TexecomTypeCorrect == TexecomSpec => []TexecomTypeOK
<1>1. TexecomInv => TexecomTypeOK
  BY DEF TexecomInv
<1> QED BY <1>1, TexecomInvariant, PTL

(* When nothing is under way, no event is on a way of its own.             *)
LEMMA TexecomInvTold == TexecomInv => PanelEventsAreTold
<1> SUFFICES ASSUME TexecomInv, Idle PROVE PanelEventsAreTold
  BY DEF PanelEventsAreTold
<1>1. /\ wire = << >> /\ ~ panel.unsaid /\ mem.timers = 0 /\ mem.clearing = 0
      /\ \A t \in Threads : rows[t] = << >>
  BY DEF Idle, Free
<1>2. TexecomTypeOK /\ EventsInv /\ MainsInv /\ BatteryInv /\ DriftInv
  BY DEF TexecomInv, ReportInv
<1>3. (\A n : ~ InRows(n)) /\ \A what : ~ Reported(what)
  BY <1>1 DEF InRows, Reporting, Reported
<1>4. (\A n : ~ Tells(wire, n)) /\ \A what : ~ News(wire, what)
  BY <1>1, EmptyWire
<1>5. ASSUME NEW n \in DOMAIN events, <<"told", n>> \notin excused
      PROVE  /\ toldEvents[n].times = 1
             /\ topic = "incidents" /\ <<"zone", n>> \notin excused => toldEvents[n].zone = events[n]
  <2>1. OnOneWay(n)
    BY <1>2 DEF EventsInv, OneWay
  <2>2. ~ IsPending(n)
    BY <1>1 DEF IsPending
  <2>3. IsTold(n)
    BY <1>3, <1>4, <1>5, <2>1, <2>2 DEF OnOneWay
  <2> QED BY <2>3 DEF IsTold, Rightly
<1>6. excused \cap {<<"mains", 0>>, <<"late", "mains">>} # {} \/ told.mains \in {"None", panel.mains}
  BY <1>1, <1>2, <1>3, <1>4 DEF MainsInv
<1>7. \/ excused \cap {<<"battery", 0>>, <<"late", "battery">>} # {} \/ panel.battery = "alarm"
      \/ told.battery \notin {"LOW", "DISCONNECTED"}
  <2>1. panel.battery \in {"fine", "alarm"}
    BY <1>2 DEF TexecomTypeOK, Panels
  <2> QED BY <1>2, <1>3, <1>4, <2>1 DEF BatteryInv
<1>8. mem.last_drift_alert => told.drift \/ <<"drift", 0>> \in excused
  BY <1>2 DEF DriftInv
<1> QED BY <1>5, <1>6, <1>7, <1>8 DEF PanelEventsAreTold

(* When nothing is under way, what the panel has said has been told: each  *)
(* event once, an incident with its zone, and mains, battery and drift as  *)
(* they are, for every set of zones, every topic and every number of       *)
(* changes, failures and restarts, except what the model excuses           *)
(* (message_handler, finalize_incident, insert_json_to_db).                *)
THEOREM PanelEventsAreAlwaysTold == TexecomSpec => []PanelEventsAreTold
BY TexecomInvariant, TexecomInvTold, PTL
=============================================================================
