------------------------- MODULE TexecomIntegration -------------------------
(***************************************************************************)
(* The active integration of a Texecom alarm panel (texecomConnect.py), a  *)
(* process of its own.  Its main thread connects to the panel, logs in,    *)
(* asks for the panel's state and then waits for its messages; a scheduler *)
(* thread asks from time to time, over the same socket and with the same   *)
(* sequence numbers, without a lock; and each incident starts a timer that *)
(* reports it half a second later, with the zone that came with it.        *)
(*                                                                         *)
(* buffer.db shows only as whether a report has been stored.               *)
(***************************************************************************)
EXTENDS Integers, Sequences, FiniteSets

CONSTANTS TexecomZones,   (* zones of the panel, by number                   *)
          CMD_RETRIES,    (* what the code calls so                          *)
          BATTERY_HISTORY_LEN,
          Topics,         (* bounds of the model: what of the panel changes, *)
                          (* besides the way to it, one at a time,           *)
          MaxWire,        (* messages of the panel on their way,             *)
          MaxHappenings   (* in all: changes at the panel and of the way to  *)
                          (* it, jobs of the scheduler that ask the panel,   *)
                          (* ends of the process, answers lost, connections  *)
                          (* broken, rows and restarts refused               *)

ASSUME TexecomAssumption ==
    /\ TexecomZones \subseteq Nat \ {0} /\ TexecomZones # {}
    /\ CMD_RETRIES \in Nat \ {0} /\ BATTERY_HISTORY_LEN \in Nat \ {0}
    /\ Topics \subseteq {"incidents", "keys", "mains", "battery"}
    /\ MaxWire \in Nat \ {0} /\ MaxHappenings \in Nat

VARIABLES topic,          (* what of the panel changes                       *)
          panel,          (* the panel (see PanelState)                      *)
          events,         (* what it had to say of single events, by number  *)
          wire,           (* what it has sent and nobody has received        *)
          s,              (* self.s: none, open, or broken: the peer is gone *)
          active,         (* active_integration_texecom_bas                  *)
          texecom,        (* the container                                   *)
          at,             (* where the two threads stand                     *)
          call,           (* the command a thread waits for an answer to     *)
          evaluating,     (* how far it is in evaluate_battery_state         *)
          rows,           (* what it is about to report, in order            *)
          conn,           (* the fields of TexecomConnect (see FirstConn)    *)
          mem,            (* the globals of the module (see FirstMem)        *)
          connStat,       (* texecomConnStat.txt says 1                      *)
          told,           (* what ThingsBoard is told last                   *)
          toldEvents,     (* how often it is told of an event, and its zone  *)
          excused,        (* history: what was missed on the way, refused,   *)
                          (* overtaken, or known from a reading before       *)
          used            (* history: what MaxHappenings counts              *)

process      == <<at, call, evaluating, rows, conn, mem>>
heard        == <<told, toldEvents, excused>>
texecomVars  == <<topic, panel, events, wire, s, active, texecom, process,
                  connStat, heard, used>>

Threads == {"loop", "scheduler"}

(* A command in flight: what it asks, how often it may still be tried, and *)
(* the answer: none yet, "failed", or what it says.                        *)
Calls(c) == [of |-> c, tries |-> CMD_RETRIES, result |-> << >>]
NoCall == [of |-> "nothing", tries |-> 0, result |-> << >>]
failed == <<"failed">>

(* Numbers are not counted.  What has been asked last is << >> or a command *)
(* and whether its answer will be taken; the last message was received on  *)
(* this connection or on a former one.                                     *)
FirstConn == [last_command |-> << >>, last_received |-> "none"]

FirstMem ==
    [mains |-> "None", battery |-> "None", panel |-> "UNKNOWN",
     BATTERY_ALARM_ACTIVE |-> FALSE, BATTERY_CONFIRMED |-> FALSE, HISTORY |-> 0,
     PENDING_INCIDENT |-> 0, timers |-> 0, clearing |-> 0,
     EVENT_CONTEXT |-> {}, recent |-> FALSE,
     OMIT_CONTEXT |-> FALSE, POWER_STATE_SENT |-> FALSE, last_drift_alert |-> FALSE]

PanelState(accepts) ==
    [accepts |-> accepts, subscribed |-> FALSE, mains |-> "ON",
     unsaid |-> FALSE, battery |-> "fine", drift |-> FALSE]

Happens == used < MaxHappenings /\ used' = used + 1

-----------------------------------------------------------------------------
(* The panel.  A message is a tuple; an answer says whether it is one to   *)
(* the last question, and carries the voltages and the time measured.      *)

IsAnswer(m) == m[1] = "answer"
Reply(c, toLast) == <<"answer", c, toLast, [mains |-> panel.mains, battery |-> panel.battery, drift |-> panel.drift]>>

\* The log events by what message_handler makes of them (INCIDENT_EVENTS,
\* POWER_EVENTS, ZONE_TYPE_EVENTS); "unlisted" are those of no table, as Duress
\* Code Alarm, Keypad Fire or Panel Box Tamper, those of IGNORE_EVENTS, and
\* those of a group that their branch does not know.
LogEvents == {"incident", "mains", "battery", "direct", "omit", "bypass", "unlisted"}

Subject(m) ==
    IF m[1] \in {"mains", "battery"} THEN {<<m[1], 0>>}
    ELSE IF m[1] = "zone" THEN {} ELSE {<<"told", m[2]>>}

\* What is not told, if these frames are never received
Missing(frames) ==
    UNION { IF IsAnswer(frames[i]) THEN {} ELSE Subject(frames[i]) : i \in DOMAIN frames }

(* The panel sends the messages ms, to no one if nobody has asked for      *)
(* them.  What is heard now makes up for what has been missed before.      *)
Say(ms) ==
    IF s = "open" /\ panel.subscribed
    THEN /\ Len(wire) + Len(ms) <= MaxWire
         /\ wire' = wire \o ms
         /\ excused' = excused \ Missing(ms)
    ELSE excused' = excused \cup Missing(ms) /\ UNCHANGED wire

EventsSay(zone, ms) ==
    /\ Happens
    /\ events' = Append(events, zone)
    /\ toldEvents' = Append(toldEvents, [times |-> 0, zone |-> 0])
    /\ Say(ms)
    /\ UNCHANGED <<topic, panel, s, active, texecom, process, connStat, told>>

\* An incident: the event of its zone and the log event
Alarm(z) == topic = "incidents" /\ EventsSay(z, << <<"zone", z>>, <<"incident", Len(events) + 1>> >>)

\* A keyswitch, an arming, another power event; the omit key; a bypass; any other
KeyPressed ==
    /\ topic = "keys"
    /\ \E kind \in LogEvents \ {"incident", "mains", "battery"} :
          EventsSay(CHOOSE z \in TexecomZones : TRUE, << <<kind, Len(events) + 1>> >>)

ZoneMoves(z) ==
    /\ topic = "incidents" /\ Happens
    /\ Say(<< <<"zone", z>> >>)
    /\ UNCHANGED <<topic, panel, events, s, active, texecom, process, connStat, told, toldEvents>>

\* The voltage shows a failure of the mains before the panel says so.
MainsChange ==
    /\ topic = "mains" /\ ~panel.unsaid /\ Happens
    /\ panel' = [panel EXCEPT !.mains = IF @ = "ON" THEN "OFF" ELSE "ON", !.unsaid = TRUE]
    /\ UNCHANGED <<topic, events, wire, s, active, texecom, process, connStat, heard>>

MainsSaid ==
    /\ panel.unsaid
    /\ panel' = [panel EXCEPT !.unsaid = FALSE]
    /\ Say(<< <<"mains", panel.mains>> >>)
    /\ UNCHANGED <<topic, events, s, active, texecom, process, connStat, told, toldEvents, used>>

BatteryChange ==
    /\ topic = "battery" /\ Happens
    /\ panel' = [panel EXCEPT !.battery = IF @ = "fine" THEN "alarm" ELSE "fine"]
    /\ Say(<< <<"battery", panel'.battery>> >>)
    /\ UNCHANGED <<topic, events, s, active, texecom, process, connStat, told, toldEvents>>

ClockDrifts ==
    /\ topic = "keys" /\ Happens
    /\ panel' = [panel EXCEPT !.drift = ~ @]
    /\ UNCHANGED <<topic, events, wire, s, active, texecom, process, connStat, heard>>

\* The connection breaks; what is on its way may still arrive.
Cut ==
    /\ s' = IF s = "open" THEN "broken" ELSE s
    /\ wire' \in IF s = "open" THEN {wire, << >>} ELSE {wire}
    /\ excused' = IF wire' = wire THEN excused ELSE excused \cup Missing(wire)

LinkBreaks ==
    /\ s = "open" /\ Happens /\ Cut
    /\ panel' = [panel EXCEPT !.subscribed = FALSE]
    /\ UNCHANGED <<topic, events, active, texecom, process, connStat, told, toldEvents>>

\* It refuses connections, switched off or out of reach; or takes them again.
AcceptsChange ==
    /\ Happens
    /\ panel' = [panel EXCEPT !.accepts = ~ @, !.subscribed = FALSE]
    /\ IF panel.accepts THEN Cut ELSE UNCHANGED <<s, wire, excused>>
    /\ UNCHANGED <<topic, events, active, texecom, process, connStat, told, toldEvents>>

ThePanel ==
    \/ \E z \in TexecomZones : Alarm(z) \/ ZoneMoves(z)
    \/ KeyPressed \/ MainsChange \/ MainsSaid \/ BatteryChange \/ ClockDrifts
    \/ LinkBreaks \/ AcceptsChange

-----------------------------------------------------------------------------
(* The process ends and is started again: its memory is lost, with what it *)
(* was about to report.                                                    *)

Pending(m) == IF m.PENDING_INCIDENT = 0 THEN {} ELSE {<<"told", m.PENDING_INCIDENT>>}
About(row) ==
    IF row[1] = "event" THEN {<<"told", row[2]>>}
    ELSE IF row[1] = "initial" THEN {<<"mains", 0>>, <<"battery", 0>>} ELSE {<<row[1], 0>>}

Forgets ==
    /\ texecom' = "starting"
    /\ s' = "none" /\ wire' = << >>
    /\ panel' = [panel EXCEPT !.subscribed = FALSE]
    /\ at' = [loop |-> "connect", scheduler |-> "sleep"]
    /\ call' = [t \in Threads |-> NoCall]
    /\ evaluating' = [t \in Threads |-> "no"]
    /\ rows' = [t \in Threads |-> << >>]
    /\ conn' = FirstConn /\ mem' = FirstMem
    /\ excused' = excused \cup Missing(wire) \cup Pending(mem)
                          \cup UNION { UNION { About(rows[t][i]) : i \in DOMAIN rows[t] } : t \in Threads }


(* Docker kills it, or an error nobody catches does.                       *)
Death ==
    /\ texecom = "up" /\ Happens /\ Forgets
    /\ UNCHANGED <<topic, events, active, connStat, told, toldEvents>>

\* The LCD sets the flag and restarts the container, which may fail.
LcdTexecom ==
    /\ Happens
    /\ active' = ~ active
    /\ Forgets \/ UNCHANGED <<s, wire, panel, texecom, process, excused>>
    /\ UNCHANGED <<topic, events, connStat, told, toldEvents>>

\* Off, it exits cleanly and stays so.
TexecomStart ==
    /\ texecom = "starting"
    /\ texecom' = IF active THEN "up" ELSE "exited"
    /\ UNCHANGED <<topic, panel, events, wire, s, active, process, connStat, heard, used>>

-----------------------------------------------------------------------------
(* Commands.  The loop asks by its script, the scheduler for its two jobs. *)

\* "init" stands for the four commands of the initialization and the power
\* status that follows, of which those that matter here ask for the power; the
\* idle commands are taken by turns, and here in any order.
Commands == {"login", "events", "power", "date"}
Script == <<"login", "events", "init", "on", "time", "volt", "once", "listen">>

After(step) == Script[1 + CHOOSE i \in 1 .. Len(Script) - 1 : Script[i] = step]

Question(step) ==
    IF step \in {"init", "status", "volt", "once"} THEN "power" ELSE IF step = "time" THEN "date" ELSE step

IdleCommands == {"date", "power"}

Waits(t) == call[t].of # "nothing" /\ call[t].result = << >>
Receives(t) ==
    /\ texecom = "up" /\ rows[t] = << >>
    /\ Waits(t) \/ (t = "loop" /\ at[t] = "listen" /\ call[t] = NoCall)
Free(t) == texecom = "up" /\ rows[t] = << >> /\ call[t] = NoCall

\* The loop asks again if nothing has been asked for 30 seconds.
Asks(t, c) ==
    /\ Free(t)
    /\ IF at[t] = "listen"
       THEN c \in IdleCommands /\ \A u \in Threads : call[u] = NoCall
       ELSE at[t] \notin {"sleep", "connect", "on"} /\ c = Question(at[t])
    /\ ~ (at[t] = "once" /\ mem.POWER_STATE_SENT)

\* The answers under way are to earlier questions now.
Outdated == [i \in DOMAIN wire |-> IF IsAnswer(wire[i]) THEN [wire[i] EXCEPT ![3] = FALSE] ELSE wire[i]]

\* The panel may ignore what is sent too fast; so does one that has gone.
SendCommand(t) ==
    /\ \E c \in Commands :
          /\ Asks(t, c) /\ s # "none"
          /\ conn' = [conn EXCEPT !.last_command = <<c, TRUE>>]
          /\ call' = [call EXCEPT ![t] = Calls(c)]
          /\ \/ /\ s = "open"
                /\ wire' = Append(Outdated, Reply(c, TRUE))
                /\ panel' = [panel EXCEPT !.subscribed = @ \/ c = "events"]
                /\ UNCHANGED used
             \/ /\ IF s = "open" THEN Happens ELSE UNCHANGED used
                /\ wire' = Outdated
                /\ UNCHANGED panel
    /\ UNCHANGED <<topic, events, s, active, texecom, at, evaluating, rows, mem, connStat, heard>>

\* closesocket, by either thread
CloseSocket ==
    /\ s' = "none" /\ wire' = << >>
    /\ panel' = [panel EXCEPT !.subscribed = FALSE]
    /\ excused' = excused \cup Missing(wire)

(* The loop goes back to connect; only a session that has got its events   *)
(* was connected, and counts as lost.                                      *)
Reconnect ==
    /\ CloseSocket
    /\ at' = [at EXCEPT !["loop"] = "connect"]
    /\ call' = [call EXCEPT !["loop"] = NoCall]
    /\ evaluating' = [evaluating EXCEPT !["loop"] = "no"]
    /\ connStat' = (connStat /\ at["loop"] \in {"login", "events"})
    /\ UNCHANGED <<texecom, rows, mem>>

(* An error at the socket.  send_texecom_time_status and the scheduler's   *)
(* other job swallow it: the job ends, and the loop goes on.  Else the     *)
(* loop starts anew where it catches it, and ends the process elsewhere,   *)
(* once the timers have run out.                                           *)
Raise(t, numbers) ==
    /\ \/ /\ t = "scheduler" \/ at[t] = "time"
          /\ at' = [at EXCEPT ![t] = IF t = "loop" THEN After("time") ELSE "sleep"]
          /\ call' = [call EXCEPT ![t] = NoCall]
          /\ conn' = numbers
          /\ UNCHANGED <<panel, wire, s, texecom, evaluating, rows, mem, connStat, excused>>
       \/ /\ t = "loop" /\ at[t] \notin {"login", "events", "time", "volt", "once"}
          /\ Reconnect
          /\ conn' = numbers
       \/ /\ t = "loop" /\ at[t] \in {"login", "events", "volt", "once"}
          /\ mem.timers = 0 /\ mem.clearing = 0
          /\ Forgets /\ UNCHANGED connStat
    /\ UNCHANGED <<topic, events, active, told, toldEvents, used>>

SendFails(t) ==
    /\ s # "open" /\ \E c \in Commands : Asks(t, c)
    /\ Raise(t, [conn EXCEPT !.last_command = IF @ = << >> THEN @ ELSE <<@[1], FALSE>>])

\* The other thread has closed the socket.
Gone(t) ==
    /\ Receives(t) /\ s = "none"
    /\ Raise(t, conn)

-----------------------------------------------------------------------------
(* What is received, by whichever thread receives *)

received == <<topic, events, active, texecom, connStat, told, toldEvents>>

(* Two threads that read from one socket get parts of one frame: neither   *)
(* can use its part, and a command of theirs fails or waits on.            *)
Tear ==
    /\ \A t \in Threads : Receives(t)
    /\ s # "none" /\ wire # << >>
    /\ wire' = Tail(wire)
    /\ excused' = excused \cup Missing(<<Head(wire)>>)
    /\ \E some \in SUBSET {t \in Threads : Waits(t)} :
          call' = [t \in Threads |-> IF t \in some THEN [call[t] EXCEPT !.result = failed] ELSE call[t]]
    /\ UNCHANGED <<received, panel, s, at, evaluating, rows, conn, mem, used>>

\* One that answers something else is left; who waits for it waits on.
ReceiveAnswer(t) ==
    /\ Receives(t) /\ s # "none" /\ wire # << >> /\ IsAnswer(Head(wire))
    /\ wire' = Tail(wire)
    /\ LET m == Head(wire)
       IN  IF m[3] /\ Waits(t)
           THEN call' = [call EXCEPT ![t].result = IF m[2] = call[t].of THEN <<"ok", m[4]>> ELSE failed]
           ELSE UNCHANGED call
    /\ UNCHANGED <<received, panel, s, at, evaluating, rows, conn, mem, excused, used>>

(* CMD_TIMEOUT is over, though an answer may be under way: whatever has    *)
(* been asked last, by either thread, is asked again.                      *)
Timeout(t) ==
    /\ Receives(t) /\ Waits(t) /\ s # "none"
    /\ \/ wire = << >> /\ UNCHANGED used
       \/ wire # << >> /\ s = "open" /\ Happens
    /\ call' = [call EXCEPT ![t].tries = @ - 1, ![t].result = IF call[t].tries = 1 THEN failed ELSE @]
    /\ IF s = "open" /\ conn.last_command # << >>
       THEN /\ wire' = Append(wire, Reply(conn.last_command[1], conn.last_command[2]))
            /\ panel' = [panel EXCEPT !.subscribed = @ \/ conn.last_command[1] = "events"]
       ELSE UNCHANGED <<wire, panel>>
    /\ UNCHANGED <<received, s, at, evaluating, rows, conn, mem, excused>>

\* "Panel has closed connection"
Eof(t) ==
    /\ Receives(t) /\ s = "broken" /\ wire = << >>
    /\ IF Waits(t)
       THEN /\ CloseSocket
            /\ call' = [call EXCEPT ![t].result = failed]
            /\ UNCHANGED <<texecom, at, evaluating, rows, mem, connStat>>
       ELSE Reconnect
    /\ UNCHANGED <<topic, events, active, told, toldEvents, conn, used>>

-----------------------------------------------------------------------------
(* message_handler: what it does with each kind of message, m being what   *)
(* is left of the memory.  A result is the memory, the rows to be inserted *)
(* and what will not be told, or not with its zone.                        *)

Result(memory, reports, misses) == [mem |-> memory, rows |-> reports, misses |-> misses]

ZoneOf(n) == {<<"zone", n>>}
PendingZone(m) == IF m.PENDING_INCIDENT = 0 THEN {} ELSE ZoneOf(m.PENDING_INCIDENT)

ZoneEvent(m, z) ==
    Result([m EXCEPT !.EVENT_CONTEXT = @ \cup {z}, !.recent = TRUE], << >>,
           IF m.PENDING_INCIDENT # 0 /\ events[m.PENDING_INCIDENT] # z THEN PendingZone(m) ELSE {})

(* The second of two incidents takes the place of the first, and may be    *)
(* told by the timer of the first, or be cleared with it.                  *)
Incident(m, n) ==
    Result([m EXCEPT !.PENDING_INCIDENT = n, !.timers = @ + 1], << >>,
           (IF m.timers + m.clearing > 0 THEN Pending(m) \cup {<<"told", n>>} ELSE {})
             \cup (IF m.EVENT_CONTEXT = {events[n]} THEN {} ELSE ZoneOf(n)))

\* "AC Fail" and its restore: an edge against what is known
MainsEvent(m, state) ==
    IF m.mains = state
    THEN Result(m, << >>, IF told.mains = state THEN {} ELSE {<<"mains", 0>>})
    ELSE Result([m EXCEPT !.mains = state], << <<"mains", state>> >>, {})

\* A battery that is back is told once.  If it is known or told as low since,
\* from an older voltage or after a report that failed, it stays so.
BatteryEvent(m, state) ==
    IF state = "alarm"
    THEN Result([m EXCEPT !.BATTERY_ALARM_ACTIVE = TRUE, !.BATTERY_CONFIRMED = FALSE, !.HISTORY = 0],
                << >>, {})
    ELSE IF m.BATTERY_CONFIRMED
    THEN Result(m, << >>, IF m.battery = "ON" /\ told.battery = "ON" THEN {} ELSE {<<"battery", 0>>})
    ELSE Result([m EXCEPT !.battery = "ON", !.BATTERY_CONFIRMED = TRUE,
                          !.BATTERY_ALARM_ACTIVE = FALSE, !.HISTORY = 0],
                << <<"battery", "ON">> >>, {})

\* The omit key is told once until a bypass has been.
OmitKey(m, n) ==
    IF m.OMIT_CONTEXT THEN Result(m, << >>, {<<"told", n>>})
    ELSE Result([m EXCEPT !.OMIT_CONTEXT = TRUE], << <<"event", n>> >>, {})

Bypass(m, n) ==
    Result([m EXCEPT !.OMIT_CONTEXT = FALSE, !.EVENT_CONTEXT = @ \cup {events[n]}, !.recent = TRUE],
           << <<"event", n>> >>, {})

\* Received, acknowledged, and told to nobody
Unlisted(m, n) == Result(m, << >>, {<<"told", n>>})

MessageHandler(m, message) ==
    CASE message[1] = "zone"     -> ZoneEvent(m, message[2])
      [] message[1] = "incident" -> Incident(m, message[2])
      [] message[1] = "mains"    -> MainsEvent(m, message[2])
      [] message[1] = "battery"  -> BatteryEvent(m, message[2])
      [] message[1] = "direct"   -> Result(m, << <<"event", message[2]>> >>, {})
      [] message[1] = "omit"     -> OmitKey(m, message[2])
      [] message[1] = "bypass"   -> Bypass(m, message[2])
      [] message[1] = "unlisted" -> Unlisted(m, message[2])

\* "AUTO-CLEAR STALE CONTEXT"
FreshContext == IF mem.recent THEN mem ELSE [mem EXCEPT !.EVENT_CONTEXT = {}]

(* Mutant: a thread that waits for an answer drops the messages.           *)
ReceiveMessage_WhileWaiting(t) ==
    /\ Receives(t) /\ s # "none" /\ wire # << >> /\ ~ IsAnswer(Head(wire))
    /\ wire' = Tail(wire)
    /\ conn' = [conn EXCEPT !.last_received = "present"]
    /\ LET r == MessageHandler(FreshContext, Head(wire))
       IN  \/ /\ Waits(t) \/ conn.last_received = "former"
              /\ excused' = IF Waits(t) THEN excused ELSE excused \cup Missing(<<Head(wire)>>)
              /\ UNCHANGED <<mem, rows>>
           \/ /\ ~ Waits(t)
              /\ mem' = r.mem
              /\ rows' = [rows EXCEPT ![t] = r.rows]
              /\ excused' = excused \cup r.misses
                              \cup IF FreshContext = mem THEN {} ELSE PendingZone(mem)
    /\ UNCHANGED <<received, panel, s, at, call, evaluating, used>>

(* A message with the number of the last one is taken for its repetition,  *)
(* of whatever connection that was; one out of order is "processed anyway".*)
ReceiveMessage(t) ==
    /\ Receives(t) /\ s # "none" /\ wire # << >> /\ ~ IsAnswer(Head(wire))
    /\ wire' = Tail(wire)
    /\ conn' = [conn EXCEPT !.last_received = "present"]
    /\ LET r == MessageHandler(FreshContext, Head(wire))
       IN  \/ /\ conn.last_received = "former"
              /\ excused' = excused \cup Missing(<<Head(wire)>>)
              /\ UNCHANGED <<mem, rows>>
           \/ /\ mem' = r.mem
              /\ rows' = [rows EXCEPT ![t] = r.rows]
              /\ excused' = excused \cup r.misses
                              \cup IF FreshContext = mem THEN {} ELSE PendingZone(mem)
    /\ UNCHANGED <<received, panel, s, at, call, evaluating, used>>

\* Two seconds without a zone
TimePasses ==
    /\ mem.recent
    /\ mem' = [mem EXCEPT !.recent = FALSE]
    /\ UNCHANGED <<topic, panel, events, wire, s, active, texecom, at, call, evaluating, rows,
                   conn, connStat, heard, used>>

-----------------------------------------------------------------------------
(* finalize_incident, half a second after each incident: it reports what   *)
(* is pending then, whether or not the integration is on, and clears it.   *)

timer == <<topic, panel, events, wire, s, active, texecom, at, call, evaluating, rows, conn,
           connStat, told>>

Lowest(zones) == CHOOSE z \in zones : \A y \in zones : z <= y

FinalizeIncident ==
    /\ mem.timers > 0
    /\ LET n == mem.PENDING_INCIDENT
       IN  IF n = 0
           THEN mem' = [mem EXCEPT !.timers = @ - 1] /\ UNCHANGED <<toldEvents, excused, used>>
           ELSE /\ mem' = [mem EXCEPT !.timers = @ - 1, !.clearing = @ + 1]
                /\ \/ /\ toldEvents' = [toldEvents EXCEPT
                           ![n] = [times |-> @.times + 1,
                                   zone |-> IF mem.EVENT_CONTEXT = {} THEN 0 ELSE Lowest(mem.EVENT_CONTEXT)]]
                      /\ UNCHANGED <<excused, used>>
                   \/ /\ Happens
                      /\ excused' = excused \cup Pending(mem)
                      /\ UNCHANGED toldEvents
    /\ UNCHANGED timer

ClearEverything ==
    /\ mem.clearing > 0
    /\ mem' = [mem EXCEPT !.clearing = @ - 1, !.PENDING_INCIDENT = 0, !.EVENT_CONTEXT = {},
                          !.recent = FALSE]
    /\ UNCHANGED <<timer, toldEvents, excused, used>>

-----------------------------------------------------------------------------
(* evaluate_battery_state, with each answer about the power: after a low   *)
(* battery three voltages tell what it is.  The alarm may be over, and all *)
(* forgotten, between the third and the verdict.                           *)

evaluation == <<topic, panel, events, wire, s, active, texecom, at, call, conn, connStat, told,
                toldEvents, used>>

HasAnswer(t) == call[t].result # << >> /\ rows[t] = << >>
Evaluates(t) == call[t].of = "power" /\ call[t].result # failed

CollectVoltage(t) ==
    /\ HasAnswer(t) /\ Evaluates(t) /\ evaluating[t] = "no"
    /\ mem' = IF mem.BATTERY_ALARM_ACTIVE
              THEN [mem EXCEPT !.HISTORY = IF @ = BATTERY_HISTORY_LEN THEN @ ELSE @ + 1] ELSE mem
    /\ evaluating' = [evaluating EXCEPT ![t] =
                        IF mem.BATTERY_ALARM_ACTIVE /\ mem'.HISTORY = BATTERY_HISTORY_LEN
                        THEN "decide" ELSE "done"]
    /\ UNCHANGED <<evaluation, rows, excused>>

Verdict(t) ==
    /\ evaluating[t] = "decide"
    /\ evaluating' = [evaluating EXCEPT ![t] = "done"]
    /\ \/ UNCHANGED <<mem, rows, excused>>
       \/ \E state \in {"LOW", "DISCONNECTED"} :
             /\ mem' = [mem EXCEPT !.battery = state, !.BATTERY_ALARM_ACTIVE = FALSE]
             /\ rows' = [rows EXCEPT ![t] = << <<"battery", state>> >>]
             /\ excused' = IF mem.BATTERY_ALARM_ACTIVE THEN excused
                           ELSE excused \cup {<<"battery", 0>>}
    /\ UNCHANGED evaluation

-----------------------------------------------------------------------------
(* What the threads do with the answers *)

Proceeds(t) ==
    /\ HasAnswer(t)
    /\ Evaluates(t) => evaluating[t] = "done"
    /\ call' = [call EXCEPT ![t] = NoCall]
    /\ evaluating' = [evaluating EXCEPT ![t] = "no"]
    /\ UNCHANGED <<topic, events, active, texecom, told, toldEvents, used>>

Ok(t) == call[t].result # failed
Reading(t) == call[t].result[2]
Forgotten == conn' = [conn EXCEPT !.last_command = << >>]
sameSession == <<panel, wire, s>>
Goes(t, step) == at' = [at EXCEPT ![t] = step]

LoginAnswered ==
    /\ at["loop"] = "login" /\ Proceeds("loop") /\ Forgotten
    /\ IF Ok("loop") THEN /\ Goes("loop", "events") /\ connStat' = TRUE
                          /\ UNCHANGED <<sameSession, excused>>
       ELSE CloseSocket /\ Goes("loop", "connect") /\ UNCHANGED connStat
    /\ UNCHANGED <<rows, mem>>

EventsAnswered ==
    /\ at["loop"] = "events" /\ Proceeds("loop") /\ Forgotten
    /\ IF Ok("loop") THEN Goes("loop", "init") /\ UNCHANGED <<sameSession, excused>>
                     ELSE CloseSocket /\ Goes("loop", "connect")
    /\ UNCHANGED <<rows, mem, connStat>>

\* What these say is not followed here.
InitAnswered ==
    /\ at["loop"] = "init"
    /\ Proceeds("loop") /\ Forgotten
    /\ Goes("loop", After("init"))
    /\ UNCHANGED <<sameSession, rows, mem, connStat, excused>>

\* An idle command that fails costs the connection.
IdleAnswered ==
    /\ at["loop"] = "listen" /\ HasAnswer("loop")
    /\ Evaluates("loop") => evaluating["loop"] = "done"
    /\ Forgotten
    /\ IF Ok("loop")
       THEN /\ call' = [call EXCEPT !["loop"] = NoCall]
            /\ evaluating' = [evaluating EXCEPT !["loop"] = "no"]
            /\ UNCHANGED <<sameSession, texecom, at, rows, mem, connStat, excused>>
       ELSE Reconnect
    /\ UNCHANGED <<topic, events, active, told, toldEvents, used>>

\* send_texecom_time_status, by either thread
TimeAnswered(t) ==
    /\ at[t] = "time" /\ Proceeds(t) /\ Forgotten
    /\ Goes(t, IF t = "loop" THEN After("time") ELSE "sleep")
    /\ rows' = IF Ok(t) THEN [rows EXCEPT ![t] = << <<"drift", Reading(t).drift>> >>] ELSE rows
    /\ UNCHANGED <<sameSession, mem, connStat, excused>>

\* send_texecom_power_status of the scheduler
StatusAnswered ==
    /\ at["scheduler"] = "status" /\ Proceeds("scheduler") /\ Forgotten
    /\ Goes("scheduler", "sleep")
    /\ UNCHANGED <<sameSession, rows, mem, connStat, excused>>

Mains(t) == Reading(t).mains

(* init_power_state_from_voltage: what is known of mains and battery is    *)
(* replaced, without a report, by what may be older.                       *)
Replaced(t) ==
    IF mem.mains \in {"None", Mains(t)} THEN {} ELSE {<<"mains", 0>>}

VoltageAnswered ==
    /\ at["loop"] = "volt" /\ Proceeds("loop") /\ Forgotten
    /\ Goes("loop", "once")
    /\ IF ~ Ok("loop") THEN UNCHANGED <<mem, excused>>
       ELSE \E battery \in IF Reading("loop").battery = "fine" THEN {"ON"} ELSE {"ON", "LOW"} :
              /\ mem' = [mem EXCEPT !.mains = Mains("loop"), !.battery = battery]
              /\ excused' = excused \cup Replaced("loop")
                    \cup (IF battery = "LOW" /\ mem.BATTERY_CONFIRMED THEN {<<"battery", 0>>} ELSE {})
    /\ UNCHANGED <<sameSession, rows, connStat>>

\* send_texecom_power_state_once: once for each life of the process
PowerStateAnswered ==
    /\ at["loop"] = "once" /\ Proceeds("loop") /\ Forgotten
    /\ Goes("loop", "listen")
    /\ mem' = [mem EXCEPT !.mains = IF Ok("loop") THEN Mains("loop") ELSE @,
                          !.POWER_STATE_SENT = TRUE]
    /\ excused' = IF Ok("loop") THEN excused \cup Replaced("loop") ELSE excused
    /\ rows' = [rows EXCEPT !["loop"] = << <<"initial", mem'.mains, mem'.battery>> >>]
    /\ UNCHANGED <<sameSession, connStat>>

PowerStateKnown ==
    /\ at["loop"] = "once" /\ Free("loop") /\ mem.POWER_STATE_SENT
    /\ Goes("loop", "listen")
    /\ UNCHANGED <<topic, panel, events, wire, s, active, texecom, call, evaluating, rows,
                   conn, mem, connStat, heard, used>>

-----------------------------------------------------------------------------
(* What the threads do by themselves *)

Beat(state) == <<"beat", IF state = "ON" THEN "online" ELSE "LinkFail">>

doings == <<topic, events, active, texecom, call, evaluating, told, toldEvents, used>>

\* Whatever the commands of the initialization have found, the panel is on.
PanelOn ==
    /\ at["loop"] = "on" /\ Free("loop")
    /\ Goes("loop", After("on"))
    /\ mem' = [mem EXCEPT !.panel = "ON"]
    /\ rows' = [rows EXCEPT !["loop"] =
                  (IF mem.panel = "ON" THEN << >> ELSE << <<"panel", "ON">> >>) \o <<Beat("ON")>>]
    /\ UNCHANGED <<doings, sameSession, conn, connStat, excused>>

\* last_received_seq is that of the former connection.
PanelConnect ==
    /\ at["loop"] = "connect" /\ Free("loop") /\ panel.accepts
    /\ Goes("loop", "login")
    /\ s' = "open" /\ wire' = << >>
    /\ panel' = [panel EXCEPT !.subscribed = FALSE]
    /\ conn' = [conn EXCEPT !.last_received = IF @ = "none" THEN @ ELSE "former"]
    /\ UNCHANGED <<doings, rows, mem, connStat, excused>>

(* Mutant: the panel is not known to be off. *)
PanelRefuses_Silent ==
    /\ at["loop"] = "connect" /\ Free("loop") /\ ~ panel.accepts
    /\ connStat' = FALSE
    /\ UNCHANGED <<doings, sameSession, at, conn, rows, mem, excused>>

PanelRefuses ==
    /\ at["loop"] = "connect" /\ Free("loop") /\ ~ panel.accepts
    /\ mem' = [mem EXCEPT !.panel = "OFF"]
    /\ rows' = IF mem.panel = "OFF" THEN rows
               ELSE [rows EXCEPT !["loop"] = << <<"panel", "OFF">>, Beat("OFF") >>]
    /\ connStat' = FALSE
    /\ UNCHANGED <<doings, sameSession, at, conn, excused>>

\* The jobs of the scheduler: a heartbeat, or a question
Heartbeat ==
    /\ at["scheduler"] = "sleep" /\ Free("scheduler")
    /\ rows' = [rows EXCEPT !["scheduler"] = <<Beat(mem.panel)>>]
    /\ UNCHANGED <<doings, sameSession, at, conn, mem, connStat, excused>>

Job ==
    /\ at["scheduler"] = "sleep" /\ Free("scheduler") /\ Happens
    /\ \E job \in {"status", "time"} : Goes("scheduler", job)
    /\ UNCHANGED <<topic, panel, events, wire, s, active, texecom, call, evaluating, rows, conn,
                   mem, connStat, heard>>

(* insert_json_to_db of the next row: stored, refused, which nobody is     *)
(* told, or not even tried as the integration is off.  A report of mains   *)
(* or battery may have been overtaken by one of the other thread.          *)
Late(others, what, state) ==
    IF state = mem[what] THEN others \ {<<"late", what>>} ELSE others \cup {<<"late", what>>}

Stores(row) ==
    \/ /\ row[1] = "event"
       /\ toldEvents' = [toldEvents EXCEPT ![row[2]].times = @ + 1]
       /\ UNCHANGED <<told, excused>>
    \/ /\ row[1] = "initial"
       /\ told' = [told EXCEPT !.mains = row[2], !.battery = row[3]]
       /\ excused' = Late(Late(excused, "mains", row[2]), "battery", row[3])
       /\ UNCHANGED toldEvents
    \/ /\ row[1] = "drift" /\ row[2] /\ mem.last_drift_alert
       /\ UNCHANGED <<told, toldEvents, excused>>
    \/ /\ row[1] \in {"panel", "beat", "mains", "battery", "drift"}
       /\ ~ (row[1] = "drift" /\ row[2] /\ mem.last_drift_alert)
       /\ told' = [told EXCEPT ![row[1]] = row[2]]
       /\ excused' = IF row[1] \in {"mains", "battery"} THEN Late(excused, row[1], row[2])
                     ELSE excused \ About(row)
       /\ UNCHANGED toldEvents

Insert(t) ==
    /\ rows[t] # << >>
    /\ rows' = [rows EXCEPT ![t] = Tail(@)]
    /\ LET row == Head(rows[t])
       IN  /\ mem' = IF row[1] = "drift" THEN [mem EXCEPT !.last_drift_alert = row[2]] ELSE mem
           /\ \/ active /\ Stores(row) /\ UNCHANGED used
              \/ /\ excused' = excused \cup About(row)
                 /\ IF active THEN Happens ELSE UNCHANGED used
                 /\ UNCHANGED <<told, toldEvents>>
    /\ UNCHANGED <<topic, panel, events, wire, s, active, texecom, at, call, evaluating, conn,
                   connStat>>

-----------------------------------------------------------------------------
TexecomInit ==
    /\ topic \in Topics
    /\ \E accepts \in BOOLEAN : panel = PanelState(accepts)
    /\ events = << >> /\ wire = << >> /\ s = "none"
    /\ active \in BOOLEAN
    /\ texecom = "starting"
    /\ at = [loop |-> "connect", scheduler |-> "sleep"]
    /\ call = [t \in Threads |-> NoCall]
    /\ evaluating = [t \in Threads |-> "no"]
    /\ rows = [t \in Threads |-> << >>]
    /\ conn = FirstConn /\ mem = FirstMem
    /\ connStat = FALSE
    /\ told = [panel |-> "none", beat |-> "none", mains |-> "None", battery |-> "None",
               drift |-> FALSE]
    /\ toldEvents = << >> /\ excused = {}
    /\ used = 0

ThreadStep(t) ==
    \/ SendCommand(t) \/ SendFails(t) \/ Gone(t) \/ ReceiveAnswer(t) \/ ReceiveMessage(t)
    \/ Timeout(t) \/ Eof(t) \/ CollectVoltage(t) \/ Verdict(t) \/ TimeAnswered(t) \/ Insert(t)

EventLoop ==
    \/ ThreadStep("loop") \/ PanelConnect \/ PanelRefuses \/ PanelOn
    \/ LoginAnswered \/ EventsAnswered \/ InitAnswered \/ VoltageAnswered
    \/ PowerStateAnswered \/ PowerStateKnown \/ IdleAnswered

SchedulerLoop == ThreadStep("scheduler") \/ Heartbeat \/ Job \/ StatusAnswered

Timers == FinalizeIncident \/ ClearEverything

TexecomNext ==
    \/ ThePanel \/ EventLoop \/ SchedulerLoop \/ Tear \/ Timers \/ TimePasses
    \/ Death \/ LcdTexecom \/ TexecomStart

(* The threads go on while the process lives, timers fire, and compose     *)
(* restarts what has been stopped, which is when no thread is there to go  *)
(* on.  The panel and the user need not act.                               *)
TexecomFairness ==
    /\ WF_texecomVars(EventLoop \/ TexecomStart) /\ WF_texecomVars(SchedulerLoop)
    /\ WF_texecomVars(Timers)

TexecomSpec == TexecomInit /\ [][TexecomNext]_texecomVars /\ TexecomFairness

-----------------------------------------------------------------------------
Idle ==
    /\ texecom = "up" /\ wire = << >> /\ ~ panel.unsaid
    /\ mem.timers = 0 /\ mem.clearing = 0
    /\ \A t \in Threads : Free(t)

(* When nothing is under way, what the panel has said has been told: each  *)
(* event that message_handler has a branch for, once, and an incident with *)
(* its zone, the mains as they are, a low or missing battery no longer     *)
(* once it is back, a drift of its clock; except what was not received,    *)
(* not stored, overtaken, had been read from the voltages before, or is    *)
(* Unlisted: the events of no table fall through the handler untold        *)
(* (message_handler, finalize_incident).                                   *)
PanelEventsAreTold ==
    Idle =>
      /\ \A n \in DOMAIN events : <<"told", n>> \notin excused =>
            /\ toldEvents[n].times = 1
            /\ topic = "incidents" /\ <<"zone", n>> \notin excused => toldEvents[n].zone = events[n]
      /\ excused \cap {<<"mains", 0>>, <<"late", "mains">>} # {} \/ told.mains \in {"None", panel.mains}
      /\ \/ excused \cap {<<"battery", 0>>, <<"late", "battery">>} # {} \/ panel.battery = "alarm"
         \/ told.battery \notin {"LOW", "DISCONNECTED"}
      /\ mem.last_drift_alert => told.drift \/ <<"drift", 0>> \in excused

(* If the panel can be reached for good, the heartbeat says online and the *)
(* file texecomConnStat.txt, from which the core takes the state of the    *)
(* link, says 1; if it cannot, LinkFail and 0 (event_loop,                 *)
(* send_texecom_heartbeat).                                                *)
HeartbeatIsTrue ==
    <>[](active /\ texecom # "exited") /\ <>[][UNCHANGED panel.accepts]_texecomVars
      => <>[](/\ connStat = panel.accepts
              /\ told.beat = IF panel.accepts THEN "online" ELSE "LinkFail")
=============================================================================
