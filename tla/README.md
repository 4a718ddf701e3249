# Dexter edge agent: a TLA+ verification project

This directory models the core of the Dexter edge agent (`src/Test3/`), the program of an alarm
communicator: a Raspberry Pi that supervises wired zones and networked alarm panels at a site and
reports to ThingsBoard over ethernet or, if that fails, over a GSM modem. The modules are
translated from the Python code; where a document or a comment of the repository says something
else, the model follows the code and the difference is listed under *Disagreements* below.

File names without a directory are in `src/Test3/`; `main` is `TLChronosProMAIN_391.py`.

## 1. The system

Several processes run side by side, each in its container (`docker-compose.yml`), and share a few
SQLite files and nothing else.

```
 zone inputs, keypad ----> dexter-core (main) ---- buffer.db <---- amc, texecom, hikvision, ...
                              |   msg_queue_buffer (memory)             |
                              v                                         v
                         payloads.db  <---------------------------------+
                              |  get_next / mark_as_sent
             +----------------+----------------+
             v                                 v
     dexter-mqtt (paho, eth0)       SerialCommunication.py (GSM modem)
             |      network_type decides       |
             +----------> ThingsBoard <--------+
```

`network_type`, a cell of `modem_parameters.db`, says which of the two senders sends. The core's
boot, its failover monitor, the LCD menu and the web page write it; the publisher reads it once,
when it starts; the modem program reads it before each payload.

### Inventory

For each component: its state, its operations, whom it talks to, what is hard about it, and what
makes it correct.

| component | state | operations and interactions | hard | correct when |
|---|---|---|---|---|
| payload queue (`payload_manager.py`, `database_handler.py`) | table `json_data` of `payloads.db` | `insert_with_cap` from several processes, `get_pending`, `mark_as_sent`, the restart's `startup_cleanup` and `startup_purge` | the lock orders threads, not processes; every statement is a transaction of its own | the cap holds, the oldest of a class is evicted, rows are sent oldest first, zone events survive restarts |
| failover control plane (`main` 21205-21361, 22286-22300; `webserver/seple.py`) | `network_type` in the database and as a global, `_failover_gsm_active`, the stability counter, the container dexter-mqtt | a poll every few seconds, a boot decision, two user interfaces, a docker restart | four writers of one cell, flapping links, restarts that forget | flags and database agree, some sender runs, the device fails over and back, not too early |
| MQTT publisher (`thingsboard_mqtt_publisher.py`) | the row in hand, the connection | reads the head, publishes, marks; restarted by others | crash or restart between publish and mark, lost answers | nothing lost, order kept, copies only where an answer was lost |
| modem program (`SerialCommunication.py`, `refreshcode.py`, `updatecode.py`, `webdone.py`, `net_*.py`) | the state of its loop and the event it fires, the row in hand, the serial port and who has it, the MQTT session, `config_snapshot.json` and the flag `send_needed` | reads `network_type`, the head, `network_type` again, publishes by AT commands, marks; polls the attribute `care` of ThingsBoard; lends the port to pppd to send or fetch the configuration, to reboot, to be debugged | the two reads race with the monitor; exceptions at any call; a snapshot saved before the send; a port with two users; orders that stand until they are taken back | as above; every edit reaches ThingsBoard, the port comes back, one reboot for one order |
| core pipeline (`buffer_manager.py`, `msg_queue_buffer` in `main`) | `buffer.db`, a list in memory | insert with a cap, consume, add, drain into `payloads.db` | threads without a lock on the list, overflow during the drain, crash | each event is handed over once and in order, or is given up by a named cause |
| zone supervision (`main` 2033-6955) | last value of each of 64 inputs, alarms, zone settings and their two files, `setup_mode`, `reset_to_default` | initial scan, one position per loop, `generateReportMsg`, relays, lamps, the buzzer, LCD settings menus, `resetToDefault`, device counter and heartbeat bursts | edge-triggered scan under settings that change, reports dropped in setup mode, crashes in a file write or a reset, long lists of cases that must fit one another, one buzzer for all | alarms and reports follow the inputs, what is reported is what the screens say, a reset is whole, bursts are truthful |
| panel state machine (`main` `progMainStateMachine`, `keypadScanning`, 47 menus between 7027 and 20600) | a dozen global states, one for each level of nesting, shared by all menus; the key scanners' text and cursor; the settings they edit; a ten-minute timer | keypad, `exitMenuAuto`, `tickTimer`; writes the network mode and the modem settings, calls the reboot | every menu finds in the shared states what the last one left, keys are read by whatever function runs | the function that runs is that of the menu opened, a setting is stored with its own text, the network is set up as confirmed, a menu left alone is left |
| power and battery (`main` 6604-6670, `panel_utils.py`) | mains and battery flags, counters | `digitalInput`, `checkLithiumIonBatteryVoltage` | debouncing, one-shot reports | each change is reported once |
| heartbeat, location, IMEI managers (`heartbeat_manager.py`, `location_manager.py`, `imei_manager.py`) | timers, retry counters, a confirmed position; the row of `cavliRunningParam.db`, which the modem program writes | threads that read the row and add payloads to `msg_queue_buffer` | timers that schedule each other, columns that two programs write and read one by one, restarts of either | a confirmed position is one the receiver found, position and IMEI are told in the end |
| watchdog, relay, reboot limits (`watchdog_manager.py`) | counters, phases of RELAY_1 | non-blocking power cycle | state that a restart forgets | a stuck modem is cycled, not for ever |
| AMC integration (`amc_integration.py`) | the panels with `online` and `last_seen`, the keys of active alarms, one thread for each connection, a supervision thread | receives and acknowledges frames, writes both databases; the LCD sets its flag and restarts its container | acknowledgement before processing, frames sent again or overtaken on another connection, keys lost at a restart, a supervision thread that can die | an alarm is reported once for each activation, the last report of a point is true, silence is reported |
| Hikvision BAS integration (`hikvision_bas_integration.py`) | what has been reported: `_zone_area_map`, `_active_faults`, `_STATUS_CACHE`, `_panel_was_online`; the gates; an HTTP event stream | three threads read the stream, supervise, poll the status; each reports changes only; the LCD sets its flag and restarts its container | polls that fail, restores that come too early, two threads that report the link, each memory changed before its insert | what is taken for reported has been, and what was reported last is true |
| Texecom integration (`texecomConnect.py`) | one socket with its sequence numbers, the last message's number, the pending incident, the memories of mains, battery and arming, a file that says "connected" | an event loop logs in and listens, a scheduler asks for the state over the same socket, timers tell an incident half a second later; the LCD sets its flag and restarts its container | two threads that read one socket without a lock, an incident and its zone in two messages, edges remembered before the insert, a process that ends on an exception | each event of the panel is told once and of its zone, keys, mains and battery are told as they are, the heartbeat says whether anybody is connected |
| other active integration (DSC Neo) | session | panel protocol over TCP; writes both databases | acknowledgement, reconnect, duplicates | each panel event is acknowledged once and queued |
| NVR, DVR, SD-card, RTC, log pollers | last status of each device | HTTP polling | change detection over failures | each change is reported once |
| circuit breaker, rate limiter | windows, states | called by pollers, OTA | clocks | opens and closes as configured |
| RPi task manager | `task_manager.db` | takes commands and marks them | crash between the two | a command runs at most once |
| OTA, backup, restore | version flags, archives | update, verify, roll back over a reboot | power loss at any step | one bootable version remains |
| web server (`seple.py`) | sessions, configuration tables | forms | `POST /connectivity_settings` acts on the failover | see failover |
| migrations, provisioning, network configuration, loggers, drivers, installers | - | one-shot or pure I/O | - | - |

`PROJECT.json` lists the same components with their status, and under `hazards` the lines where
each difficulty bites, with the property that covers it or the reason why none does.

## 2. Plan

Written so far, in this order, the most important behaviour first:

1. `BoundedBacklog`, `PayloadQueue`: the queue and what it promises (its theorems are in `AmcIntegrationProofs`).
2. `Failover`, `FailoverProofs`: who may send (`FailoverProofs` has the theorems of `ModemProgram` too).
3. `Delivery` (extends `Failover`: the senders over the control plane), `DeliveryProofs`.
4. `CorePipeline`, `CorePipelineProofs`: from an event to a row of the queue.
5. `ZoneSupervision`, `ZoneSupervisionProofs`: from an input to an event.
6. `Panel`, `PanelProofs`: the technician's keys, from the idle display through every menu and back.
7. `ModemProgram` (extends `Failover`): the loop of the modem program, its commands and the
   configuration sync.
8. `AmcIntegration`, `AmcIntegrationProofs` (extends `PayloadQueue`): an alarm panel on the network.
9. `HikvisionIntegration`, `BasIntegrationProofs`: one that is asked over HTTP.
10. `ZonePanel`, `ZonePanelProofs`: each of the wired inputs with its tables, from the terminal to the
    report, the lamps and the buzzer.
11. `TexecomIntegration`: one that is logged in to, and that two threads ask over one socket (its theorems are
    in `BasIntegrationProofs` too).
12. `LocationManager` (extends `CorePipeline`; its theorems are in `CorePipelineProofs`): the timers that tell
    the position and the IMEI that the modem program finds.

Next:

13. Periodic heartbeats and the 3-phase relay cycle, small sequential timers, beside `LocationManager`.
14. Power and battery supervision join `ZoneSupervision`'s loop.
15. *Update*: OTA, verification and rollback over reboots.
16. Composition of `CorePipeline` and `PayloadQueue`: every event handed over is a row.

Abstract specifications worth stating: the bounded backlog (done); an at-least-once ordered
channel that `Delivery` implements while the core is not restarted; a FIFO with named losses that
`CorePipeline` implements. Theorems worth proving next: that these two are
implemented.

## 3. Modules and code

**BoundedBacklog** is the abstract promise of the queue: waiting payloads of three kinds, handed over oldest first, and
writers that may each `Look` whether there is room. Only one that has found none may drop a payload, and one only: a heartbeat
of the `Window` oldest payloads, older than every other heartbeat, or, after it has seen that there is none in the window
(`FindNoHeartbeat`), the oldest payload. `limit` says how many may wait once it has added its own: the cap, or as many as it
has counted if these were more, and one more for each payload that another writer has added since. For one writer that is the
cap; for several the code promises no more (section 6).

**PayloadQueue**: `rows` is the table, `nextId` its AUTOINCREMENT. `insert_with_cap` is five
actions, one per transaction (`InsertBegin` the COUNT, `ScanHeartbeats` and `ScanOldest` the two
SELECTs, `Evict` the DELETE, `InsertRow` the INSERT), with `InsertAborted` for the `except` that
swallows errors; `pc`, `arg`, `victim` are its locals, per process, and `limit` is a history variable that only `BoundedBacklog` needs. `GetPending`, `MarkAsSent` and
`GiveUp` are a sender; `CleanupSelect/Update` and `PurgeSelect/Delete` the two restarts. Payloads
are their class: heartbeat, zone event, other.

**Failover**: `dbNet` is the cell, `network_type` the core's global, `active` is
`_failover_gsm_active`; the boot is read, check, override, start; `MonitorPoll` is one round of
`_run_failover_monitor`, and `MonitorDbGsm`, `MonitorDbEthernet` and `MonitorRestartMqtt` the
writes and the docker call it decides on. `mqtt` is the container, `MqttStart` its single read.
`LcdToggle` and `WebSet`/`WebRestart` are the users.

**Delivery** adds payloads `1 .. N` and the two senders, each read and each call a step:
`SerialCheck` and `SerialRecheck` are the two reads of `network_type`. `delivered` counts what
ThingsBoard received. `MqttMark` and `MqttMarkFails` are the two answers of `mark_as_sent`, of which the publisher takes no notice.
`ControlStep` is any step of `Failover`.

**CorePipeline**: `rows` is `buffer.db`, `buffer` is `msg_queue_buffer` with its tokens and ids;
`AddLen`, `AddPop`, `AddAppend`, `AddCount` are the four statements of `add`, run by several
threads at once; `DrainPeek`, `DrainRun`, `DrainFirst`, `DrainRemove` those of the drain.

**ZoneSupervision**: `input` are the lines, `hist` the variables `mux1_x0` ... with -1 for unseen,
`alarm` the arrays `zoneIsActive`, `zoneIsFault` ... with their types. `pc` walks through the boot
(`Boot`, `ResetZones` ... `ResetFlag`, `InitScan`, `Start`) and round the main loop (a key or
`NoKey`, `Scan`, `Display`). `settings` is what the scanners use, `saved` the two files, `torn` the
one that `open(..., "w")` has emptied and nobody has filled yet. `counter` is
`PowerZoneActiveDeviceCounter`, `Connected` what a heartbeat burst names. `told`, `touched`,
`resetting` and `atBoot` are history variables that only properties read.

**Panel**: `st` are the navigation globals, one slot for each level (`progMainMenuState`,
`menuSubState`, ...), which the menus share: what one leaves in a slot, the next one finds. The
tables (`Menu(slot, last, opens, exit)`) say for each menu which slot it turns through, where it
wraps, what each entry opens and which entry is EXIT; `Active` is the function that the nested
`if`s of the main loop reach for a given `st`, and the history `shown`, what the display last
announced. A step is one pass of the main loop with the key that the scanner delivers in it and with
the call of `exitMenuAuto` at its end (`EndPass`): keys turn (`KeyDOrUp`), open (`OpenMenu`), leave
(`LeaveMenu`, `LeaveAndReboot`), change a setting or the board (`ChangeModem`, `Provision`, `PowerCommand`, `ResetToDefault`) or walk
(`Walk`). The screens that hold texts are tables as well: `Screens` gives for each screen of the fourteen menus with a text
entry (`LanAddress` ... `SolText`) what it makes of `clearKey`, which cells of which buffer it empties on the
way in, where it puts the cursor and what it does with the keys (type, store, ask for a password); `Entered`, `Pressed` and
`Stored` are those three parts of a pass, with the four key scanners of the file, and `LanPass` and `EntryPass` are the passes. `text` holds the
three buffers that the menus share, cell by cell with the setting it was typed for, `keyPos` the
cursor, `TypePastTheEnd` the index it runs over. `tick10Min` is the counter that `TickTimer` moves,
`chnageInProgramParam` the promise of a reboot, `asked` and `mixed` which text is whose. The zone
tables have 2 and 1 screens for 48 and 24, texts 2 characters for 16.

**ModemProgram** adds the modem program to `Failover`. `state` and `event` are the object in
`context.state` and the event that the main loop fires next; `Awaits`, `Successor` and `AfterEvent` are
the tables of the `on_event` methods and of the loop, `Ignore` a state that returns itself, `PortRaises` the
`except` that every state ends in. `Initialize`, `CheckNetwork`, `SendRow`, `Poll`, `Recheck`, `SetUp` and
`LeaveErrorState` are what the states do; `AskModem` is a question over the port that may raise, `CheckMqttStatus` and
`ConnectToServer` are the session that a row is sent over, which a connect that fails may leave up or down. `cmd` and `step` are the command that `handle_message` carries out
and how far it is: `Read` compares the snapshots and reads `network_type` once, `Pon` and `Poff` lend the port
(`ppp`), `Net` is `wait_for_network`, `ReadConfig` and `Publish` are `send_dexter_config`, `Fetch` is
`updatecode.py`, `Acknowledge` sets `care` back to "done", `Reboot` is the end of `net_reboot.py`. `config`,
`snapshot`, `payload` and `cloud` are versions of the files and databases that the snapshot covers:
what is on the disk, what was recorded as sent, what is in hand, what arrived. `Kill` is a restart by the software
watchdog or after the relay. The rest of the control plane shows only as `network_type`, which `Edit`
writes as the core, the LCD and the page do; a device without a modem (`fitted`) runs all of `Failover`.

**AmcIntegration** models the device with an AMC panel. `zone` and `outbox` are the panel: what is in alarm,
and the frames not yet acknowledged, which `Change`, `Repeat` and `Test` add. `Receive` is a line taken by
`handle_client` and acknowledged (the panel keeps it if the acknowledgement is lost); per connection, `at` and
`frame` say how far it is: `Update` is `process_raw` under the lock, then `dexter_event_hook` either suppresses
the frame (`Suppress`), or goes on with the key added or cleared (`PassAlarm`, `PassOther`) to `Store` or
`StoreFails`. `Supervise` is one round of the supervision thread that finds the panel silent, in its three
outcomes; `Null` the heartbeat of the panel. `Crash`, `LcdToggles` and `Start` are the container with its flag.
`keys` are `_active_alarm_keys`, `known`, `online` and `silent` the entry of `_panels`. `last` and `told` are what ThingsBoard hears last
of a point and of the panel; `order`, `wrong`, `missed` and `due` are history variables that name which
reports were lost or crossed. On a device without a panel the module runs `PayloadQueue`.

**HikvisionIntegration** has no queue of its own: a report is `Stored` or `Lost`. `alarming`, `faulty`,
`condition` and `reachable` are the panel, `stream` the events on their way; per instance `subject` says which of zones, fault
and status changes besides `reachable`, since they share nothing but the process and the flag. `streamAt`, `superAt` and `statusAt` say
where the three threads stand, between the change of a memory and its report. `Connect`, `ConnectFails`,
`Break` and `SuperPolls` are the calls of `dexter_state_hook`, `StreamReports` and `SuperReports` its reports;
`ReadActive` the poll after an alarm event, `ReportAlarm` and `PassOver` its zones; `ReadInactive` a restore event, `StillAlarming` and
`ReportRestore` the look at each zone of the map. `PollFaults` and `ReportFault`, `PollStatus` and `ReportStatus` find and
report a change. `gates` holds what was done less than a second, three seconds, ten minutes ago; `Pass` opens
a gate. `zoneTold`, `faultTold`, `statusTold` and `linkTold` are what ThingsBoard hears last; `dropped`, `unheard` and
`crossed` are history variables that name what was lost on the way.

**TexecomIntegration** has one connection, `s` (`self.s`), and one message queue on it, `wire`, from which whichever thread reads
takes the next. `panel` is the panel and `events` the single events it had to tell of, by number; `topic` says which of
incidents, keys, mains and battery changes besides the way to it, since they share the connection and nothing else. `at` says where the two
threads stand: the loop in `Script`, the scheduler idle or asking. `SendCommand`, `ReceiveAnswer`, `ReceiveMessage`, `Tear`, `Timeout` and
`Eof` are the turns of `sendcommand` and `recvresponse`, in either thread, and `Raise` their exceptions, which end the loop's process
or only the scheduler's job; `MessageHandler` is the dispatch of a message to the handlers, which change `mem` at once and leave in `rows` what they
report; `Insert` stores it. `LoginAnswered` ... `PowerStateKnown` are what each answer does, `CollectVoltage` and `Verdict`
`evaluate_battery_state`, `FinalizeIncident` and `ClearEverything` the timers, `TimePasses` the two seconds for which a zone's message counts.
`PanelConnect`, `PanelRefuses`, `Heartbeat`, `Job`, `TexecomStart`, `LcdTexecom` and `Death` are the rest of the process and its container. `told`
and `toldEvents` are what ThingsBoard hears; `excused` names what was missed, refused or overtaken.

**LocationManager** has on one side the modem program as far as it writes `cavli`, the row of `cavliRunningParam.db`: `modem.next` is the
column that it writes next and `modem.fix` the position in hand, `WriteLatitude`, `WriteLongitude` and `WriteIMEI` are a transaction each, of the
defaults at its start and of what the receiver answered (`GetLatLong`) later. On the other side are the timers of the core: `location` has the
globals `_state`, `_startup_attempt`, `_lat` and `_lon`, `chain` the callback that the one timer waits for or that runs, and what it has read.
`StartManagers`, `FetchLatitude`, `FetchLongitude`, `Confirm`, `StartupRetryFails`, `LongRetryFails` and `ScheduledSend` are
`location_manager.py`, `SendIMEI` is `imei_manager.py`; `RestartModem` and `RestartCore` end either program anywhere. A value of a column is
the position it comes from, so that halves of two positions can be told apart. `toldWhere` and `toldIMEI` are what was added
to the list last; `mixed`, `torn` and `missed` are history variables that say whether the two writes lie apart,
whether the retry read while they did, and whether the last send failed. Position, IMEI and
pipeline share nothing but the restarts; `follows` says which of them an instance is about, and the steps of `CorePipeline` are taken unchanged.

**ZonePanel** follows one of the 47 inputs, `line`, through what the code spells out for each of them, and some of it
twice: the tables `InitScan` and `Scan` say which kind of alarm of which zone a position of a multiplexer is, and which cells of
the settings it looks at, `InitScanTypes` and `ScanTypes` (and those of the power zones) which code of a
zone's third cell names which device, `Zone1` ... `PowerZone8` which cells the screens of a zone write
and which codes they offer, `SystemReports` and `CameraReports` what `generateReportMsg` sends, `WriteZones`, `ReadZones`
the rows of the two files, `FaultLamps` ... `MainsLamp` what `outputShiftRegLEDDisplay` lights. `ZoneChanged` and
`OtherChanged` are the body that the code repeats for each input; `Boot` is the initial scan, `Turn` one pass of the main loop with the
display and the buzzer (`Buzz`), `MenuEnter`, `MenuEdit`, `MenuExit` and `MenuAbandon` the settings menus. `chosen`
and `kept` are what the screens of the zone say and said when last saved; `seen`, `told` and `called` are history
variables. The order of the stages, the reset and the torn files are those of `ZoneSupervision`, for any tables.

Mutants (`X_Suffix`, before `X`) are plausible bugs of the definition they stand before; each
property is shown to fail for one of them, so that no property holds by the shape of the model.

## 4. Runs

| run | what it asks | size |
|---|---|---|
| `PayloadQueue_single` | two writing processes, two senders, more rows than the scan window: does the queue implement `BoundedBacklog`, send oldest first, and keep its zone events over restarts? On a device with an AMC panel: is an alarm reported once for each activation, is the last report of a point true in the end, is lasting silence reported? | 1.85M states, depth 47 |
| `Failover_faults` | databases and docker that fail, users everywhere: no early switch-back; on a device with a modem, failing calls, lost answers, restarts, edits and orders anywhere: is the port put down, are reboots paid for, does every edit reach ThingsBoard? | 1.10M, depth 71 |
| `Failover_modeb` | ethernet device with a user at the web page: agreement, a sender, failover, return, the user's choice | 6k |
| `Failover_boot_override` | violation: a boot that leaves no sender | - |
| `Delivery_senders` | both senders with lost answers, marks that fail, refusals, crashes, a payload that is no JSON: `LossBounded`, `CopiesPaidFor`, `FirstInOrder`, `EventuallySent` | 571k |
| `CorePipeline_threads` | two integrations, the main loop, a timer: handed in order and at most once, drained; losses bounded by their causes. Two positions, failing databases, restarts of core and modem program: is a confirmed position one that was found, are position and IMEI told in the end? | 504k |
| `ZoneSupervision_panel` | an alarm line, two devices of one type, a technician, a crash anywhere: four properties of the supervision | 1.28M |
| `ZonePanel_inputs` | each of the 47 inputs with its zone and the next, edits, menus left without EXIT, the setup mode, a restart anywhere: is each change reported as what the screens said, do lamps and relays show it, does the buzzer answer an alarm and end? | 1.17M |
| `ZonePanel_zone13` | violation: zone 13 as an integrated alarm system, which its screen offers, reports nothing | - |
| `HikvisionIntegration_panel` | polls that fail, broken connections, restores within the gate of another, both orders of the threads, a crash, a toggle: has what is taken for reported been reported, is what was reported last true in the end, is a panel that answers online? | 663k, depth 36 |
| `TexecomIntegration_panel` | two threads on one socket, answers lost, torn or taken by the other, broken connections, restarts: is each event that has a branch told once and of its zone, are keys, mains and battery told as they are in the end, is the heartbeat true? | 1.90M, depth 88 |
| `Panel_menus` | every menu, any keys, time-outs anywhere, restarts: is the function that runs that of the menu, are texts stored as their own, is the network set up as confirmed, are menus left? | 1.17M, depth 177 |

**Bounds.** Each is the least at which the interesting case occurs, with room for one more.
`MAX_PENDING = 2` and `MaxRows = 3` fill the queue and evict from it. `MaxBusy = 3` bounds the inserts, sends and restarts that
have begun and not ended: both writers may have found the queue full, and choose and delete while a sender or a restart has a
row in hand, or one writer while two others do. That both insert after both have evicted would take a fourth row; this is
covered by the proof, which has no bounds, and not by the run.
`ScanLimit = 1` puts rows beyond the window of the heartbeat scan, which is 50 in the code.
`StableThreshold` 2 or 3 lets a flap fall inside the count; two crashes of the core and of the
publisher interrupt a failover and its repetition. Three payloads show an order with a broken one
behind; `MaxReturns`, `MaxRefusals`, `MaxFailures` of 1 are one cause of each kind of loss, and the
bounds are proved for any number where they are listed below. `MAX_BUFFER_ROWS = 1` and a list of
size 2 overflow at once. In `ZoneSupervision`, two positions of the multiplexer are enough to have
a line before and after another, two devices of one type make the counter meet its floor and its
start at 1, three keys enter a menu, edit and leave it, and one restart falls at every stage.
In `ZonePanel` the inputs do not meet but in the settings, so that one is followed at a time with the cells of its own zone and of the
next one; three acts enter a menu, edit and leave it with or without saving, or edit two cells, one restart falls at
every stage, and the buzzer sounds for 2 turns of `tick1Sec3` instead of 60, which lets a second alarm come while it sounds and when it ends.
In `Panel` a visit between two restarts opens the menus of one of the `Plans`, sets of menus that
share slots or texts; together they open all 47, in either order. Texts are typed on four screens (`TypeScreens`), one for
each buffer and kind of neighbour that can inherit it; of a number one cell at most is typed at a time, which is enough to tell
an old text from a new one.
In `ModemProgram` two edits put a second change into a send under way and after it, two orders let one
overtake the acknowledgement of the other or repeat it, and two faults (failed calls, lost answers, kills
and falls of PPP together) hit an attempt and its retry.
In `AmcIntegration` two connections let a frame be overtaken or processed twice, two frames in the outbox one
be sent again behind another, three changes raise an alarm, restore it and raise it again, and one restart and one
fault (a lost acknowledgement, a refused insert, a dead thread, a failed docker call) fall anywhere; two
restarts and four changes have been run too. The points are independent of one another except for the outbox, so one is used.
In `HikvisionIntegration` two zones let an alarm be found by the event of another and a restore come within the gate of
another, which takes four changes (both zones raised, both cleared) and leaves the second in `_zone_area_map`; four also raise
an alarm, clear it, raise and clear it again, or break the connection around a change. Two events are on their way at once; one
restart and one fault (an insert, a poll, a broken connection, a refused restart) fall anywhere, and of changes, restarts and
faults there are five together (`MaxOccasions`).
In `TexecomIntegration` two zones let an incident be told of the wrong one, two messages on the way one overtake an answer, and two happenings
let a fault fall into the work of another change; two tries of a command and a history of two voltages are the least with a retry
and with an average. Three happenings have been run for keys, mains and battery, before the events of no table were added.
In `LocationManager` two positions let halves of both meet in the row, two attempts instead of 5 come before the long retries, and one failed
call and one restart of each program fall anywhere; the row is new or holds what an earlier session left.
Payload contents, wording, LEDs, wall-clock times and vendor formats are abstracted away.

**Fairness.** Only what the scheduling gives: a process that docker keeps running takes its next
step (`WF` of the boot, monitor and publisher start, of each sender's loop, each thread of the
core, the main loop of the zone supervision and of the panel, which also advances `tickTimer`, line 22395). In `ModemProgram` the loop goes on
(every AT command, call of pppd, probe and request in it has a time limit) and the core sends heartbeats for
good. In `AmcIntegration` the container starts, connections are served, each thread goes on and the supervision
comes round; the panel repeats an active alarm (`SF`: it does so only while nothing is unacknowledged), which is
what the comment at line 625 of `amc_integration.py` says of it.
In `HikvisionIntegration` the container and its three threads go on, time passes the gates, and the panel repeats an active
alarm as the comment at line 976 of `hikvision_bas_integration.py` says.
In `TexecomIntegration` the container starts again after a failure (`restart: on-failure`), the loop, the scheduler and each timer go on: every receive has a time limit.
In `LocationManager` the boot comes to `location_manager.start`, a timer that was started runs out and its callback ends, and the IMEI timer
comes round; that the receiver ever finds a position, or the modem program stays up, is not assumed. Nobody is fair who need not act: users, inputs, link, crashes, failures. `CorePipeline` has `SF` for the two polls that the setup mode disables: the main
loop comes back to both in each round, so they are taken if the mode is off again and again.
A property that depends on the environment names its assumption in the formula
(`<>[]ethUp`, `[]Watched`, `[]<>(~ setupMode)`; `EditsReachCloud`: GSM in the end, no order that nothing
carries out, no pppd left behind by a killed program).

`CHECK_DEADLOCK FALSE` is set where the bounded instance ends: all payloads handled and all crashes
used up, or an integration switched off and left so.

## 5. Theorems

All are about the specification for every value of its constants; the assumptions are the named
`ASSUME`s of the modules, which TLC evaluates in the runs.

* **AmcIntegrationProofs, PayloadQueue.** `TypeCorrect`. `OrderKept` is the inductive invariant: the victim chosen
  by an evictor is still the oldest of its class or gone, what a sender reads is the head, what
  a restart selected is still of the selected kind. A row's age is its id and ids are not reused,
  which is why an older row cannot appear later. From it follow `EvictsOldestAlways`,
  `SentInOrderAlways` and `ZoneEventsAlwaysSurvive`, for any number of processes.
  `QueueImplementsBacklog` holds for any number of processes, any cap and any window: each step of an insert is one of its
  writer's, where a step that finds its victim gone, or no row at all, is `DropNothing`. It rests on `OrderKept`, on the history
  `limit`, and on what each place of `insert_with_cap` may still give up (`MayDrop`).
  `CapAlwaysHolds` assumes a single writing process, and needs it: two may
  both count one row less than the cap, and both insert.
* **FailoverProofs.** `TypeCorrect`; `SwitchBackAlwaysNeedsStability` (the counter never runs ahead
  of the good polls in a row), for any users, faults and crashes; `MonitorAlwaysAgrees` without
  failing calls: between its flags and its write the monitor knows what it will write, and a boot
  finds what it read, until the first act of a user.
  `SomeoneAlwaysSendsInModeB` for a device configured for ethernet whose calls do not fail and whose mode is
  changed at the web page only: whoever has written `ethernet` while the publisher was exited has still to restart it, and
  a boot before the first crash overrides nothing.
  Of `ModemProgram`, in the same module: `ModemTypeCorrect`; `PppIsAlwaysPutDown`: a command that has pppd running remembers that it dialled
  (`use_modem`), because the `network_type` it reads for the `poff` is the one it read for the `pon` (`LoanInv`);
  `RebootsAlwaysPaidFor`: the reboot that an order at ThingsBoard still stands for, and the one under way, are counted in advance, and are
  one until the acknowledgement has been tried (`RebootsToCome`).
* **DeliveryProofs.** `ArrivalsInOrder`: all before a row in hand is sent. `LossAlwaysBounded` for
  a device configured for ethernet and left alone: the loss that a switch-back may still cause is
  counted in advance, as a potential, from the moment it is decided until the row is marked.
  `CopiesAlwaysPaidFor`, for the same device, is an account too, in which a mark that fails pays for the copy that follows from it: of a pending row no more copies have arrived than
  have been paid for (`Paid`), and one that is about to be marked (`Unmarked`); of one marked sent one more, one more again once a second
  sender is at work (`SecondSender`), less what a sender still has in hand (`Unpublished`). A restart of the publisher that is
  decided and not yet carried out has been paid for by the return of the link and is kept back (`RestartDue`).
* **CorePipelineProofs.** `TypeCorrect`, for any number of integrations and timer threads. `OvershootIsAlwaysBounded`: the rows and
  the writers that have counted less than the cap and not inserted yet stay together below the cap and the number of writers (`CapInv`). `AlwaysHandedInOrder`: a payload is added once (`Once`), the list has
  the order in which its payloads were added, and what has been handed over comes before what is in it (`ListInv`, `OrderInv`); that these stay so when `add` pops between the
  peek and the remove of the drain is most of the proof.
  `AlwaysVanishesOnlyByOverflow`: `query_and_subtract_first` removes a payload that is not the one handed over only if
  `add` popped that one meanwhile; the vanished payloads, and the one that such a removal is about to
  cost, are at most as many as the heads popped (`Account`).
* **CorePipelineProofs, LocationManager**, for any set of positions, number of attempts, failures and restarts. `ManagersTypeCorrect`.
  `ConfirmedIsAlwaysAFix` follows from `ManagersInv`: the two columns are equal whenever the history says that they belong
  together (`RowOK`); what a retry has read belongs together, or one read failed, unless a write fell between (`ReadOK`); and who has
  confirmed only sends what was confirmed (`ConfirmedForGood`), so that nothing later disturbs it. `_valid` rejects `None`, zero and a pair of defaults,
  and only the equality of the halves makes a fix of what it lets through (`ValidPairIsWhole`). `PipelineUndisturbed`: every
  behaviour of `ManagersSpec` is one of `CorePipeline`, so that its theorems hold for the specification that the run checks.
* **AmcIntegrationProofs, AmcIntegration.** `AmcTypeCorrect`; `OfflineIsAlwaysTold`: a panel that is held offline has been
  reported offline and no event of it has been reported since, unless the report was refused or the supervision
  thread is dead. By itself this is not inductive: a thread might be about to report an event of a panel just
  marked offline. `OfflineInv` adds that a panel held offline is silent, and that while it is, every thread that has a
  frame has still to refresh it. It is the safety behind `SilenceIsTold`. `OnlyFirstActivations` needs to know what the panel
  has said: its words before and after each frame that it still keeps are a history which these frames determine, and the activations,
  restarts and overtaken frames counted in `due` pay for the connections that report an alarm or may let one be reported out of turn
  (`Claims`), for the alarms that are new in the frames to come, and for the one the panel would repeat while its key is not in the set
  (`PaysFor`). The set of connections is assumed finite.
* **BasIntegrationProofs, HikvisionIntegration.** `TypeCorrect`; `MemoryIsAlwaysTold`, by conjuncts: zones, faults, status and link share no
  variable but `dropped` and `unheard`, so that a step that reports one leaves the others, and each needs only the steps that
  touch it. Two facts make it inductive: a process that starts takes the panel for online and has no connection
  (`Starting`; its first report is "online"), and a report of the faults under way is that of their last change (`FaultAsked`).
* **BasIntegrationProofs, TexecomIntegration.** `TexecomTypeCorrect`; `PanelEventsAreAlwaysTold`, both from `TexecomInvariant`, for any number of
  zones, events, failures and restarts. The invariant has three accounts. Of each numbered event (`OneWay`) there is one way on which it may
  be: in a message on the connection, in the rows that `MessageHandler` is about to insert, pending with a timer that will tell it, or told; so that it is
  told once, of its zone, or excused; an event of no table is excused as it is read (`Unlisted`). Of mains and battery (`MainsInv`, `BatteryInv`), the last word on the connection is the panel's, what a
  thread has read and not yet judged does not contradict what is known, and what is told is what is known unless
  a row says so in a moment, an insert has failed or a message was lost. `Session` and `Evaluating` say which thread may be judging a voltage, and that messages wait only
  while there is a connection. Most steps move a message or a thread and touch none of the three: the lemmas on `Calm` and the `Quiet` formulas say that once for all of
  them. The attempt found the history of the property too optimistic: a step of `BatteryEvent` for which no report is made took the told
  battery for right, which fails with more happenings than the run has (section 6).
* **ZoneSupervisionProofs.** `TypeCorrect`; `AlarmsAlwaysFollowInputs` (nothing is raised for
  a line that has not been seen, and none is seen before the boot has settled the settings);
  `ResetIsAlwaysWhole` (the flag stays until both files hold the defaults, so a crash repeats the
  reset); `CounterAlwaysBounded` (a scan moves counter and number of devices alike, except at the
  floor, which needs that no two watched devices are read at one position, `WiringAssumption`);
  `BurstsAlwaysTruthful`, which follows from it.
* **ZonePanelProofs**, for each of the 47 inputs, any number of acts and restarts, any zones that are edited and any time of
  the buzzer. Lemmas say what the tables of the code have in common: both scanners know each input for the same alarm (`SameTables`,
  `Wired`), the screens of a zone write its own three cells (`ScreenTables`), a file is read as it was written (`WrittenRow`,
  `ReadRow`), a scanner names all the codes of a zone but one (`TypeTables`), and each kind of device has its pair of reports (`ReportTables`).
  `ChoiceInv` ties what was chosen and what was saved to the cells of the settings and of the files, through edits, exits and
  restarts. `ReportsAlwaysAsChosen` and `LampsAlwaysTell` follow from what the last change seen has raised and told (`Agree`). For
  `BuzzerAlwaysAnswers` the buzzer, while it sounds, has counted at least the seconds since some call, and a call of the initial scan is
  pending until the first turn (`BuzzInv`).

* **PanelProofs**, for any technician, plan of visits, number of zone screens and length of the texts. `ChangesAwaitReboot` is inductive
  as it stands. The others need the tables of the 47 menus, which `MenuTree` takes row by row: each menu but the first is opened by exactly one;
  the variables that hold the numbers of the menus above it (`Paths`) are not its own; opening it sets its own variable to its first
  screen, or finds it there; EXIT returns to a screen of the menu above and touches none of the variables above that. Hence a menu whose
  path is in the variables, and whose own variable holds one of its screens, is the one whose function runs (`ActiveIs`). `NetworkModeAlwaysConfirmed`:
  in `networkSettings` cursor and screen go together (`NavOk`), so that a question that stands was asked by the
  latest key (`AskedInv`). `MenuShownAlwaysMenuOpened`: `ShownInv` says that the globals hold the path of the menu opened, a
  screen of it and a cursor within it; it is kept by the code menu, the lamp test and the reboot button too, whose cursors and logins share
  the globals with the menus, and the second-level variable, which four menus are opened without resetting, is 0 whenever the first
  menu is shown. That the lists of screens of the text entries stay within their menus, wherever a question or a refusal leads, is `ScreensWithin`.
  `StoredTextAlwaysItsOwn`: `TextInv` says of each of the 29 screens of `networkSettings` what the number buffer and `clearKey` may hold
  there (`LanText`): the cells are emptied only by a pass that switches `clearKey`, and wherever the pass will not switch it they
  are empty already or were typed for the address of the screen. A screen is reached only along `LanReached`, which `AskedInv` keeps. For a
  name of site or brand, `TextInv` says that the line holds only text of its own while the LCD shows its menu; `ScreensOwn`, by the rows of
  the tables, that the screens of a menu store its own settings only; and `ShownInv` that the menu shown is the one that runs. The
  attempt corrected the model twice: the property first promised the names too much (section 6), and the
  cases of `Scanned` overlapped, which TLC resolves by their order and the logic does not.

The type invariants of `Failover`, `PayloadQueue`, `ZoneSupervision`, `CorePipeline`, `ModemProgram`, `HikvisionIntegration`,
`TexecomIntegration` and `LocationManager` are proved and not run; so are the cap with a single writing process and the eviction of the oldest
(`EvictsOldest`), which follow in the run from `ImplementsBacklog`.

Every safety property that a passing run checks is stated by a theorem.

**Only model-checked:** every liveness property (the prover has no `ENABLED`). What a recursive definition computes for every input
needs induction over an operator and stays with TLC too; no module declares a `RECURSIVE` operator.

## 6. Disagreements

With a run (`PROJECT.json`, `findings`): the boot that overrides `gsm` and restarts nobody; zone 13, whose screen offers "[IAS]" (13), which both
scanners leave without a name, so that its alarms are not reported.

Met while modelling, without a run of their own:

* Failover. The LCD menu writes `network_type` and restarts nothing (`main` 9517). The monitor
  outlives the user's choice of GSM, and the boot overrides it, against "No automatic failover to
  ethernet - user chose GSM intentionally" (`docs/network_architecture.md`:20). A core that
  restarts during a failover leaves the device on GSM without a monitor unless eth0 is back.
  A failed write or restart at the switch-back is never repeated. The document says that dexter-mqtt
  exits on a failed publish (:43); it goes on.
* Delivery. The modem program reads `network_type` twice, and a payload that finds "ethernet" at the second
  read is marked sent without being sent, because "the payload is already being sent via TCP by dexter-mqtt"
  (`SerialCommunication.py`:3248-3250): dexter-mqtt may not have started, and finds it marked when it has. `LossBounded` counts one loss
  for each return of the link. `_set_status` swallows an error of the database and answers False (`database_handler.py`:327-333),
  which `thingsboard_mqtt_publisher.py`:536 does not look at: the payload was published, stays pending and is published again.
* Queue. The cap of `insert_with_cap` holds for one process: several, each with its lock, count before any of them inserts.
  "Oldest event row (only if no heartbeats remain)" (`payload_manager.py`:147) holds of the 50 oldest rows, which is what is
  looked at (160-164): with a cap of 500 an event goes while heartbeats wait behind fifty events. `BoundedBacklog` promises it
  of the window, and so of all rows only if the window covers the cap. With several writers it is true of the moment of the look only.
  `startup_purge` deletes young heartbeats too: it reads a column `created_at` that the table does
  not have (223-242). A payload that cannot be repaired to JSON blocks all behind it
  (`thingsboard_mqtt_publisher.py`:499). An `ERROR` of the modem passes for success, because the
  answer is a tuple (`SerialCommunication.py`:2302).
* Pipeline. The drain removes the first payload of the list, which is another one than that which it handed
  over if `add` has dropped the oldest meanwhile: that one is never handed over. `MsgQueueBuffer.add` tests the size with `==`, so that threads can take it beyond and
  keep it there; the count of `buffer.db` is stale when it decides the purge.
* Location and IMEI. "SerialCommunication.py keeps cavli_database updated - no conflict" (`main` 22157): it writes latitude
  and longitude in two transactions (`SerialCommunication.py`:3697-3698, 2209-2210), which `_fetch_gps` reads in two more, and `_valid` rejects
  the default only if both halves are. Half of a position with half of the default, or of the next position, is then confirmed, and
  a confirmed position is not read again (`_on_scheduled_send`): it is sent until the core restarts. That is `torn` in
  `ConfirmedIsAFix`. For the same reason a device that is moved stays where it was first found, and a core that restarts
  sends the default over a position that is known. The IMEI sent at the start may be the 0 that the modem program writes at its own, or "None", and stands for 12
  hours. `stop`, `get_current` and `is_confirmed` have no caller, and `tick` does nothing.
* Zones. The device counter is set to 1 for every type whatever the initial scan saw (`main`
  22322-22334), so that a type whose devices are all off at the boot is reported online for ever,
  and of two devices of a type the one that goes off hides the one that is on: against "Devices that are offline
  (counter == 0 ...) are omitted" (`heartbeat_manager.py`). `CounterBounds` and `BurstTruthful` state
  what remains true. `check_bas_integration_fn` is never passed (22305-22320), so the Texecom probe of
  that file is never asked. `MUX_CONFIRM_READS` ("Transient glitches (< 480ms) are ignored", 1943-1948)
  is used nowhere: one read decides. `resetToDefault` leaves the panel in setup mode, right after
  "Force setup_mode to 'disabled' on every boot" (22106). IAS zones close no relay and have no lamp. An alarm in the
  pass in which the buzzer's counter ends gets no sounding (6940-6950), and a second alarm does not start the minute anew.
  Four inputs (the third multiplexer at position 6, all three at position 7) report their beginning only
  if the buzzer of their zone is on, and their end always. An end is reported under the type chosen at that time, which
  need not be that of its beginning. The screens of the camera zones 7, 8, 15 and 16 write CCTV, whatever is pressed. Edits hold at once but are
  saved only by EXIT, and re-entering the menu takes them back. A crash inside the write of a settings
  file leaves a file at which every later boot fails.
* Panel. `exitMenuAuto` ("10 minutes of in activity", 7402) counts from the login, whatever is
  pressed meanwhile, and leaves the inner states as they are, so that the next visit finds a dead
  menu or another one; the first A after ten idle minutes is lost. The lamp test and the reboot
  button (states 2, 3) have no time-out at all. `DEVICE_PROVISIONING` turns to entry 4 while its EXIT
  is 2 (14732) and falls into the function of the next menu. A lamp test left by A on its own EXIT makes
  the system test show a screen that nothing serves. The scanner called with 16 ("15 [1-16]", 7027)
  tests `keyPos > maxRANGE` and lets the cursor reach a cell that does not exist: the exception
  restarts the core, and the promised reboot is forgotten. Save screens store the empty text if
  nothing was typed. The key scan of `REG_DEVICE_PASS` swallows B (16999-17011), so that the
  password of a Texecom or NVR device cannot be stored, which the text "Allows operator to view and update panel
  IP, UDL password and port" (18711) says it can. Texts that a setting takes from another, which `StoredTextIsItsOwn`
  therefore leaves out: `ADD_DEVICE_IP` empties 14 of the 16 cells of the number (16722), and a menu reached after a time-out is entered
  past the screen that empties; a refusal at the password question of a device leaves the cursor, and `*` then leads to
  `REG_NAME` with the other text in the line; the scan of a credential reaches cell 16 where 0 to 15 are
  emptied (9779), so that the 17th character of one is stored with the next that has 16; scrolling past the EXIT of
  `DEVICE_PROVISIONING` can land on the screen of `SOL_ID` that stores, with sixteen zeros in the line; a menu
  left by time-out in the screens of `PASSWORD` (which keeps `ssub` 7), then one left on screen 4 of `NETWORK_COMMUNICATION` (`sub` 4), let
  a third visit enter `SITE_NAME` past its opening, with the line as it was: three visits are beyond the run's plan, the proof's missing
  step showed it. The guard of the reboot stays set after a failed one (19645).
  EXIT of `GENERAL_SETTINGS`, of `ACCESS_TOKEN` and of `TEXECOM` return to an entry other than their
  own. Lamp and relay tests stay on, and edits of the zone tables stay unwritten, if a menu is left
  by A or by the time-out (6967, 6993, 12945).
* Modem program. A broker that rejects the connection sets the event `published` as a confirmation does
  (`refreshcode.py`:357-363, 379), so `send_dexter_config` reports a success and the flag is cleared. The
  snapshot is saved before the send (`SerialCommunication.py`:341): an exception between it and the flag, such as
  a locked database in a reader of `refreshcode.py`, leaves the configuration unsent until the next edit or
  restart (both cases are `SendForgone`). `net_ota.py` has no `main`: the order "runota" does nothing, and while it stands
  no other poll does anything either (3491). "webcall" is taken back whether or not anything
  was fetched (3510-3511), and its fetch may write `network_type` without restarting anyone (`updatecode.py`:199).
  An acknowledgement writes "done" over whatever has been ordered meanwhile. Under ethernet neither the commands nor the
  configuration sync are polled; "RPC command check uses dexter-mqtt" (3676), whose run loop does not poll
  `care`. `net_reboot.py` and `net_debug.py` call `sudo`, which the image does not install: they are modelled as they
  run under the service unit. `net_reboot_done.py` catches `HTTPError` after its base class (114, 122). Nothing
  calls `main(..., '1')`, the only writer of dataSending = 'Error' that `reset_communicator_relay` waits for. A program that is
  killed leaves pppd with the port, and then fails at the start until pppd ends.
* AMC integration. "A RESTORE event for the same zone/area clears the key so the next real alarm can fire again"
  (`amc_integration.py`:629): of ADM-CID the restore is named `BURGLARY_ALARM_RESTORE` (373), which is in no table
  (643), and the interior, perimeter, confirmed, silent and smoke alarms have no restore there at all; their second
  alarm is never reported while the process lives. The same name leaves the zone of `PanelState` in "ALARM" (437). The key has no
  account, so that two panels share theirs (694). The acknowledgement goes out before the row is stored (584), and
  the key is added before an insert that may fail (700, 711): such an alarm is lost, with its repetitions. A frame with a wrong checksum is
  logged and processed (489). A NULL frame does not register a panel (394), so that after a restart the silence of a
  panel without events is not supervised, and a panel that comes back by NULL frames is not reported online before
  its next periodic test. `insert_json_to_db` outside a `try` ends the supervision if `buffer.db` cannot be
  opened (544). `check_amc_bas`, imported in the core, reads that process's own, empty `_panels` (733): "LinkFail",
  always. Silence is reported twice, over `payloads.db` and over `buffer.db`; the second may arrive after a later
  "online", which the model, whose properties are about silence that lasts, does not follow.
* Hikvision integration. A restore event within three seconds of another returns without a look (`hikvision_bas_integration.py`:1015),
  and one that comes while the connection is broken is not heard: the zone stays in `_zone_area_map`, and its next
  alarms are taken for repetitions ("already active") until
  some later restore event: against "After burst window, new events pass through" (944). "If poll fails we allow the restore" (830) sends a restore of a zone in alarm,
  which the next burst reports again; `_process_sys_faults` takes an unanswered poll for one without faults (293-333, 864)
  and reports each fault restored, then new. The two threads that call `dexter_state_hook` (706) may store
  "online" after "LinkFail" while the state says offline; nothing repeats a LinkFail, so that this, or one
  that was not stored, is only put right when the panel answers again (`crossed`, `dropped` in `LinkIsTold`). What was reported
  active before a restart is not restored after it, as `_zone_area_map` and `_active_faults` start empty.
* Texecom integration. An event of none of the tables of `message_handler` (`texecomConnect.py`:70-128), as Duress Code Alarm,
  Keypad Fire, Keypad Silent PA, Panel Box Tamper or Confirmed Alarm (466-526), is received, runs through all the tests
  (2134-2341) and is told to nobody; so is one of the keys, of the battery or of arming whose group its branch does not know
  (`return` at 1947, 1959, 1968, 2206, 2309). `PanelEventsAreTold` excepts these by name (`Unlisted`), with those of `IGNORE_EVENTS`,
  which are meant to be passed over. A change of the mains that a reading of the voltages finds is stored as the new state without a report
  (`texecomConnect.py`:1718-1727), so that the event of an AC failure behind it is taken for a repetition. An incident within half a
  second of another replaces it, and the timer of the first tells it and the timer of the second finds nothing, or tells it again. An incident is told with the
  lowest-numbered zone of the last two seconds, whichever it belongs to. A message whose number equals that of the last one of the
  former connection is dropped: `last_received_seq` is not reset. Answers are matched by the sequence number under which either thread sent last, and both read the
  socket: each takes or tears what the other waits for, which costs the connection. A login that fails for good leaves the last heartbeat "online",
  and `texecomConnStat.txt` stays 1 after a crash. An exception in the commands after the login ends the process. The memories of mains, battery and arming
  change before an insert whose failure is swallowed. The verdict LOW stays after a restored voltage until the average has followed.
  The end of a battery alarm that comes while the verdict counts as confirmed is not reported (`BATTERY_CONFIRMED`, 2171), so that a battery that is
  back may stay told "LOW": after an older low voltage, or a report that failed.
  Incidents are stored whether or not the integration is switched on.
* Elsewhere. The limiter of "max 3 per hour" reboots keeps its window in a process that the reboot
  ends (`net_reboot.py`:35). `reset_communicator_relay` clears `_relay1_error_count` after the restart of the
  service (`main` 21542-21700), so the reboot at three, which its docstring describes, is never
  reached.

## 7. Not modelled

`reset_status`, `mark_as_failed` and `insert_json` have no live caller; the batch and TTL functions
of `buffer_manager.py` have none in the core; backup and restore are tools of the operator. Rate
limiters and reconnect back-offs are delays. Vendor parsers, cryptography, drivers, network
configuration, loggers and installers are I/O without shared state. In `ZoneSupervision`, the immediate
heartbeats of a device are left out, and a file once closed is taken to survive a power loss; in
`ZonePanel` so are the event log, the tests of lamps and relays, and the sources of the buzzer other than the zones: a low battery
(`main` 6878-6883), the tamper alarm (6886-6904) and the three-second beep (6918-6933) set the same output, so that `BUZZER` in
`lit` is the zones' share of it. In `Panel`, the values of plain toggles, the contents of the zone tables and of the
log and report views, and the digits of passwords are left out: a password is right or wrong, by
choice. In `HikvisionIntegration`, `armStatus` and the other events that
are passed on as they come are left out, and so are the functions that arm, disarm and bypass, which nothing calls. In `TexecomIntegration` refused commands (NAK) and wrong passwords, and a
`buffer.db` that cannot be opened, are left out; the functions that read zone details, users, areas and site data, the LCD display, `set_date_time`,
`smoothed_active`, `send_texecom_power_on_off` and `runTexecomConnect` have no caller. In `ModemProgram`, the digits of AT commands,
the choice of SIM and operator and the usage log are left out (what GPS finds is in `LocationManager`, without the format of the answer); the limiter of the reboot orders is too, since
no process lives to see a second order. The web server is modelled only where it
writes `network_type`. What the plan adds is listed in section 2.
