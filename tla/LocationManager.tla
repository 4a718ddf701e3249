-------------------------- MODULE LocationManager --------------------------
(***************************************************************************)
(* Where the device is and who its modem is: the modem program             *)
(* (SerialCommunication.py) writes position and IMEI, column by column,    *)
(* into cavliRunningParam.db; the timer threads of location_manager.py     *)
(* and imei_manager.py in the core read them there, column by column, and  *)
(* add them to msg_queue_buffer.                                           *)
(*                                                                         *)
(* A value of a column is the fix that it comes from, so that a latitude   *)
(* and a longitude belong together if they are equal.  The managers share  *)
(* with one another, and with the pipeline, nothing but the restarts of    *)
(* the programs: one of the three is followed at a time.                   *)
(***************************************************************************)
EXTENDS CorePipeline

CONSTANTS Fixes,                 (* positions that the receiver may find       *)
          MAX_STARTUP_ATTEMPTS,  (* 5 in the code                              *)
          Subjects,              (* which of the three are followed            *)
          MaxFaults,             (* bounds of the model: calls that fail,      *)
          MaxRestarts            (* restarts of the core, and of the modem     *)
                                 (* program                                    *)

Placeholders == {"None", "default", "zero"}
Coordinates == Fixes \cup Placeholders
AllSubjects == {"pipeline", "position", "IMEI"}
Programs == {"core", "modem"}

ASSUME LocationAssumption ==
    /\ Fixes \cap Placeholders = {}
    /\ MAX_STARTUP_ATTEMPTS \in Nat \ {0}
    /\ Subjects \subseteq AllSubjects
    /\ MaxFaults \in Nat /\ MaxRestarts \in Nat

VARIABLES follows,   (* the subject                                            *)
          cavli,     (* the row of cavliRunningParam.db                        *)
          modem,     (* the column the modem program writes next, if any, and  *)
                     (* the fix it has in hand                                 *)
          location,  (* _state, _startup_attempt, _lat and _lon                *)
          chain,     (* the callback that the timer waits for or that runs,    *)
                     (* how far it is, and what it has read                    *)
          toldWhere, (* the latitude and longitude added to the list last      *)
          toldIMEI,  (* the imei_id added to it last                           *)
          mixed,     (* history: latitude and longitude of the row may differ, *)
                     (* for the second is not written yet, or one has failed   *)
          torn,      (* history: they did, or changed, while _fetch_gps read   *)
          missed,    (* history: the last send has failed                      *)
          faults, restarts

managerVars == <<cavli, modem, location, chain, toldWhere, toldIMEI, mixed, torn,
                 missed, faults, restarts>>
allVars == <<vars, follows, managerVars>>

Callbacks == {"_on_startup_retry", "_on_long_retry", "_on_scheduled_send"}
NoChain == [runs |-> "none", at |-> "timer", lat |-> "None", lon |-> "None"]
Unset == [state |-> "down", startup_attempt |-> 0, lat |-> "None", lon |-> "None"]
DefaultPosition == <<"default", "default">>

NewRow == [latitude |-> "None", longitude |-> "None", IMEI |-> "None"]
LastRows == {[latitude |-> p, longitude |-> p, IMEI |-> "imei"] : p \in Fixes}

(* The file may be new, or hold what the last session left.                *)
ManagersInit ==
    /\ Init
    /\ follows \in Subjects
    /\ cavli = NewRow \/ (follows # "pipeline" /\ cavli \in LastRows)
    /\ modem = [next |-> "latitude", fix |-> "default"]
    /\ location = Unset
    /\ chain = NoChain
    /\ toldWhere = <<"None", "None">>
    /\ toldIMEI = "nothing"
    /\ mixed = "no" /\ torn = FALSE /\ missed = FALSE
    /\ faults = 0
    /\ restarts = [p \in Programs |-> 0]

-----------------------------------------------------------------------------
(* Calls that may fail: an sqlite error is logged, and a read returns None *)
(* and a write nothing; an exception of the list is logged by _send.       *)

Fails == faults < MaxFaults /\ faults' = faults + 1

Retrieve(column, value) ==
    \/ value = cavli[column] /\ UNCHANGED faults
    \/ value = "None" /\ Fails

Update(column, value, written) ==
    \/ written /\ cavli' = [cavli EXCEPT ![column] = value] /\ UNCHANGED faults
    \/ ~ written /\ UNCHANGED cavli /\ Fails

Send(position) ==
    \/ toldWhere' = position /\ missed' = FALSE /\ UNCHANGED faults
    \/ UNCHANGED toldWhere /\ missed' = TRUE /\ Fails

-----------------------------------------------------------------------------
(* The modem program                                                       *)

(* What parse_lat_long makes of an answer with two numbers.                *)
Parsed == Fixes \cup {"zero"}

(* get_lat_long: any other answer, and any exception, leaves the row as it *)
(* is.                                                                     *)
GetLatLong(p) ==
    /\ modem.next = "any" /\ follows = "position"
    /\ modem' = [next |-> "latitude", fix |-> p]
    /\ UNCHANGED <<cavli, location, chain, toldWhere, toldIMEI, mixed, torn, missed,
                   faults, restarts>>

(* A fix, or at its start the default, in two transactions.                *)
WriteLatitude ==
    /\ modem.next = "latitude"
    /\ \E written \in BOOLEAN :
           /\ Update("latitude", modem.fix, written)
           /\ mixed' = IF written THEN "half" ELSE "failed"
    /\ torn' = (torn \/ chain.at = "longitude")
    /\ modem' = [modem EXCEPT !.next = "longitude"]
    /\ UNCHANGED <<location, chain, toldWhere, toldIMEI, missed, restarts>>

WriteLongitude ==
    /\ modem.next = "longitude"
    /\ \E written \in BOOLEAN :
           /\ Update("longitude", modem.fix, written)
           /\ mixed' = IF written /\ mixed = "half" THEN "no" ELSE "failed"
    /\ torn' = (torn \/ chain.at = "longitude")
    /\ modem' = [modem EXCEPT !.next = IF modem.fix = "default" THEN "IMEI" ELSE "any"]
    /\ UNCHANGED <<location, chain, toldWhere, toldIMEI, missed, restarts>>

(* At its start 0; afterwards get_IMEI_number, which finds one in the      *)
(* answer or none.                                                         *)
WriteIMEI ==
    /\ modem.next = "IMEI" \/ (modem.next = "any" /\ follows = "IMEI")
    /\ \E value \in IF modem.next = "IMEI" THEN {"0"} ELSE {"imei", "None"}, written \in BOOLEAN :
           Update("IMEI", value, written)
    /\ modem' = [modem EXCEPT !.next = "any"]
    /\ UNCHANGED <<location, chain, toldWhere, toldIMEI, mixed, torn, missed, restarts>>

(* Its watchdog or docker starts it anew, whatever it was doing.           *)
RestartModem ==
    /\ restarts["modem"] < MaxRestarts
    /\ restarts' = [restarts EXCEPT !["modem"] = @ + 1]
    /\ modem' = [next |-> "latitude", fix |-> "default"]
    /\ UNCHANGED <<cavli, location, chain, toldWhere, toldIMEI, mixed, torn, missed, faults>>

-----------------------------------------------------------------------------
(* location_manager.py: the callbacks of one timer after the other         *)

Schedule(callback) == chain' = [NoChain EXCEPT !.runs = callback]

(* start: the first attempt has a thread and no timer.                     *)
StartManagers ==
    /\ location.state = "down"
    /\ location' = [Unset EXCEPT !.state = "STARTUP_RETRY"]
    /\ Send(DefaultPosition)
    /\ Schedule("_on_startup_retry")
    /\ UNCHANGED <<cavli, modem, toldIMEI, mixed, torn, restarts>>

(* Mutant: the default of the modem program passes for a fix.              *)
Valid_Default(lat, lon) == {lat, lon} \cap {"None", "zero"} = {}

Valid(lat, lon) ==
    /\ {lat, lon} \cap {"None", "zero"} = {}
    /\ ~ (lat = "default" /\ lon = "default")

(* _fetch_gps, its two reads.                                              *)
FetchLatitude ==
    /\ chain.runs \in {"_on_startup_retry", "_on_long_retry"} /\ chain.at = "timer"
    /\ location' = IF chain.runs = "_on_startup_retry"
                   THEN [location EXCEPT !.startup_attempt = @ + 1] ELSE location
    /\ \E lat \in Coordinates :
           /\ Retrieve("latitude", lat)
           /\ chain' = [chain EXCEPT !.at = "longitude", !.lat = lat]
    /\ torn' = (mixed # "no")
    /\ UNCHANGED <<cavli, modem, toldWhere, toldIMEI, mixed, missed, restarts>>

FetchLongitude ==
    /\ chain.at = "longitude"
    /\ \E lon \in Coordinates :
           /\ Retrieve("longitude", lon)
           /\ chain' = [chain EXCEPT !.at = "decide", !.lon = lon]
    /\ UNCHANGED <<cavli, modem, location, toldWhere, toldIMEI, mixed, torn, missed, restarts>>

(* "Real GPS confirmed": in either retry.                                  *)
Confirm ==
    /\ chain.at = "decide" /\ Valid(chain.lat, chain.lon)
    /\ location' = [location EXCEPT !.state = "CONFIRMED", !.lat = chain.lat, !.lon = chain.lon]
    /\ Send(<<chain.lat, chain.lon>>)
    /\ Schedule("_on_scheduled_send")
    /\ UNCHANGED <<cavli, modem, toldIMEI, mixed, torn, restarts>>

StartupRetryFails ==
    /\ chain.runs = "_on_startup_retry" /\ chain.at = "decide"
    /\ ~ Valid(chain.lat, chain.lon)
    /\ IF location.startup_attempt < MAX_STARTUP_ATTEMPTS
       THEN Schedule("_on_startup_retry") /\ UNCHANGED location
       ELSE Schedule("_on_long_retry") /\ location' = [location EXCEPT !.state = "LONG_RETRY"]
    /\ UNCHANGED <<cavli, modem, toldWhere, toldIMEI, mixed, torn, missed, faults, restarts>>

(* Mutant: nothing is scheduled after a long retry in vain.                *)
LongRetryFails_GivesUp ==
    /\ chain.runs = "_on_long_retry" /\ chain.at = "decide"
    /\ ~ Valid(chain.lat, chain.lon)
    /\ Send(DefaultPosition)
    /\ chain' = NoChain
    /\ UNCHANGED <<cavli, modem, location, toldIMEI, mixed, torn, restarts>>

LongRetryFails ==
    /\ chain.runs = "_on_long_retry" /\ chain.at = "decide"
    /\ ~ Valid(chain.lat, chain.lon)
    /\ Send(DefaultPosition)
    /\ Schedule("_on_long_retry")
    /\ UNCHANGED <<cavli, modem, location, toldIMEI, mixed, torn, restarts>>

ScheduledSend ==
    /\ chain.runs = "_on_scheduled_send"
    /\ Send(<<location.lat, location.lon>>)
    /\ Schedule("_on_scheduled_send")
    /\ UNCHANGED <<cavli, modem, location, toldIMEI, mixed, torn, restarts>>

(* imei_manager.py, at the start and every 12 hours: whatever is read is   *)
(* sent, and the next time comes in any case.                              *)
SendIMEI ==
    /\ location.state # "down" /\ follows = "IMEI"
    /\ \/ Retrieve("IMEI", toldIMEI')
       \/ UNCHANGED toldIMEI /\ Fails
    /\ UNCHANGED <<cavli, modem, location, chain, toldWhere, mixed, torn, missed, restarts>>

(* The core dies, and its threads and timers with it.                      *)
RestartCore ==
    /\ location.state # "down"
    /\ restarts["core"] < MaxRestarts
    /\ restarts' = [restarts EXCEPT !["core"] = @ + 1]
    /\ location' = Unset
    /\ chain' = NoChain
    /\ UNCHANGED <<cavli, modem, toldWhere, toldIMEI, mixed, torn, missed, faults>>

-----------------------------------------------------------------------------
ModemSteps ==
    \/ \E p \in Parsed : GetLatLong(p)
    \/ WriteLatitude \/ WriteLongitude \/ WriteIMEI \/ RestartModem

Chain == FetchLatitude \/ FetchLongitude \/ Confirm \/ StartupRetryFails \/ LongRetryFails
         \/ ScheduledSend

Managers == ModemSteps \/ StartManagers \/ Chain \/ SendIMEI \/ RestartCore

OfManagers == follows # "pipeline" /\ UNCHANGED <<vars, follows>>
ManagersStep == OfManagers /\ Managers
PipelineStep == follows = "pipeline" /\ Next /\ UNCHANGED <<follows, managerVars>>

ManagersNext == ManagersStep \/ PipelineStep

(* The boot comes to location_manager.start, and a timer that was started  *)
(* runs out.  Nothing makes the receiver find a fix.                       *)
ManagersFairness ==
    /\ WF_allVars(OfManagers /\ StartManagers)
    /\ WF_allVars(OfManagers /\ Chain)
    /\ WF_allVars(OfManagers /\ SendIMEI)

ManagersSpec == ManagersInit /\ [][ManagersNext]_allVars
ManagersFairSpec == ManagersSpec /\ Fairness /\ ManagersFairness
-----------------------------------------------------------------------------
ManagersTypeOK ==
    /\ follows \in AllSubjects
    /\ cavli \in [latitude : Coordinates, longitude : Coordinates, IMEI : {"None", "0", "imei"}]
    /\ modem \in [next : {"latitude", "longitude", "IMEI", "any"},
                  fix : Parsed \cup {"default"}]
    /\ location \in [state : {"down", "STARTUP_RETRY", "LONG_RETRY", "CONFIRMED"},
                     startup_attempt : Nat, lat : Coordinates, lon : Coordinates]
    /\ chain \in [runs : Callbacks \cup {"none"}, at : {"timer", "longitude", "decide"},
                  lat : Coordinates, lon : Coordinates]
    /\ toldWhere \in Coordinates \X Coordinates
    /\ toldIMEI \in {"nothing", "None", "0", "imei"}
    /\ mixed \in {"no", "half", "failed"}
    /\ torn \in BOOLEAN /\ missed \in BOOLEAN
    /\ faults \in Nat /\ restarts \in [Programs -> Nat]

Whole(lat, lon) == lat = lon /\ lat \in Fixes

(* The position that location_manager.py has confirmed and sends for good  *)
(* is one that the receiver found, never half of one, unless the modem     *)
(* program was between its two writes, or had failed at one, when the pair *)
(* was read; and it is the one sent last, unless that send has failed      *)
(* ("Never send default again once real GPS is confirmed").                *)
ConfirmedIsAFix ==
    location.state = "CONFIRMED" =>
        /\ torn \/ Whole(location.lat, location.lon)
        /\ missed \/ toldWhere = <<location.lat, location.lon>>

(* "Modem may acquire GPS signal hours or days later - never give up": a   *)
(* position that stays in the database is sent in the end, however often   *)
(* the attempts before were in vain, and so is an IMEI ("Sends the device  *)
(* IMEI to ThingsBoard twice a day"), over restarts and failed sends.      *)
ModemDataIsTold ==
    /\ <>[](follows = "position" /\ Whole(cavli.latitude, cavli.longitude))
          => <>[](torn \/ Whole(toldWhere[1], toldWhere[2]))
    /\ <>[](follows = "IMEI" /\ cavli.IMEI = "imei") => <>[](toldIMEI = "imei")
=============================================================================
