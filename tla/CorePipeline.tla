---------------------------- MODULE CorePipeline ----------------------------
(***************************************************************************)
(* The way of a payload through the core, before it is a row of            *)
(* payloads.db: the integrations put theirs into buffer.db                 *)
(* (buffer_manager.py), consume_json takes them out one by one, and they   *)
(* wait with the panel's own events in msg_queue_buffer, a list in the     *)
(* memory of TLChronosProMAIN_391.py, until the main loop hands them to    *)
(* insert_with_cap.                                                        *)
(*                                                                         *)
(* The list has no lock.  The main loop and the timer threads of           *)
(* location_manager.py and imei_manager.py all add to it: every access to  *)
(* it is a step, and so is every sqlite transaction.                       *)
(***************************************************************************)
EXTENDS Integers, Sequences, FiniteSets

CONSTANTS Integrations,     (* the processes that write buffer.db              *)
          Timers,           (* the timer threads of the core                   *)
          MAX_BUFFER_ROWS,  (* cap of buffer.db, 50 000 in the code            *)
          Size,             (* size of msg_queue_buffer, 10 000 in the code    *)
          Faults,           (* whether an insert into payloads.db may fail     *)
          N,                (* bounds of the model: payloads ever created and  *)
          MaxCrashes        (* crashes of the core                             *)

Main == "main"
Threads == {Main} \cup Timers
Payloads == 1 .. N

ASSUME ConstantsAssumption ==
    /\ IsFiniteSet(Integrations) /\ IsFiniteSet(Timers)
    /\ Main \notin Timers
    /\ MAX_BUFFER_ROWS \in Nat \ {0}
    /\ Size \in Nat /\ Size > Cardinality(Timers)
    /\ Faults \in BOOLEAN
    /\ N \in Nat /\ MaxCrashes \in Nat

VARIABLES rows,       (* buffer.db: its pending payloads, oldest first         *)
          counted,    (* what each integration read from SELECT COUNT, or None *)
          buffer,     (* MsgQueueBuffer.buffer: token id and token             *)
          idCounter,  (* MsgQueueBuffer.token_id_counter                       *)
          pc,         (* where each thread of the core stands                  *)
          token,      (* the payload each thread is adding or handing over     *)
          firstId,    (* first_token_id of query_and_subtract_first            *)
          setupMode,  (* setup_mode is "enabled": nothing is handed over       *)
          born,       (* payloads created so far                               *)
          added,      (* history: all payloads appended to the list, in order  *)
          handed,     (* history: all payloads inserted into payloads.db       *)
          lost,       (* history: payloads given up, and why                   *)
          crashes

coreVars == <<buffer, idCounter, pc, token, firstId>>
vars == <<rows, counted, coreVars, setupMode, born, added, handed, lost, crashes>>

None == -1
Elements(s) == {s[i] : i \in DOMAIN s}
Tokens == {buffer[i].token : i \in DOMAIN buffer}
GoTo(t, label) == pc' = [pc EXCEPT ![t] = label]

Init ==
    /\ rows = <<>>
    /\ counted = [p \in Integrations |-> None]
    /\ buffer = <<>>
    /\ idCounter = 1
    /\ pc = [t \in Threads |-> "idle"]
    /\ token = [t \in Threads |-> None]
    /\ firstId = None
    /\ setupMode = FALSE
    /\ born = 0
    /\ added = <<>>
    /\ handed = <<>>
    /\ lost = [cap |-> {}, full |-> {}, raised |-> {}, crash |-> {}, insert |-> {}]
    /\ crashes = 0

-----------------------------------------------------------------------------
(* insert_json_to_db, in the process of an integration: the count is read  *)
(* outside of the transaction that purges and inserts.                     *)

BufferCount(p) ==
    /\ counted[p] = None
    /\ born < N
    /\ counted' = [counted EXCEPT ![p] = Len(rows)]
    /\ UNCHANGED <<rows, coreVars, setupMode, born, added, handed, lost, crashes>>

(* Mutant: the cap is compared with > instead of >=. *)
BufferInsert_OffByOne(p) ==
    /\ counted[p] # None
    /\ born < N
    /\ LET excess == counted[p] - MAX_BUFFER_ROWS
           purged == IF excess < 1 THEN 0
                     ELSE IF excess > Len(rows) THEN Len(rows) ELSE excess
       IN  /\ rows' = Append(SubSeq(rows, purged + 1, Len(rows)), born + 1)
           /\ lost' = [lost EXCEPT !.cap = @ \cup Elements(SubSeq(rows, 1, purged))]
    /\ born' = born + 1
    /\ counted' = [counted EXCEPT ![p] = None]
    /\ UNCHANGED <<coreVars, setupMode, added, handed, crashes>>

BufferInsert(p) ==
    /\ counted[p] # None
    /\ born < N
    /\ LET excess == counted[p] - MAX_BUFFER_ROWS + 1
           purged == IF excess < 1 THEN 0
                     ELSE IF excess > Len(rows) THEN Len(rows) ELSE excess
       IN  /\ rows' = Append(SubSeq(rows, purged + 1, Len(rows)), born + 1)
           /\ lost' = [lost EXCEPT !.cap = @ \cup Elements(SubSeq(rows, 1, purged))]
    /\ born' = born + 1
    /\ counted' = [counted EXCEPT ![p] = None]
    /\ UNCHANGED <<coreVars, setupMode, added, handed, crashes>>

-----------------------------------------------------------------------------
(* MsgQueueBuffer.add: a thread has a token and goes through "len", "pop", *)
(* "append" and "count".                                                   *)

(* sendData2TB, a heartbeat, a location: a new payload of the core itself. *)
NewEvent(t) ==
    /\ pc[t] = "idle"
    /\ born < N
    /\ born' = born + 1
    /\ token' = [token EXCEPT ![t] = born + 1]
    /\ GoTo(t, "len")
    /\ UNCHANGED <<rows, counted, buffer, idCounter, firstId, setupMode, added,
                   handed, lost, crashes>>

(* get_and_delete_json_from_db, called by consume_json. *)
ConsumeJson ==
    /\ pc[Main] = "idle"
    /\ rows # <<>>
    /\ rows' = Tail(rows)
    /\ token' = [token EXCEPT ![Main] = Head(rows)]
    /\ GoTo(Main, "len")
    /\ UNCHANGED <<counted, buffer, idCounter, firstId, setupMode, born, added,
                   handed, lost, crashes>>

AddLen(t) ==
    /\ pc[t] = "len"
    /\ GoTo(t, IF Len(buffer) = Size THEN "pop" ELSE "append")
    /\ UNCHANGED <<rows, counted, buffer, idCounter, token, firstId, setupMode,
                   born, added, handed, lost, crashes>>

AddPop(t) ==
    /\ pc[t] = "pop"
    /\ buffer # <<>>
    /\ buffer' = Tail(buffer)
    /\ lost' = [lost EXCEPT !.full = @ \cup {Head(buffer).token}]
    /\ GoTo(t, "append")
    /\ UNCHANGED <<rows, counted, idCounter, token, firstId, setupMode, born,
                   added, handed, crashes>>

(* The main loop has emptied the list meanwhile: pop(0) raises, and the    *)
(* timer thread logs "Send failed".                                        *)
AddRaises(t) ==
    /\ pc[t] = "pop"
    /\ buffer = <<>>
    /\ lost' = [lost EXCEPT !.raised = @ \cup {token[t]}]
    /\ token' = [token EXCEPT ![t] = None]
    /\ GoTo(t, "idle")
    /\ UNCHANGED <<rows, counted, buffer, idCounter, firstId, setupMode, born,
                   added, handed, crashes>>

AddAppend(t) ==
    /\ pc[t] = "append"
    /\ buffer' = Append(buffer, [id |-> idCounter, token |-> token[t]])
    /\ added' = Append(added, token[t])
    /\ token' = [token EXCEPT ![t] = None]
    /\ GoTo(t, "count")
    /\ UNCHANGED <<rows, counted, idCounter, firstId, setupMode, born, handed,
                   lost, crashes>>

AddCount(t) ==
    /\ pc[t] = "count"
    /\ idCounter' = idCounter + 1
    /\ GoTo(t, "idle")
    /\ UNCHANGED <<rows, counted, buffer, token, firstId, setupMode, born, added,
                   handed, lost, crashes>>

-----------------------------------------------------------------------------
(* send_to_ethernet_subprocess and send_to_cavli_subprocess, which are the *)
(* same, in the main loop.                                                 *)

(* Mutant: the newest element is taken. *)
DrainPeek_Newest ==
    /\ pc[Main] = "idle"
    /\ ~ setupMode
    /\ buffer # <<>>
    /\ token' = [token EXCEPT ![Main] = buffer[Len(buffer)].token]
    /\ GoTo(Main, "run")
    /\ UNCHANGED <<rows, counted, buffer, idCounter, firstId, setupMode, born,
                   added, handed, lost, crashes>>

(* Mutant: a list of one element passes for empty. *)
DrainPeek_OffByOne ==
    /\ pc[Main] = "idle"
    /\ ~ setupMode
    /\ Len(buffer) > 1
    /\ token' = [token EXCEPT ![Main] = Head(buffer).token]
    /\ GoTo(Main, "run")
    /\ UNCHANGED <<rows, counted, buffer, idCounter, firstId, setupMode, born,
                   added, handed, lost, crashes>>

(* get_next_subtracted_element *)
DrainPeek ==
    /\ pc[Main] = "idle"
    /\ ~ setupMode
    /\ buffer # <<>>
    /\ token' = [token EXCEPT ![Main] = Head(buffer).token]
    /\ GoTo(Main, "run")
    /\ UNCHANGED <<rows, counted, buffer, idCounter, firstId, setupMode, born,
                   added, handed, lost, crashes>>

(* main_program.run; insert_with_cap logs an error and returns. *)
DrainRun ==
    /\ pc[Main] = "run"
    /\ \/ /\ handed' = Append(handed, token[Main])
          /\ UNCHANGED lost
       \/ /\ Faults
          /\ lost' = [lost EXCEPT !.insert = @ \cup {token[Main]}]
          /\ UNCHANGED handed
    /\ token' = [token EXCEPT ![Main] = None]
    /\ GoTo(Main, "first")
    /\ UNCHANGED <<rows, counted, buffer, idCounter, firstId, setupMode, born,
                   added, crashes>>

(* Mutant: the element that was handed over is not removed. *)
DrainFirst_Keeps ==
    /\ pc[Main] = "first"
    /\ GoTo(Main, "idle")
    /\ UNCHANGED <<rows, counted, buffer, idCounter, token, firstId, setupMode,
                   born, added, handed, lost, crashes>>

(* query_and_subtract_first, up to remove_by_id ... *)
DrainFirst ==
    /\ pc[Main] = "first"
    /\ IF buffer = <<>>
       THEN GoTo(Main, "idle") /\ UNCHANGED firstId
       ELSE GoTo(Main, "remove") /\ firstId' = Head(buffer).id
    /\ UNCHANGED <<rows, counted, buffer, idCounter, token, setupMode, born,
                   added, handed, lost, crashes>>

(* ... and remove_by_id. *)
DrainRemove ==
    /\ pc[Main] = "remove"
    /\ LET found == {i \in DOMAIN buffer : buffer[i].id = firstId}
       IN  IF found = {} THEN UNCHANGED buffer
           ELSE LET i == CHOOSE i \in found : \A j \in found : i <= j
                IN  buffer' = SubSeq(buffer, 1, i - 1) \o SubSeq(buffer, i + 1, Len(buffer))
    /\ firstId' = None
    /\ GoTo(Main, "idle")
    /\ UNCHANGED <<rows, counted, idCounter, token, setupMode, born, added, handed,
                   lost, crashes>>

(* A technician enters or leaves the setup at the LCD: the main loop is in *)
(* mainStateMachine then, and not in one of the above.                     *)
SetupToggle ==
    /\ pc[Main] = "idle"
    /\ setupMode' = ~ setupMode
    /\ UNCHANGED <<rows, counted, coreVars, born, added, handed, lost, crashes>>

(* The core dies with all it had in memory; the boot sets setup_mode to    *)
(* "disabled".                                                             *)
CoreCrash ==
    /\ crashes < MaxCrashes
    /\ crashes' = crashes + 1
    /\ lost' = [lost EXCEPT !.crash =
                   @ \cup ((Tokens \cup {token[t] : t \in Threads})
                             \ (Elements(handed) \cup {None}))]
    /\ buffer' = <<>>
    /\ idCounter' = 1
    /\ pc' = [t \in Threads |-> "idle"]
    /\ token' = [t \in Threads |-> None]
    /\ firstId' = None
    /\ setupMode' = FALSE
    /\ UNCHANGED <<rows, counted, born, added, handed>>

-----------------------------------------------------------------------------
Add(t) == AddLen(t) \/ AddPop(t) \/ AddRaises(t) \/ AddAppend(t) \/ AddCount(t)
Drain  == DrainPeek \/ DrainRun \/ DrainFirst \/ DrainRemove

Next ==
    \/ \E p \in Integrations : BufferCount(p) \/ BufferInsert(p)
    \/ \E t \in Threads : NewEvent(t) \/ Add(t)
    \/ ConsumeJson
    \/ Drain
    \/ SetupToggle
    \/ CoreCrash

(* The main loop goes round: consume_json every 30 ticks, the drain every  *)
(* 70 turns, and neither keeps the other away.  Nothing makes a technician *)
(* leave the setup.                                                        *)
Fairness ==
    /\ \A t \in Threads : WF_vars(Add(t))
    /\ WF_vars(DrainRun \/ DrainFirst \/ DrainRemove)
    /\ SF_vars(DrainPeek)
    /\ SF_vars(ConsumeJson)

Spec == Init /\ [][Next]_vars
FairSpec == Spec /\ Fairness
-----------------------------------------------------------------------------
Reasons == {"cap", "full", "raised", "crash", "insert"}
GivenUp == UNION {lost[r] : r \in Reasons}

TypeOK ==
    /\ rows \in Seq(Payloads)
    /\ counted \in [Integrations -> Nat \cup {None}]
    /\ buffer \in Seq([id : Nat, token : Payloads])
    /\ idCounter \in Nat
    /\ pc \in [Threads -> {"idle", "len", "pop", "append", "count",
                           "run", "first", "remove"}]
    /\ token \in [Threads -> Payloads \cup {None}]
    /\ firstId \in Nat \cup {None}
    /\ setupMode \in BOOLEAN
    /\ born \in 0 .. N
    /\ added \in Seq(Payloads) /\ handed \in Seq(Payloads)
    /\ lost \in [Reasons -> SUBSET Payloads]
    /\ crashes \in 0 .. MaxCrashes

(* The processes that count and insert at the same time overshoot the cap  *)
(* of buffer.db by no more than their number, and the next insert purges   *)
(* the excess (insert_json_to_db: "Purge oldest to stay within cap").      *)
OvershootBounded ==
    Len(rows) < MAX_BUFFER_ROWS + Cardinality(Integrations)

(* The rows of payloads.db have the order in which the payloads were added *)
(* to the list, whoever added them and whatever was popped or lost between *)
(* (get_next_subtracted_element, query_and_subtract_first).  As a payload  *)
(* is added once, it becomes a row at most once, over any crash between    *)
(* the insert and query_and_subtract_first.                                *)
HandedInOrder ==
    \A i, j \in DOMAIN handed : i < j =>
        \E k, l \in DOMAIN added :
            k < l /\ added[k] = handed[i] /\ added[l] = handed[j]

(* The payloads that are nowhere any more, and that no cap, error or crash *)
(* has given up.                                                           *)
Vanished ==
    {i \in 1 .. born :
        /\ i \notin Elements(rows) \cup Tokens \cup Elements(handed) \cup GivenUp
        /\ \A t \in Threads : token[t] # i}

(* A payload vanishes only because the list overflowed while its head was  *)
(* being handed over: query_and_subtract_first then removes the next one,  *)
(* one for each head that add popped.  Nothing else is lost between        *)
(* buffer.db, the list and payloads.db, in any interleaving.               *)
VanishesOnlyByOverflow ==
    Cardinality(Vanished) <= Cardinality(lost.full \cap (Elements(handed) \cup lost.insert))

(* Every payload leaves buffer.db, and every payload of the list is handed *)
(* over or given up, over crashes and setup sessions that end              *)
(* (consume_json and the drain of the main loop).                          *)
EventuallyDrained ==
    []<>(~ setupMode) =>
        \A i \in Payloads :
            /\ i \in Elements(rows) ~> i \notin Elements(rows)
            /\ i \in Tokens ~> i \notin Tokens
=============================================================================
