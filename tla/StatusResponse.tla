--------------------------- MODULE StatusResponse ---------------------------
(***************************************************************************)
(* The answer a driver's page is given (serializers.py,                    *)
(* taxi_to_status_response): a request looks its taxi up and then builds   *)
(* the answer from the live records, after the lock is released.           *)
(*                                                                         *)
(* Threads give way at calls, so the answer is read in groups of fields    *)
(* with a call between them, in the order of the code (the pending return, *)
(* which has calls of its own, is read as one); any operation of TaxiRank  *)
(* may come between two groups.  The request holds the Taxi object: when   *)
(* the taxi is removed, the object stays as it was, also if the badge is   *)
(* added again.                                                            *)
(*                                                                         *)
(* The minutes shown are represented by the time they are counted to, the  *)
(* estimated wait by the position it is computed from, and a name by       *)
(* whether there is one.  A driver's notifications are represented by the  *)
(* newest, as in TaxiRank.                                                 *)
(***************************************************************************)
EXTENDS TaxiRank

VARIABLES
  reader,    \* the badge of the request in progress, or None
  part,      \* the next group of fields to be read
  response,  \* the fields read so far
  held,      \* the Taxi object, once its taxi is removed; None before
  witnessed  \* history: the whole answers of the states since the request began

request == <<reader, part, response, held, witnessed>>
responseVars == <<vars, request>>

----------------------------------------------------------------------------
QueuePosition(b) ==
  IF b \in ToSet(feeder_park_queue)
  THEN CHOOSE i \in DOMAIN feeder_park_queue : feeder_park_queue[i] = b
  ELSE None

\* The taxi the request refers to.
Object == IF held = None THEN taxis[reader] ELSE held

NameOf(t) == t # None /\ TerminalExists(t)

\* Every field as the present state has it.
TaxiStatusResponse ==
  [terminal_name |-> NameOf(Object.terminal_id),
   minutes_remaining_to_return |-> Object.return_deadline,
   pending_return_terminal_name |-> NameOf(Object.pending_return_terminal_id),
   minutes_until_added |-> IF Object.pending_return_terminal_id = None
                           THEN None ELSE Object.expected_arrival_at,
   notifications |-> notifications[reader],
   status |-> Object.status,
   queue_position |-> QueuePosition(reader),
   estimated_wait_minutes |-> QueuePosition(reader),
   terminal_id |-> Object.terminal_id,
   self_checked_in |-> Object.self_checked_in,
   exemption_type |-> Object.exemption_type,
   return_deadline |-> Object.return_deadline,
   last_return_on_time |-> Object.last_return_on_time,
   pending_return_terminal_id |-> Object.pending_return_terminal_id,
   expected_arrival_at |-> Object.expected_arrival_at]

\* The groups in the order they are read: status comes before the position is
\* looked up, the wait looks it up again, and terminal_id and those after it come
\* when the wait has been estimated.
Parts ==
  <<{"terminal_name"},
    {"minutes_remaining_to_return"},
    {"pending_return_terminal_name", "minutes_until_added"},
    {"notifications"},
    {"status"},
    {"queue_position"},
    {"estimated_wait_minutes"},
    {"terminal_id", "self_checked_in", "exemption_type", "return_deadline",
     "last_return_on_time", "pending_return_terminal_id", "expected_arrival_at"}>>

Answered == reader # None /\ part > Len(Parts)

----------------------------------------------------------------------------
ResponseInit ==
  /\ Init
  /\ reader = None /\ part = 1 /\ response = << >> /\ held = None /\ witnessed = {}

\* get_taxi_or_404, after the sweep.
Ask(b) ==
  /\ reader = None
  /\ b \in Registered
  /\ UNCHANGED vars
  /\ reader' = b /\ part' = 1 /\ response' = << >> /\ held' = None
  /\ witnessed' = {TaxiStatusResponse'}

ReadPart ==
  /\ reader # None
  /\ part <= Len(Parts)
  /\ response' = [f \in Parts[part] |-> TaxiStatusResponse[f]] @@ response
  /\ part' = part + 1
  /\ UNCHANGED <<vars, reader, held, witnessed>>

Answer ==
  /\ Answered
  /\ reader' = None /\ part' = 1 /\ response' = << >> /\ held' = None
  /\ witnessed' = {}
  /\ UNCHANGED vars

OtherRequest ==
  /\ Next
  /\ held' = IF reader # None /\ held = None /\ reader \notin Registered'
             THEN taxis[reader] ELSE held
  /\ UNCHANGED <<reader, part, response>>
  /\ witnessed' = IF reader = None \/ Answered
                  THEN witnessed ELSE witnessed \cup {TaxiStatusResponse'}

ResponseNext ==
  (\E b \in Badges : Ask(b)) \/ ReadPart \/ Answer \/ OtherRequest

ResponseSpec == ResponseInit /\ [][ResponseNext]_responseVars

----------------------------------------------------------------------------
\* README.md: "state lives in an in-memory `Store` (guarded by a lock)".  An answer
\* shows the taxi as it was at some moment of the request, as it would if it were
\* read under the lock.
ResponseIsOneState == Answered => response \in witnessed
=============================================================================
