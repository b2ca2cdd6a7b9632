---------------------------- MODULE RequestLayer ----------------------------
(***************************************************************************)
(* Requests in flight.  The endpoints are plain functions, so the server   *)
(* runs the two parts of a request on its thread pool, one after the       *)
(* other: first its dependency (deps.store_dependency), which sweeps the   *)
(* pending returns and releases the lock, then one operation, which takes  *)
(* the lock again.  Other requests, and the clock, run in between, however *)
(* many threads there are, since each part is dispatched on its own.       *)
(*                                                                         *)
(* What a request asks for does not matter to its sweep, so it is chosen   *)
(* when the operation runs.  A request that is refused, or only reads,     *)
(* leaves the store as the sweep left it.                                  *)
(***************************************************************************)
EXTENDS TaxiRank

CONSTANT Requests  \* the requests that may be under way at a time

VARIABLES
  swept,       \* the requests between their sweep and their operation
  overtaken,   \* history: those of them since whose sweep another has operated
  passed_over  \* history: the due drivers left without a place by the latest sweep

requestVars == <<vars, swept, overtaken, passed_over>>

RequestInit == Init /\ swept = {} /\ overtaken = {} /\ passed_over = {}

\* Those that no operation has settled since keep waiting.
StillWaiting == passed_over' = {b \in passed_over : Due(b)'}

\* Faulty variant: the dependency hands out the store without the sweep.
Bug_NoSweep == UNCHANGED vars

StoreDependency == PromoteDueReturns

Sweep(r) ==
  /\ r \notin swept
  /\ StoreDependency
  /\ swept' = swept \cup {r}
  /\ passed_over' = {b \in Badges : Due(b)'}
  /\ UNCHANGED overtaken

Operate(r) ==
  /\ r \in swept
  /\ AdminStep \/ DriverStep \/ RankAgentStep
  /\ swept' = swept \ {r}
  /\ overtaken' = swept'
  /\ StillWaiting

\* The operation raises NotFoundError or ConflictError, or is a read.
Refuse(r) ==
  /\ r \in swept
  /\ swept' = swept \ {r}
  /\ overtaken' = overtaken \ {r}
  /\ UNCHANGED <<vars, passed_over>>

TimePasses == Tick /\ StillWaiting /\ UNCHANGED <<swept, overtaken>>

RequestNext ==
  \/ \E r \in Requests : Sweep(r) \/ Operate(r) \/ Refuse(r)
  \/ TimePasses

RequestSpec == RequestInit /\ [][RequestNext]_requestVars

----------------------------------------------------------------------------
\* The drivers who take a place at t in a step.
Seated(t) == AtRank(t)' \ AtRank(t)

\* A place that frees up at a terminal for which a due driver has been left waiting
\* is taken from that driver only by a request that another one has overtaken
\* between its sweep and its operation: a request that is still the latest to have
\* swept when it operates finds every such place given away by its own sweep.
OnlyTheOvertakenJumpIn ==
  [][\A b \in passed_over, t \in Terminals :
       /\ taxis[b].pending_return_terminal_id = t
       /\ HasRoom(t)
       => \/ \A c \in Seated(t) : Due(c)
          \/ \E r \in overtaken : r \notin swept']_requestVars

(***************************************************************************)
(* README.md: "If the terminal fills up in the meantime, the driver is     *)
(* added automatically as soon as a slot frees up."                        *)
(***************************************************************************)

\* While a driver whom a sweep left out for want of a place waits for a terminal,
\* a place that frees up there goes to a driver whose return is due, never to one
\* who is called, or has only now asked to return.
PlaceGoesToTheDue ==
  [][\A b \in passed_over, t \in Terminals :
       /\ taxis[b].pending_return_terminal_id = t
       /\ HasRoom(t)
       => \A c \in Seated(t) : Due(c)]_requestVars
=============================================================================
