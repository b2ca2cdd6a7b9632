--------------------------- MODULE RequestProofs ---------------------------
(***************************************************************************)
(* Theorems about requests in flight, for any number of them.              *)
(***************************************************************************)
EXTENDS RequestLayer, CapacityProofs

\* However many requests are under way, and whatever is refused, the store only
\* ever takes the steps of the operations: every theorem about Spec holds of it.
THEOREM RequestsAreOperations == RequestSpec => Spec
<1>1. RequestInit => Init
  BY DEF RequestInit
<1>2. [RequestNext]_requestVars => [Next]_vars
  BY DEF RequestNext, Sweep, StoreDependency, Operate, Refuse, TimePasses, Next,
         requestVars
<1> QED
  BY <1>1, <1>2, PTL DEF RequestSpec, Spec

----------------------------------------------------------------------------
(***************************************************************************)
(* The latest to have swept.  A request that none has overtaken operates   *)
(* on the store as its sweep, or a later one, left it, but for the clock:  *)
(* a driver that sweep left behind still waits at a full terminal.         *)
(***************************************************************************)

\* What a sweep left behind has no room until the next operation.
NoRoomForThePassedOver ==
  swept \ overtaken # {} =>
    \A b \in passed_over, t \in Terminals :
      taxis[b].pending_return_terminal_id = t => ~HasRoom(t)

RequestInv ==
  /\ IInv
  /\ passed_over \subseteq Badges
  /\ NoRoomForThePassedOver

\* A sweep leaves behind only those whose terminal is full.
LEMMA SweepFillsTerminals ==
  ASSUME RequestInv, NEW r \in Requests, Sweep(r)
  PROVE  RequestInv'
<1>1. PromoteDueReturns /\ passed_over' = {b \in Badges : Due(b)'}
  BY DEF Sweep, StoreDependency
<1>2. IInv'
  BY <1>1, PromoteDueReturnsKeepsIInv DEF RequestInv
<1>3. terminals' = terminals
  BY <1>1 DEF PromoteDueReturns, site
<1>4. ASSUME NEW b \in passed_over', NEW t \in Terminals,
             taxis'[b].pending_return_terminal_id = t
      PROVE  ~HasRoom(t)'
  <2>1. b \in Badges /\ Due(b)'
    BY <1>1
  <2>2. taxis'[b] = taxis[b] /\ Occupancy(t)' >= terminals[t]
    BY <1>1, <1>4, <2>1, PassLeavesNobodyBehind DEF RequestInv
  <2>3. Occupancy(t)' \in Nat /\ terminals[t] \in Nat
    <3>1. IsFiniteSet(AtRank(t)') 
      <4>1. AtRank(t)' \subseteq Badges
        BY <1>2 DEF AtRank, Registered, ToSet, IInv, TypeOK
      <4> QED
        BY <4>1, RankAssumption, FS_Subset
    <3> QED
      BY <3>1, FS_CardinalityType DEF Occupancy, RequestInv, IInv, TypeOK
  <2> QED
    BY <1>3, <2>2, <2>3 DEF HasRoom
<1> QED
  BY <1>1, <1>2, <1>4 DEF RequestInv, NoRoomForThePassedOver

\* An operation overtakes every other request, and nothing else frees a place.
LEMMA RequestStep ==
  ASSUME RequestInv, [RequestNext]_requestVars
  PROVE  RequestInv'
<1>1. ASSUME NEW r \in Requests, Sweep(r) PROVE RequestInv'
  BY <1>1, SweepFillsTerminals
<1>2. ASSUME NEW r \in Requests, Operate(r) PROVE RequestInv'
  <2>1. swept' \ overtaken' = {}
    BY <1>2 DEF Operate
  <2>2. [Next]_vars
    BY <1>2 DEF Operate, Next
  <2>3. passed_over' \subseteq passed_over
    BY <1>2 DEF Operate, StillWaiting
  <2> QED
    BY <2>1, <2>2, <2>3, NextKeepsIInv DEF RequestInv, NoRoomForThePassedOver
<1>3. CASE (\E r \in Requests : Refuse(r)) \/ TimePasses \/ UNCHANGED requestVars
  <2>1. [Next]_vars
    BY <1>3 DEF Refuse, TimePasses, Next, requestVars
  <2>2. UNCHANGED <<taxis, registered, terminals>>
    BY <1>3 DEF Refuse, TimePasses, Tick, requestVars, vars, site
  <2>3. passed_over' \subseteq passed_over
    BY <1>3 DEF Refuse, TimePasses, StillWaiting, requestVars
  <2>4. swept' \ overtaken' \subseteq swept \ overtaken
    BY <1>3 DEF Refuse, TimePasses, requestVars
  <2>5. \A t \in Terminals : HasRoom(t)' <=> HasRoom(t)
    BY <2>2 DEF HasRoom, Occupancy, AtRank, Registered
  <2> QED
    BY <2>1, <2>2, <2>3, <2>4, <2>5, NextKeepsIInv DEF RequestInv, NoRoomForThePassedOver
<1> QED
  BY <1>1, <1>2, <1>3 DEF RequestNext

\* The pass gives places to those who are due.
LEMMA SweepSeatsTheDue ==
  ASSUME IInv, PromoteDueReturns, NEW t \in Terminals, NEW c \in Seated(t)
  PROVE  Due(c)
<1>1. c \in Added(t)
  BY OccupancyAfterPass DEF Seated
<1> QED
  BY <1>1 DEF Added, Promoted

\* However many requests are under way, a place that frees up at a terminal for which
\* a due driver has been left waiting is taken from that driver only by a request that
\* another has overtaken between its sweep and its operation.
THEOREM LatestSweepIsFair == RequestSpec => OnlyTheOvertakenJumpIn
<1>1. RequestInit => RequestInv
  BY InitIInv DEF RequestInit, RequestInv, NoRoomForThePassedOver
<1>2. RequestInv /\ [RequestNext]_requestVars => RequestInv'
  BY RequestStep
<1>3. RequestInv /\ [RequestNext]_requestVars =>
        [\A b \in passed_over, t \in Terminals :
           /\ taxis[b].pending_return_terminal_id = t
           /\ HasRoom(t)
           => \/ \A c \in Seated(t) : Due(c)
              \/ \E r \in overtaken : r \notin swept']_requestVars
  <2> SUFFICES ASSUME RequestInv, RequestNext,
                      NEW b \in passed_over, NEW t \in Terminals,
                      taxis[b].pending_return_terminal_id = t, HasRoom(t)
               PROVE  \/ \A c \in Seated(t) : Due(c)
                      \/ \E r \in overtaken : r \notin swept'
    OBVIOUS
  <2>1. swept \subseteq overtaken
    BY DEF RequestInv, NoRoomForThePassedOver
  <2>2. CASE \E r \in Requests : Sweep(r)
    BY <2>2, SweepSeatsTheDue DEF Sweep, StoreDependency, RequestInv
  <2>3. CASE \E r \in Requests : Operate(r) \/ Refuse(r)
    BY <2>1, <2>3 DEF Operate, Refuse
  <2>4. CASE TimePasses
    <3>1. AtRank(t)' = AtRank(t)
      BY <2>4 DEF TimePasses, Tick, AtRank, Registered
    <3> QED
      BY <3>1 DEF Seated
  <2> QED
    BY <2>2, <2>3, <2>4 DEF RequestNext
<1> QED
  BY <1>1, <1>2, <1>3, PTL DEF RequestSpec, OnlyTheOvertakenJumpIn
=============================================================================
