# The Heathrow taxi rank, in TLA+

This directory verifies the server in `src/app`: an in-memory store, the
services that change it, the requests that call the services, and the load
simulation that drives the same services through a day. TLC checks the models
on small instances; TLAPS proves the safety properties of the services, of the
requests, of the feeder park screen and of the simulated day, and that the
services implement an abstract one, for any number of taxis, terminals and fares.

Contents: [the system](#the-system) · [how it is modelled](#how-it-is-modelled)
· [what the runs show](#what-the-runs-show) ·
[disagreements found](#disagreements-found) · [what is proved](#what-is-proved)
· [what is only model-checked, and what is left out](#what-is-only-model-checked-and-what-is-left-out)
· [plan](#plan) · [running the checks](#running-the-checks)

## The system

A licensed taxi waits in the *feeder park*, is called to a *terminal's rank*,
takes a fare, and goes to the back of the park, unless the fare was short
(*Local* or *Fares Fare*). Then it is *exempt*: for some minutes it may return
straight to a terminal. Everything is kept in memory; a restart loses it all.

| Component | State it keeps | Operations | What makes it correct |
|---|---|---|---|
| Store (`models.py`, `store.py`) | taxis, terminals, agents, fares, notifications, queue, dispatch events, traffic level, one lock | – | records whose fields agree with each other (`RecordsCoherent`) |
| Administration (`admin_service.py`) | – | add/remove taxi, agent, terminal; set traffic level | removing something in use leaves nothing dangling that matters (`QueueHoldsTheWaiting`, `ClosedRankHoldsItsTaxis`) |
| Feeder park (`queue_service.py`) | the queue | join, leave, position, snapshot | first come, first served (`FirstComeFirstServed`, `WaitingDriverIsCalled`) |
| Feeder park screen (`routers/screens.py`, `throughput.py`) | the times of calls | read the queue, row by row | what is shown stays useful while the queue moves (`PositionIsABound`, `OmissionsHaveDepartures`) and the call interval stays sane (`IntervalWithinReason`) |
| Dispatch (`dispatch_service.py`, `throughput.py`, `notifications.py`) | dispatch events, notifications | call the next taxi | the driver at the front is called and told where to go (`AssignmentIsNotified`) |
| Fares and exemption (`fare_service.py`, `data/destinations.py`) | fares, exemptions, pending returns | record and complete a fare; return to a terminal; promote due returns | fares belong to their taxis, deadlines are firm, returns fit the rank and nobody is forgotten |
| Requests (`main.py`, `deps.py`, `routers/`, `serializers.py`) | – | sweep, then one operation, then a response | a freed place goes to a driver whose return is due (`PlaceGoesToTheDue`, `OnlyTheOvertakenJumpIn`) |
| Simulation (`simulation/`) | its own buckets, list of waiting taxis, statistics | a day, minute by minute | its books agree with the store (`WaitingIsTheRank`, `ExemptAreCounted`) |
| Clock (`clock.py`) | the simulated time, if any | now | – |
| Pages, geofence, report, scripts | – | rendering, wording | – |

**How they interact.** Endpoints and dependencies are plain functions, so the
framework runs them on a pool of threads. A request first resolves its dependency
(`deps.store_dependency`), which runs `promote_due_returns`: one pass over all
taxis that adds to a rank each pending return whose time has come and for which
there is room. Then the endpoint, dispatched to the pool on its own, calls one
service function: even a pool of one thread does not keep another request from
coming in between. Each service function, and the pass, takes `store.lock` for its
whole body, *separately*. The response is built from the live records after the
lock is released. Nothing runs by itself: without requests no return is promoted.
The pages poll every few seconds, so in practice requests keep coming. The
simulation is a single thread that calls the services directly, with a simulated
clock and without requests.

**What is hard.** The pass changes the occupancy it compares with; a place is
competed for by calls (which ignore capacity), immediate returns and promotions;
terminals and taxis are removed while in use; an exemption's fields are set and
cleared by four operations; requests interleave between sweep and operation;
answers and screens are read without the lock while the store changes; a date may
overflow half-way through an operation; the simulation mirrors the rank in a list of its own and retries on a bucket it is
iterating over. `PROJECT.json` lists these hazards line by line, each with the
properties that would catch it.

## How it is modelled

| Module | Models | Extends / instances |
|---|---|---|
| `FareRules` | the destination lookup, the classification and the minutes granted, as operators | – |
| `TaxiRank` | the store and every service operation that changes it; **the core** | `FareRules` |
| `PromotionLoop` | the loop of `promote_due_returns` as written, to compare with the closed form in `TaxiRank` | `TaxiRank` |
| `RankLiveness` | the fairness of calls, sweeps and time | `TaxiRank` |
| `RankService` | the abstract promise: where each driver is, who is next, for whom there is room | – |
| `RankRefinement` | the mapping under which `TaxiRank` implements `RankService` | `TaxiRank`, `RankService` |
| `RequestLayer` | several requests under way: sweep and operation apart | `TaxiRank` |
| `FeederScreen` | the feeder park screen, read row by row beside the operations, and the call interval | `TaxiRank` |
| `StatusResponse` | the answer to a driver's page, read field by field beside the operations | `TaxiRank` |
| `OutOfRange` | `complete_fare` and `return_to_terminal` when a date overflows | `TaxiRank` |
| `SimulationDay` | the minute loop of `simulation/engine.py` over the same operations | `TaxiRank` |
| `MCTaxiRank`, `MCRequests`, `MCScreen`, `MCResponse`, `MCRange`, `MCSimulation` | constants for TLC | the above |
| `SequenceLemmas`, `TaxiRankProofs`, `CapacityProofs` | the proofs about the services | `TaxiRank` |
| `RefinementProofs`, `RequestProofs`, `ScreenProofs`, `SimulationProofs` | the proofs about what is built on them | the module proved about, and `CapacityProofs` |

**State of `TaxiRank`.** `store.taxis` is split in two: `taxis`, a record per
badge with the fields the services read, and `registered`, the keys in insertion
order (the pass walks the dict in that order, and it decides who gets the last
place). A badge without a taxi has the record `NewTaxi`. `terminals` is a
capacity per terminal, 0 when there is none. `fares` holds the fares in
progress; `notifications` the terminal named by the newest of each driver.

**Actions.** One per service function, guarded by its conditions; a function that
raises `NotFoundError` or `ConflictError` has changed nothing by then, so the
action is not enabled. The lock is held for the whole function, so each is
atomic. `promote_due_returns` is given in closed form — a due taxi is added
exactly if its terminal has room for it and for all the due taxis before it — and
`SweepIsTheLoop` compares the form with the loop, in every state.

**Requests.** In `TaxiRank` the sweep may come between any two operations, which
covers any number of requests: what is proved there holds whatever the
interleaving. `RequestLayer` tells the requests apart, for the properties that
depend on whose sweep preceded an operation. Its constant `Requests` bounds how
many are under way at a time, not the threads. Two history variables serve the
properties alone: `passed_over`, the due drivers whom the latest sweep left without
a place, and `overtaken`, the requests that another's operation has come between.

**Reads without the lock.** A reader is a process of its own whose steps lie
between operations of `TaxiRank`. The screen reads one queue entry per step: the
index of the walk is state, and entries move beneath it. A status answer is read
in eight groups of fields, split at calls, which is where threads give way (a
pending return, with calls of its own, is read as one). The request holds the `Taxi` object, which outlives
the removal of its taxi. History variables (`kept`, `waited`, `departures`,
`witnessed`) record what the properties compare with and decide nothing.

**Dates.** `TaxiRank` lets the clock run on for ever. In `OutOfRange` a date past
`LastDate` is never stored: the assignments before the addition have happened,
those after it have not.

**Time** is counted in ticks, `MinuteTicks` to a minute; a traffic multiplier is a
number of ticks per granted minute, so the product with fractional multipliers
is exact. **Destinations** are members of a small set; which text contains which
key is a parameter (`Overlaps`).

**Simulation.** A minute of `run_simulation` is six phases in the program's
order, a step per operation. Random draws are choices among what the generators
can draw: `Shifts` cuts a shift off as `population.py` does, passengers come only
in minutes that some flight and delay lead to (`PassengersReady`), and the minutes
out and back follow from the destination (`OneWayMinutes`, `ReturnLegMinutes`). A
simulated minute is `SimMinute` units of time, because trips and arrival times are fractional and the
program rounds them to decide in which minute to end a fare or check a return: a
round trip of 55 minutes has legs of 27.5. `Rounded` is Python's `round`, which
takes a half to the even neighbour, so a check may come half a minute before its
return is due, or after. `counted_out` is a history variable: the drivers counted
as not returned since they last ended a fare. Phases that run through a
list filled earlier (shifts, ending fares, checks) take its members in any
order, more behaviours than the program has.

**Mutants.** Every property of a passing run has a faulty variant of a definition
(`Bug_...`, placed just before the definition it replaces): the kind of mistake a
change to the code could make, which the run then reports. The models never use
them.

## What the runs show

| Run | Instance | States | Properties |
|---|---|---|---|
| `core` | 3 taxis that may be due at once, 1 terminal of 1 or 2 places | 450 k | types; the queue and the statuses agree; the park is first come, first served; the loop of the pass and its closed form agree; returns never overfill a terminal; a pass leaves nobody behind |
| `two_terminals` | 2 taxis, 2 terminals that open and close, every override, immediate and pending returns | 280 k | records stay coherent; fares belong to the taxis that refer to them; drivers are told where to go; at least the floor is granted and no later choice moves the deadline; a taxi at a closed rank can do nothing; `TaxiRank` implements `RankService` |
| `liveness` | 2 taxis, 1 terminal | 30 k | waiting drivers are called; pending returns are settled |
| `overtaken` | 3 taxis, 1 terminal, 2 requests at a time; returns announced beyond `Lead` | 1.3 M | a freed place is taken from a due driver left waiting only by a request that another has overtaken |
| `screen` | 3 taxis that join, leave, are called and removed, no fares; 3 calls over 3 ticks | 1.0 M | the interval is sane; rows keep the queue's order; a position is never too good; omissions have departures; those due soon come first |
| `simulation` | 2 drivers, 1 terminal of 1 place, 9 minutes of 2 units, 4 passengers | 420 k | no fare is refused; the program's list is the rank; no rank is overfilled; fares stay apart and all end; nobody off shift stays in the park; each driver still exempt at the end was counted for its last fare; the day ends |

The runs that end in a counterexample on purpose are in the next section.

**Why these bounds are enough to be interesting.** Two taxis compete for one
place; a third is needed only where one taxi must stand between two others (the
order of the queue, several due taxis in a pass, a driver left out by a sweep
while others compete for the next place), and these runs have three. With capacities 1 and 2
a terminal is full, has one place, and changes its capacity by being removed and
added again. Arrivals lie `Etas` ahead, within `Lead` and beyond it
(only beyond it where pending returns are the question), and the clock reaches
the time at which they are due. `FareIds` bounds the fares *in progress*: the id of a
completed fare stands for the next fresh one, and a fare whose taxi was removed
keeps its id for ever. `core` and `two_terminals` have one id: a taxi may lose
its fare by being removed, and be added again. The simulation has two, and two
fares in progress side by side. `MaxDispatches` bounds a counter only
`FeederScreen` needs more of, which keeps the times of the calls itself.
Restricted further: each run has only the table entries and overrides its
properties depend on; `two_terminals` has estimates below the floor of one class
and at that of the other, and the runs leave traffic at `normal`, which the
theorem `DeadlinesAreFirm` does not. On the screen, calls leave the window
(`Window` is shorter than the clock's range), coincide, and are as few as the
default needs; a wait lies within and beyond `Lookahead`. In the simulation,
a minute is two units and legs, arrivals and checks fall on whole and on half
minutes, halves below and above an even minute; a shift ends
during the day, at its end and in the buffer; a trip outlasts the buffer; and
`MaxRetries` and `RetryDelay` are 1 rather than 8 and 5, so that the retry, the
giving up and a later sweep that still adds the driver happen within nine
minutes.

Deadlock is not checked: when the bounds are used up (or the simulated day is
over) nothing more happens.

**Fairness.** The server takes no step by itself, so the specifications of the
safety runs have none. `RankLiveness` assumes that time passes and that the sweep
runs again and again (weakly fair: it runs before *every* request, and the
driver, agent and screen pages poll every few seconds for as long as one is
open), and that some terminal calls a taxi infinitely often if it can (strongly
fair, because terminals may close and open between calls). The latter is about
the airport, not the code, and only `WaitingDriverIsCalled` needs it, together
with the premise that a terminal is open again and again. `WithinHorizon` keeps
announced arrivals below the clock's bound, or time could never reach them.
Drivers and administrators are never assumed to do anything. `SimSpec` assumes
that the program, a single thread that blocks nowhere, takes its next step.

## Disagreements found

Each is a run that TLC ends with a counterexample, on purpose.

* **A rank holds more than its capacity** (`over_capacity`). `README.md:38`: each
  terminal "holds at most 15 taxis at once". `call_next_taxi` does not look at
  the capacity: calling twice for a rank of one place puts two taxis there. What
  does hold, and is proved, is that *returning* drivers never overfill a rank
  (`ReturnsRespectCapacity`).
* **An agent's estimate is dropped** (`dropped_override`). `README.md:28`: an agent
  "can always override the classification and round-trip estimate" of an unknown
  destination. An estimate without a classification is ignored
  (`fare_service.py:45`).
* **A waiting return loses its place to a call** (`two_requests`). `README.md:45`: a
  driver who found the terminal full "is added automatically as soon as a slot
  frees up". With two requests under way, one frees the place between the sweep and
  the operation of the other, and that operation's call takes it. This is the only
  way the place is lost, however many requests there are (`LatestSweepIsFair`):
  when each request ends before the next begins, none is overtaken, and the place
  goes to a driver whose return is due.
* **A simulated driver is counted twice** (`double_count`). Picking a terminal
  counts as a return at once (`engine.py:196`), and giving up after the retries
  counts as a non-return (`engine.py:229`), against the equation
  `tests/test_simulation.py:40` asserts.

* **An answer mixes two states** (`torn_response`). `README.md:85`: state is kept in
  a store "guarded by a lock". `taxi_to_status_response` reads after the lock is
  released, and the estimated wait looks the position up a second time: a driver
  who joins in between is shown offline, with no position, and with a wait.
* **An exemption without a deadline** (`out_of_range`). `fare_service.py:105`: short
  fares "start a return deadline". `round_trip_override_minutes` and `eta_minutes`
  have no upper bound (`schemas.py:104`, `:121`), and the addition that overflows
  comes after the other assignments: the fare is closed and the taxi exempt, with
  no deadline (and its return counts as on time); or a terminal is chosen with no
  arrival, and no sweep ever adds the driver, who has to choose again.

Not counted as disagreements, because nothing in the repository says otherwise,
but worth knowing: the pass serves pending returns in the order in which their
taxis were *registered*, so a driver left out by one pass can lose the next place
to one whose return became due later; and a simulated driver who has given up is
still pending in the store, so a sweep made for another driver may yet add the
taxi to a rank.

## What is proved

Each theorem holds for every value of the constants that satisfies their
assumptions. Those of the core (`RankAssumption`, `FareAssumption`,
`NoneAssumption`, `TableAssumption`, `TimeAssumption`) say that there are finitely
many badges, `None` is none of the other values, capacities are positive and
estimates not negative as `schemas.py:28`, `:104` and `:121` require, the default
terminals exist, the floor is a number of minutes and no traffic level grants
less than a minute per minute. `ScreenAssumption` and `SimulationAssumption` say
that the configured numbers are numbers, a day has a minute, and what is divided
by is not 0; and that the window holds as many of the least gaps as the estimate
needs. Nothing is assumed of the length of a simulated minute but that it is not
0: an even `SimMinute` represents the program's table and its half minutes
exactly, an odd one rounds half units down, and the theorems hold of both.

| Theorem | States |
|---|---|
| `TypeCorrect`, `QueueIsRight`, `RecordsAreRight`, `FareLedgerIsRight`, `AssignmentsAreNotified` | the five invariants of the store |
| `FeederParkIsFair` | the feeder park is first come, first served |
| `FloorIsGranted`, `DeadlinesAreFirm` | the minutes granted are at least the floor, and a deadline does not move while the exemption lasts |
| `ClosedRanksHoldTheirTaxis` | a taxi at a closed rank can do nothing |
| `ReturnsFit` | however many drivers are due in one pass, returns never overfill a terminal |
| `PassIsTheLoop` | the loop of `promote_due_returns`, visit by visit, ends where the closed form says |
| `NobodyIsForgotten` | however many are due, a pass leaves one waiting only at a full terminal |
| `ServiceIsImplemented` | `TaxiRank` implements `RankService` |
| `RequestsAreOperations` | any number of requests under way take only the steps of `TaxiRank`, so all of the above holds of the server |
| `LatestSweepIsFair` | a freed place is taken from a due driver left waiting only by a request that another has overtaken between its sweep and its operation |
| `IntervalIsReasonable` | the call interval is the default or within its bounds, and nothing is divided by 0 (`ScreenTypeCorrect`) |
| `PositionsAreBounds`, `RowsAreInOrder`, `DueSoonIsInOrder`, `OmissionsAreBounded` | what the screen says of drivers who stay, and how many it can leave out |
| `SimInvariance` | throughout a simulated day the store keeps its invariant, all drivers and terminals stay, the loop has in hand only what belongs to its phase, and the store's clock shows the loop's minute |
| `SimulatedLedgerIsRight` | fares belong to the taxis that refer to them, in a simulated day too |
| `NothingIsRaised`, `ListsAreRanks`, `SnapshotsFit` | the simulation's own lists are the ranks, so no fare is refused; no rank is over its capacity |
| `FaresEnd` | every fare of the day ends in it |
| `OffShiftLeaves` | nobody off shift stays in the park |
| `NoReturnIsLost` | each driver still exempt at the end was itself counted as not returned, for its last fare |

*The invariant of the store.* None of the five is inductive alone. `CallNextTaxi`
indexes `taxis` with the head of the queue, so its type needs
`QueueHoldsTheWaiting`; that needs the queue and `registered` to hold no badge
twice; `CompleteFare` looks up the fare, so types and deadlines need
`FareLedgerAgrees`; and a fare that is completed must not be another taxi's.
`IInv` (`TaxiRankProofs`) is their conjunction with `RegisteredOnce`. One lemma
per action shows that it keeps `IInv`; administrator actions that touch only the
site (terminals, agents, traffic, time) share one. Theorems about steps
(`[][...]_vars`) use `IInv` in the state before the step. All that follows rests
on `IInv`.

*Sequences.* `RemoveFirst`, `Append`, `Tail` and `\o` are what happens to the queue
and to the lists. `SequenceLemmas` derives once what they do to the elements, to
repetition and to the order of those that stay.

*One pass.* `CapacityProofs` needs two arguments that no invariant gives, because a
pass adds several taxis at once. Of the taxis it adds to one terminal, take the one
registered last: all the others are due before it, so its own test, occupancy
plus those before it below the capacity, bounds the total. Of the due it leaves
behind at one terminal, take the one registered first: all the due before it were
added, and with them the terminal is full, or it would have been added, too.
Finiteness of `Badges` is used here only, and for counting. The same first driver
left behind shows that the loop, which counts the rank again at each visit, agrees
with the closed form (`LoopFindsAPlace`): if all the due before a taxi were added,
both count the same, and otherwise both find the terminal full. `Pass`, the
records after each visit, is a recursive function; that it exists and equals the
closed form after every visit is shown by the least visit at which it would not.

*The refinement.* The mapping reads the abstract places off the records, so the
work is to say where everybody is after a step that changes one record
(`OneTaxiMoves`) or, in a pass, those of the taxis due. Under it each operation is
one abstract step or a stutter; which is decided action by action, as
`CompleteFare` is two of them. That the abstract service has its own copies of the
operators on sequences and sets is a lemma (`SameOperators`).

*Requests.* A request's step is an operation, or leaves the store alone, whatever
other requests do (`RequestsAreOperations`). `LatestSweepIsFair` rests on the
invariant `NoRoomForThePassedOver`: as long as some request that has swept is not
overtaken, the terminals of those left behind are full. A sweep establishes it,
since a pass leaves a driver waiting only at a full terminal; an operation makes it
vacuous by overtaking every other request; refusals and time free no place. So a
request that finds a place free for a driver left waiting has been overtaken.

*The screen.* All of it follows from one fact about the queue under the walk
(`QueueAfterStep`): a step takes out at most one driver, those behind move up by
one, and a newcomer goes to the back. So a place a row gives can only improve; two
that stay keep their order; and a driver not yet shown comes to stand before the
index only when somebody leaves, which bounds the omissions by the departures.
`IntervalWithinReason` is about numbers alone: the span of calls within the window
is at most the window, and there are at least `MinEvents - 1` gaps.

*The simulated day.* `SimSpec` does not imply `Spec` (its day starts with all taxis
registered, and the estimates of its returns come from elsewhere), so `SimBase`
shows anew that each phase keeps `IInv`, with what the loop knows beside it: all
drivers stay registered, all terminals stay open, a taxi is in hand only in the
phase that handles it, with the status it expects, and `now` is `minute` times
`SimMinute` (`ClockAgrees`). Four groups of facts are then
inductive relative to it:

* `RankLists`: each list is its rank but for the taxi in hand. A rank is within its
  capacity because a taxi is called from the park only when the rank is empty, and
  leaves before anybody looks; for returns and passes the lemmas of
  `CapacityProofs` bound it. The taxi in hand waits at a rank, which is what
  `record_fare` needs.
* `FiledFares`: a taxi on a fare has a fare filed for this minute or a later one of
  the day, and fares recorded are fares completed plus fares filed.
* `ParkIsOnShift`: who is in the park has not passed the end of the shift, save the
  driver whose fare just ended, whom the loop looks at next.
* `ReturnsAreCounted`: an exempt driver is *settled* when no check is left for it
  and it is not in hand; each settled driver is in `counted_out`, which only the
  end of its next fare takes it out of. A check taken from the current bucket is either filed again, in
  the same bucket perhaps when the day is about to end, or its driver is counted;
  so checks are looked for from the current minute on.

TLC checked each of these on the instance of the run `simulation` before it was
proved.

## What is only model-checked, and what is left out

*Checked by TLC, not proved.* Liveness and everything under fairness
(`WaitingDriverIsCalled`, `PendingReturnIsSettled`, `DayEnds`), which is beyond the
proof system. Every other property of a passing run is a theorem. The
disagreements are counterexamples; three of them are about reads, requests or
numbers that the theorems do not speak of.

*Assumed.* Numbers stay in range, except in `OutOfRange`: the theorems about
`TaxiRank` hold for minutes that lead to dates that exist. Threads switch at calls
and at the ends of loop iterations, as CPython's do. Ids drawn by `new_id` never
repeat among fares in progress. A restart is a new behaviour from `Init`.

*Left out.* Names, wording, timestamps that are only displayed, the read
flag of notifications, administrators (recorded and never read again), the
geofence (adds a sentence to a notification), random distributions, the report,
templates, scripts. `PROJECT.json` says for each component which part is covered.

*Not modelled.* The rank board (`rank_agent.py:53`) and the administrator's lists:
they iterate over the live dicts, so a taxi added meanwhile makes the iteration
raise, which is the interpreter's doing; each entry they show is an answer of
`StatusResponse`. The browser pages: they change the store only through the
requests modelled here, and what they draw late the next poll redraws. The
rounding of waits and intervals for display: in the code `due_soon` compares the
rounded wait.

## Plan

1. **Core** (done): `FareRules`, `TaxiRank`, `PromotionLoop`, `RankService`,
   `RankRefinement`, `RankLiveness`; the invariants proved.
2. **Around the core** (done): `RequestLayer`, `SimulationDay`.
3. **Reads without the lock** (done): `StatusResponse`, `FeederScreen`.
4. **Estimates out of range** (done): `OutOfRange`.
5. **Theorems** (done): every invariant and action property that the passing runs
   check; the refinement; the server's requests as operations.
6. **Next**: theorems about what `StatusResponse` and `OutOfRange` do keep (which
   fields of an answer belong together; what an overflow leaves as it was), beside
   the properties they are known to violate.

## Running the checks

    tlc -workers 2 -config Core.cfg MCTaxiRank.tla     # a run
    tlapm TaxiRankProofs.tla                                # a proof module

`PROJECT.json` lists every run with its module and configuration. With two workers
`core`, `two_terminals`, `overtaken` and `screen` take one to two minutes,
the others less; the proof modules take about ten minutes together from nothing.
