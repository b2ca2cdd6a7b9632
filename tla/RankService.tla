---------------------------- MODULE RankService ----------------------------
(***************************************************************************)
(* What the taxi rank promises, with no badge records, notifications,      *)
(* fares or clocks: where each driver is, who is next, and whom a rank      *)
(* has room for.  TaxiRank implements it (see RankRefinement).             *)
(*                                                                         *)
(* A driver is in the park, at one rank, away with a passenger, exempt (on *)
(* the way back from a short trip, entitled to skip the park), or in none  *)
(* of these.  The promises: the park is served in order of arrival; only a *)
(* driver away on a fare becomes exempt; an exempt driver is owed a place  *)
(* at a rank until it gets one or withdraws; and the drivers who use that  *)
(* right, however many at once, never fill a rank beyond its room.         *)
(***************************************************************************)
EXTENDS Integers, Sequences, SequencesExt, FiniteSets

CONSTANTS Drivers, Ranks

VARIABLES
  park,   \* the drivers in the park, the next one to be called first
  rank,   \* the drivers at each rank
  away,   \* the drivers with a passenger
  exempt, \* the drivers owed a place at a rank
  room    \* the places at each rank, none at a closed one

vars == <<park, rank, away, exempt, room>>

AtSomeRank == UNION {rank[r] : r \in Ranks}
OffDuty == Drivers \ (ToSet(park) \cup AtSomeRank \cup away \cup exempt)

Init ==
  /\ park = << >>
  /\ rank = [r \in Ranks |-> {}]
  /\ away = {}
  /\ exempt = {}
  /\ room \in [Ranks -> Nat]

Arrive(d) ==
  /\ d \in OffDuty
  /\ park' = Append(park, d)
  /\ UNCHANGED <<rank, away, exempt, room>>

\* A driver waiting in the park is called to an open rank.
Call(r) ==
  /\ room[r] # 0
  /\ park # << >>
  /\ rank' = [rank EXCEPT ![r] = @ \cup {Head(park)}]
  /\ park' = Tail(park)
  /\ UNCHANGED <<away, exempt, room>>

Hire(d, r) ==
  /\ room[r] # 0
  /\ d \in rank[r]
  /\ rank' = [rank EXCEPT ![r] = @ \ {d}]
  /\ away' = away \cup {d}
  /\ UNCHANGED <<park, exempt, room>>

\* After a trip the driver goes to the back of the park, or earns the exemption.
Finish(d) ==
  /\ d \in away
  /\ away' = away \ {d}
  /\ \/ park' = Append(park, d) /\ UNCHANGED exempt
     \/ exempt' = exempt \cup {d} /\ UNCHANGED park
  /\ UNCHANGED <<rank, room>>

\* Exempt drivers take places at the ranks given by "at", all in one step.
CheckIn(drivers, at) ==
  /\ exempt' = exempt \ drivers
  /\ rank' = [r \in Ranks |-> rank[r] \cup {d \in drivers : at[d] = r}]
  /\ \A d \in drivers : Cardinality(rank'[at[d]]) <= room[at[d]]
  /\ UNCHANGED <<park, away, room>>

\* A driver goes off duty, from anywhere.
Withdraw(d) ==
  /\ park' = RemoveFirst(park, d)
  /\ rank' = [r \in Ranks |-> rank[r] \ {d}]
  /\ away' = away \ {d}
  /\ exempt' = exempt \ {d}
  /\ UNCHANGED room

\* Ranks are opened and closed; the drivers at them are left where they are.
Refit ==
  /\ room' \in [Ranks -> Nat]
  /\ UNCHANGED <<park, rank, away, exempt>>

Next ==
  \/ \E d \in Drivers : \/ Arrive(d)
                        \/ \E r \in Ranks : Hire(d, r)
                        \/ Finish(d)
                        \/ Withdraw(d)
  \/ \E r \in Ranks : Call(r)
  \/ \E drivers \in SUBSET exempt : \E at \in [drivers -> Ranks] : CheckIn(drivers, at)
  \/ Refit

Spec == Init /\ [][Next]_vars
=============================================================================
