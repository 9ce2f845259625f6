----------------------------- MODULE PointTotals -----------------------------
(***************************************************************************)
(* What an address is told of its human points: get_user_points_data and   *)
(* get_possible_points_data in Python (registry/human_points_utils.py) and *)
(* in Rust (domain/human_points.rs), which read the points, the            *)
(* multiplier, the eligibility and the configuration in queries of their   *)
(* own while points are awarded and the configuration is edited.           *)
(***************************************************************************)
EXTENDS Integers, FiniteSetsExt

CONSTANTS
  Awards,     \* what may be awarded: <<action, chain, key>>
  Uncounted,  \* the action of Human ID mints, which counts for nothing here
  PointsOf,   \* the points of each action's HumanPointsConfig
  Multiplier  \* that of a HumanPointsMultiplier

VARIABLES
  awarded,     \* registry_humanpoints
  active,      \* the actions whose configuration is active
  multiplied,  \* whether the address has a multiplier
  qualified,   \* whether it has passed in a community
  reading,     \* the program that reads, its step and what it has read
  changed      \* history: the tables that changed since it began

totalVars == <<awarded, active, multiplied, qualified, reading, changed>>
tables == <<awarded, active, multiplied, qualified>>

Actions == DOMAIN PointsOf
NoReading == [program |-> "none", step |-> "ready", rows |-> {}, total |-> 0,
              multiplier |-> 1, eligible |-> FALSE, possible |-> {}]

SumOf(points) == MapThenSumSet(LAMBDA p : PointsOf[p[1]], points)
CountedAwards == {p \in awarded : p[1] # Uncounted}
ActiveAwards == {p \in CountedAwards : p[1] \in active}
OwnMultiplier == IF multiplied THEN Multiplier ELSE 1

TotalTypeOK ==
  /\ awarded \subseteq Awards
  /\ active \subseteq Actions
  /\ multiplied \in BOOLEAN /\ qualified \in BOOLEAN
  /\ reading.program \in {"none", "python", "rust"}
  /\ reading.step \in {"ready", "multiplier", "eligible", "possible", "done"}
  /\ reading.rows \subseteq Awards
  /\ reading.total \in 0..SumOf(Awards)
  /\ reading.multiplier \in {1, Multiplier}
  /\ reading.possible \subseteq Actions
  /\ changed \subseteq {"points", "config", "multipliers", "qualified"}

TotalInit ==
  /\ awarded = {}
  /\ active \in SUBSET Actions
  /\ multiplied \in BOOLEAN
  /\ qualified = FALSE
  /\ reading = NoReading
  /\ changed = {}

-----------------------------------------------------------------------------
Alter(name) == changed' = changed \cup {name} /\ UNCHANGED reading

Award ==
  /\ \E p \in Awards \ awarded : awarded' = awarded \cup {p}
  /\ Alter("points")
  /\ UNCHANGED <<active, multiplied, qualified>>

Qualify ==
  /\ ~qualified /\ qualified' = TRUE
  /\ Alter("qualified")
  /\ UNCHANGED <<awarded, active, multiplied>>

(* The administrator edits a configuration or a multiplier.                *)
EditConfig ==
  /\ \E a \in Actions :
       active' = IF a \in active THEN active \ {a} ELSE active \cup {a}
  /\ Alter("config")
  /\ UNCHANGED <<awarded, multiplied, qualified>>

EditMultiplier ==
  /\ multiplied' = ~multiplied
  /\ Alter("multipliers")
  /\ UNCHANGED <<awarded, active, qualified>>

-----------------------------------------------------------------------------
FirstQuery(result) ==
  /\ reading = NoReading
  /\ reading' = result
  /\ changed' = {}
  /\ UNCHANGED tables

NextQuery(from, result) ==
  /\ reading.step = from
  /\ reading' = result
  /\ UNCHANGED <<tables, changed>>

(* One query for the points of active actions and the multiplier, which is *)
(* lost when there are none.                                               *)
PythonPoints ==
  FirstQuery([NoReading EXCEPT !.program = "python", !.step = "eligible",
    !.rows = ActiveAwards, !.total = SumOf(ActiveAwards),
    !.multiplier = IF ActiveAwards = {} THEN 1 ELSE OwnMultiplier])

(* Points of actions that are not active are rows that are worth nothing.  *)
RustPoints ==
  FirstQuery([NoReading EXCEPT !.program = "rust", !.step = "multiplier",
    !.rows = CountedAwards, !.total = SumOf(ActiveAwards)])

(* Plausible bug: the join leaves the condition on active out.             *)
RustPointsOfAll ==
  FirstQuery([NoReading EXCEPT !.program = "rust", !.step = "multiplier",
    !.rows = CountedAwards, !.total = SumOf(CountedAwards)])

RustMultiplier ==
  NextQuery("multiplier", [reading EXCEPT !.step = "eligible",
                                          !.multiplier = OwnMultiplier])

ReadEligible ==
  NextQuery("eligible", [reading EXCEPT !.step = "possible",
                                        !.eligible = qualified])

(* What could be had, with the multiplier that was read before.            *)
ReadPossible ==
  NextQuery("possible", [reading EXCEPT !.step = "done", !.possible = active])

TellTotals == NextQuery("done", NoReading)

TotalNext ==
  \/ Award \/ Qualify \/ EditConfig \/ EditMultiplier
  \/ PythonPoints \/ RustPoints \/ RustMultiplier \/ ReadEligible
  \/ ReadPossible \/ TellTotals

-----------------------------------------------------------------------------
(* An address is not told of more points than it has, nor of fewer than it *)
(* had, while the configuration stays; a total that is not zero comes with *)
(* its rows and, in both programs, with the same multiplier.               *)
TotalsAreTrue ==
  reading.step = "done" =>
    /\ "config" \notin changed =>
         /\ reading.total <= SumOf(ActiveAwards)
         /\ "points" \notin changed => reading.total = SumOf(ActiveAwards)
         /\ {p \in reading.rows : p[1] \in active} \subseteq ActiveAwards
         /\ reading.total = SumOf({p \in reading.rows : p[1] \in active})
         /\ reading.possible = active
    /\ reading.eligible => qualified
    /\ {"qualified", "multipliers"} \cap changed = {} =>
         /\ reading.eligible = qualified
         /\ \/ reading.multiplier = OwnMultiplier
            \/ reading.program = "python" /\ reading.rows = {}
=============================================================================
