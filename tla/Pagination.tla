----------------------------- MODULE Pagination -----------------------------
(***************************************************************************)
(* A client that walks through the pages of the registry API               *)
(* (src/api/registry/api/v1.py) while rows come, go and move: the stamps   *)
(* of an address by cursors, newest first, to the last page and perhaps    *)
(* back up; the scores of a scorer by offsets, in the order of their ids   *)
(* or of their last_score_timestamp.                                       *)
(***************************************************************************)
EXTENDS Integers, FiniteSets

CONSTANTS
  LastRow,   \* bound on the ids of rows
  LastTime,  \* bound on the timestamps
  Limit      \* rows of a page

VARIABLES
  rows,      \* the live rows; new ones have greater ids
  newest,    \* the last id that was given out
  times,     \* last_score_timestamp of each row, if it is a score
  time,
  walk,      \* the way of the client, its cursor or offset, page and step
  seen,      \* history: the rows that its pages have shown
  repeated,  \* history: whether a row was shown twice
  staying,   \* history: the rows that were there all the way
  mixed      \* history: scores have the same timestamp, or got another one

pageVars == <<rows, newest, times, time, walk, seen, repeated, staying, mixed>>

RowIds == 1..LastRow
NoWalk == [way |-> "none", at |-> 0, page |-> {}, step |-> "end"]

PageTypeOK ==
  /\ rows \subseteq 1..newest
  /\ newest \in 0..LastRow
  /\ times \in [RowIds -> 0..LastTime]
  /\ time \in 0..LastTime
  /\ walk.way \in {"none", "down", "up", "ids", "times"}
  /\ walk.step \in {"ask", "links", "end"}
  /\ walk.at \in 0..(LastRow + Limit)
  /\ walk.page \subseteq RowIds /\ Cardinality(walk.page) <= Limit
  /\ staying \subseteq rows

PageInit ==
  /\ newest = 3
  /\ rows = 1..newest
  /\ time = 1
  /\ times \in {[i \in RowIds |-> 0], [i \in RowIds |-> IF i = 1 THEN 1 ELSE 0]}
  /\ walk = NoWalk
  /\ seen = {}
  /\ repeated = FALSE
  /\ staying = {}
  /\ mixed = FALSE

-----------------------------------------------------------------------------
NewTime == time < LastTime /\ time' = time + 1

InsertRow ==
  /\ NewTime
  /\ newest < LastRow
  /\ newest' = newest + 1
  /\ rows' = rows \cup {newest + 1}
  /\ times' = [times EXCEPT ![newest + 1] = time + 1]
  /\ UNCHANGED <<walk, seen, repeated, staying, mixed>>

(* Stamps are deleted, and scores get new timestamps.                      *)
DeleteRow ==
  /\ walk.way \in {"down", "up"}
  /\ \E i \in rows : rows' = rows \ {i} /\ staying' = staying \ {i}
  /\ UNCHANGED <<newest, times, time, walk, seen, repeated, mixed>>

Rescore ==
  /\ NewTime
  /\ \E i \in rows : times' = [times EXCEPT ![i] = time + 1]
  /\ mixed' = TRUE
  /\ UNCHANGED <<rows, newest, walk, seen, repeated, staying>>

(* The first request has no token, or the offset 0.                        *)
StartWalk ==
  /\ walk = NoWalk
  /\ \E way \in {"down", "ids", "times"} :
       walk' = [NoWalk EXCEPT !.way = way, !.step = "ask",
                              !.at = IF way = "down" THEN LastRow + 1 ELSE 0]
  /\ staying' = rows
  /\ mixed' = \E i, j \in rows : i # j /\ times[i] = times[j]
  /\ UNCHANGED <<rows, newest, times, time, seen, repeated>>

Show(page, at, step) ==
  /\ walk' = [walk EXCEPT !.page = page, !.at = at, !.step = step]
  /\ seen' = seen \cup page
  /\ repeated' = (repeated \/ seen \cap page # {})
  /\ UNCHANGED <<rows, newest, times, time, staying, mixed>>

Asks(way) == walk.way = way /\ walk.step = "ask"
Greatest(S, n) == {i \in S : Cardinality({j \in S : j >= i}) <= n}
Least(S, n) == {i \in S : Cardinality({j \in S : j <= i}) <= n}

(* An empty page has no links.                                             *)
ShowFrom(page, end(_)) ==
  IF page = {} THEN Show({}, walk.at, "end") ELSE Show(page, end(page), "links")
Lowest(S) == CHOOSE i \in S : \A j \in S : i <= j
Highest(S) == CHOOSE i \in S : \A j \in S : j <= i

(* Plausible bug: id__lte for id__lt.                                      *)
PageDownAgain ==
  /\ Asks("down")
  /\ ShowFrom(Greatest({i \in rows : i <= walk.at}, Limit), Lowest)

(* get_passport_stamps with a token for the next page.                     *)
PageDown ==
  /\ Asks("down")
  /\ ShowFrom(Greatest({i \in rows : i < walk.at}, Limit), Lowest)

(* The previous page is read upwards, and turned round.                    *)
PageUp ==
  /\ Asks("up")
  /\ ShowFrom(Least({i \in rows : i > walk.at}, Limit), Highest)

(* has_more_stamps and has_prev_stamps are queries of their own.  Without  *)
(* a next page the client may go back by the link to the previous one.     *)
FollowLink ==
  LET below == {i \in rows : i < walk.at}
      above == {i \in rows : i > walk.at}
      top == Highest(walk.page) IN
  /\ walk.step = "links"
  /\ \/ /\ walk' = [walk EXCEPT !.step =
             IF (IF walk.way = "down" THEN below ELSE above) = {}
             THEN "end" ELSE "ask"]
        /\ UNCHANGED <<seen, staying>>
     \/ /\ walk.way = "down"
        /\ below = {}
        /\ {i \in rows : i > top} # {}
        /\ walk' = [NoWalk EXCEPT !.way = "up", !.at = top, !.step = "ask"]
        /\ seen' = walk.page
        /\ staying' = {i \in rows : i > top}
  /\ UNCHANGED <<rows, newest, times, time, repeated, mixed>>

(* Rows of the same timestamp come in any order, each time.                *)
Orders ==
  {o \in [rows -> 1..Cardinality(rows)] :
     \A i, j \in rows :
       i # j => o[i] # o[j] /\ (times[i] < times[j] => o[i] < o[j])}
ById == [i \in rows |-> Cardinality({j \in rows : j <= i})]

OffsetPage(byId) ==
  /\ Asks("ids") \/ Asks("times")
  /\ \E o \in IF walk.way = "ids" THEN {byId} ELSE Orders :
       Show({i \in rows : o[i] \in (walk.at + 1)..(walk.at + Limit)},
            walk.at + Limit,
            IF walk.at + Limit < Cardinality(rows) THEN "ask" ELSE "end")

(* Plausible bug: the newest score comes first, and moves the others on.   *)
PageByOffsetNewest ==
  OffsetPage([i \in rows |-> Cardinality({j \in rows : j >= i})])

(* get_scores; the client ends where the count does.                       *)
PageByOffset == OffsetPage(ById)

EndWalk ==
  /\ walk.way # "none"
  /\ walk.step = "end"
  /\ walk' = NoWalk
  /\ seen' = {}
  /\ repeated' = FALSE
  /\ staying' = {}
  /\ UNCHANGED <<rows, newest, times, time, mixed>>

PageNext ==
  \/ InsertRow \/ DeleteRow \/ Rescore \/ StartWalk
  \/ PageDown \/ PageUp \/ FollowLink \/ PageByOffset \/ EndWalk

-----------------------------------------------------------------------------
(* Who follows the links of the stamps to the end gets every stamp that    *)
(* was there all the time, and none twice, downwards and on the way back,  *)
(* whatever is added or deleted meanwhile.                                 *)
StampsAreListed ==
  walk.way \in {"down", "up"} =>
    /\ walk.step = "end" => staying \subseteq seen
    /\ ~repeated

(* So do the offsets of the scores, in the order of their ids; in that of  *)
(* their timestamps only as long as these differ and nothing is rescored.  *)
ScoresAreListed ==
  walk.way = "ids" \/ (walk.way = "times" /\ ~mixed) =>
    /\ walk.step = "end" => staying \subseteq seen
    /\ ~repeated
=============================================================================
