----------------------------- MODULE Assignment -----------------------------
(***************************************************************************)
(* Which vanished address is which new one: assign_akiyama_pairs and the   *)
(* rectangular Hungarian algorithm that it calls,                          *)
(* minimum_cost_assignment.  A step is one turn of one of the two inner    *)
(* loops.  Columns 1 .. Successors stand for the successors, and each      *)
(* predecessor may stay unmatched in one of Predecessors further columns;  *)
(* column 0 holds the row that looks for a column.                         *)
(*                                                                         *)
(* Costs are numbers without rounding.  min_value is infinite everywhere   *)
(* until the first scan of a row, and nowhere after it, so that "used = {}" *)
(* stands for infinity.  u[0] and v[0], which nothing reads, are left out. *)
(***************************************************************************)
EXTENDS Integers, Sums

CONSTANTS
  Predecessors, Successors,  \* how many there are
  Prices,                    \* the costs a pair can have
  NoPair,                    \* the pair was not a candidate
  Unmatched,                 \* unmatched_cost
  Blocked                    \* blocked_cost

ASSUME SizesAssumption == {Predecessors, Successors} \subseteq Nat \ {0}
ASSUME CostsAssumption ==
  /\ Prices \subseteq Nat /\ Unmatched \in Nat
  /\ Blocked \in Nat /\ Blocked > Unmatched
  /\ NoPair \notin Prices

VARIABLES
  pairs,      \* pair_costs
  row,        \* the row that gets a column
  stage,      \* the loop that the algorithm is in
  column,
  used,
  min_value,
  way,        \* the column from which each one is reached
  u, v,       \* the potentials of the rows and the columns
  matched     \* matched_row_for_column, 0 if there is none

vars == <<pairs, row, stage, column, used, min_value, way, u, v, matched>>

Rows == 1 .. Predecessors
Columns == 1 .. (Successors + Predecessors)

\* The matrix that assign_akiyama_pairs builds, as the algorithm reads it.
Cost(r, c) ==
  IF c > Successors THEN Unmatched
  ELSE IF pairs[<<r, c>>] = NoPair THEN Blocked
  ELSE pairs[<<r, c>>]

Slack(r, c) == Cost(r, c) - u[r] - v[c]

Init ==
  /\ pairs \in [Rows \X (1 .. Successors) -> Prices \cup {NoPair}]
  /\ row = 1
  /\ stage = "search"
  /\ column = 0
  /\ used = {}
  /\ min_value = [c \in Columns |-> 0]
  /\ way = [c \in Columns |-> 0]
  /\ u = [r \in Rows |-> 0]
  /\ v = [c \in Columns |-> 0]
  /\ matched = [c \in Columns \cup {0} |-> IF c = 0 THEN 1 ELSE 0]

\* Is a column nearer to the current one than to those that were used before?
Nearer(c) == used = {} \/ Slack(matched[column], c) < min_value[c]
Nearest(c) == IF Nearer(c) THEN Slack(matched[column], c) ELSE min_value[c]

\* Fault: the potentials of the columns are not lowered.
RaisedRowsOnly(reached, delta) ==
  /\ u' = [r \in Rows |-> IF \E c \in reached : matched[c] = r THEN u[r] + delta ELSE u[r]]
  /\ UNCHANGED v

\* The columns that were used, and their rows, move by delta.
Shifted(reached, delta) ==
  /\ u' = [r \in Rows |-> IF \E c \in reached : matched[c] = r THEN u[r] + delta ELSE u[r]]
  /\ v' = [c \in Columns |-> IF c \in reached THEN v[c] - delta ELSE v[c]]

\* Fault: only column 0 is marked as used.
SearchUnmarked(next) ==
  LET free == Columns
      delta == Nearest(next)
  IN  /\ stage = "search"
      /\ \A c \in free : delta <= Nearest(c) /\ (Nearest(c) = delta => next <= c)
      /\ used' = {0}
      /\ way' = [c \in Columns |-> IF Nearer(c) THEN column ELSE way[c]]
      /\ min_value' = [c \in Columns |-> Nearest(c) - delta]
      /\ Shifted({0}, delta)
      /\ column' = next
      /\ stage' = IF matched[next] = 0 THEN "augment" ELSE "search"
      /\ UNCHANGED <<pairs, row, matched>>

\* One turn of the search: the nearest of the columns that are not used, the
\* first one of several.
Search(next) ==
  LET reached == used \cup {column}
      free == Columns \ reached
      delta == Nearest(next)
  IN  /\ stage = "search"
      /\ next \in free
      /\ \A c \in free : delta <= Nearest(c) /\ (Nearest(c) = delta => next <= c)
      /\ used' = reached
      /\ way' = [c \in Columns |-> IF c \in free /\ Nearer(c) THEN column ELSE way[c]]
      /\ min_value' = [c \in Columns |-> IF c \in free THEN Nearest(c) - delta ELSE min_value[c]]
      /\ Shifted(reached, delta)
      /\ column' = next
      /\ stage' = IF matched[next] = 0 THEN "augment" ELSE "search"
      /\ UNCHANGED <<pairs, row, matched>>

\* Fault: the rows on the way keep their columns.
AugmentLast ==
  /\ stage = "augment"
  /\ matched' = [matched EXCEPT ![column] = row, ![0] = row + 1]
  /\ column' = 0
  /\ row' = row + 1
  /\ used' = {}
  /\ stage' = IF row = Predecessors THEN "done" ELSE "search"
  /\ UNCHANGED <<pairs, min_value, way, u, v>>

\* Fault: one row more than there is.
AugmentPast ==
  LET previous == way[column]
      moved == [matched EXCEPT ![column] = matched[previous]]
  IN  /\ stage = "augment"
      /\ column' = previous
      /\ IF previous # 0
           THEN matched' = moved /\ UNCHANGED <<row, used, stage>>
         ELSE /\ row' = row + 1
              /\ used' = {}
              /\ matched' = [moved EXCEPT ![0] = row + 1]
              /\ stage' = IF row > Predecessors THEN "done" ELSE "search"
      /\ UNCHANGED <<pairs, min_value, way, u, v>>

\* One turn of the way back, on which each column takes the row of the one
\* before, and after the last turn the next row.
Augment ==
  LET previous == way[column]
      moved == [matched EXCEPT ![column] = matched[previous]]
  IN  /\ stage = "augment"
      /\ column' = previous
      /\ IF previous # 0
           THEN matched' = moved /\ UNCHANGED <<row, used, stage>>
         ELSE IF row = Predecessors
           THEN matched' = moved /\ stage' = "done" /\ UNCHANGED <<row, used>>
         ELSE /\ row' = row + 1
              /\ used' = {}
              /\ matched' = [moved EXCEPT ![0] = row + 1]
              /\ stage' = "search"
      /\ UNCHANGED <<pairs, min_value, way, u, v>>

Next == (\E next \in Columns : Search(next)) \/ Augment

Spec == Init /\ [][Next]_vars /\ WF_vars(Next)

\* What assign_akiyama_pairs returns.
Links ==
  {l \in Rows \X (1 .. Successors) :
     /\ matched[l[2]] = l[1]
     /\ pairs[l] # NoPair
     /\ pairs[l] < Unmatched}

-----------------------------------------------------------------------------
(* Properties.                                                             *)

TypeOK ==
  /\ pairs \in [Rows \X (1 .. Successors) -> Prices \cup {NoPair}]
  /\ row \in Rows
  /\ stage \in {"search", "augment", "done"}
  /\ column \in Columns \cup {0}
  /\ used \subseteq Columns \cup {0}
  /\ min_value \in [Columns -> Int]
  /\ way \in [Columns -> Columns \cup {0}]
  /\ u \in [Rows -> Int]
  /\ v \in [Columns -> Int]
  /\ matched \in [Columns \cup {0} -> Rows \cup {0}]

\* minimum_cost_assignment, after every turn of its loops: no cost is below
\* the potentials of its row and column, a row has a column only where the two
\* are equal, and a column that no row has is at zero.  So what is matched at
\* the end is a cheapest assignment.
Certified ==
  /\ \A r \in Rows, c \in Columns : Slack(r, c) >= 0
  /\ \A c \in Columns : IF matched[c] = 0 THEN v[c] = 0
                                          ELSE v[c] <= 0 /\ Slack(matched[c], c) = 0

\* What a predecessor costs: its pair, or unmatched_cost when it is left.
PriceOf(r, links) ==
  IF \E l \in links : l[1] = r THEN pairs[CHOOSE l \in links : l[1] = r] ELSE Unmatched

Price(links) == Sum([r \in Rows |-> PriceOf(r, links)], Predecessors)

OneToOne(links) == \A l, k \in links : l # k => l[1] # k[1] /\ l[2] # k[2]

\* assign_akiyama_pairs: no address is linked twice, and no other choice of
\* candidate pairs costs less, when each predecessor that is left costs
\* unmatched_cost.
LinksBest ==
  LET candidates == {l \in Rows \X (1 .. Successors) : pairs[l] # NoPair}
  IN  stage = "done" =>
        /\ OneToOne(Links)
        /\ \A other \in SUBSET candidates : OneToOne(other) => Price(Links) <= Price(other)

\* minimum_cost_assignment ends: no search turns in a circle, and each finds a
\* column that is free.
Terminates == <>(stage = "done")
=============================================================================
