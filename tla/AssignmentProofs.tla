-------------------------- MODULE AssignmentProofs --------------------------
(***************************************************************************)
(* Theorems about Assignment, for any number of predecessors and           *)
(* successors and any costs: the potentials certify the matching after     *)
(* every turn of the two loops, the links are the cheapest choice, and no  *)
(* turn goes in a circle.                                                  *)
(***************************************************************************)
EXTENDS Assignment, SumsProofs, FiniteSetTheorems, TLAPS

\* No row has two columns, but for the one that gives its row away.
Distinct ==
  \A c, d \in Columns \cup {0} :
    c # d /\ matched[c] = matched[d] /\ matched[c] # 0
      => stage # "search" /\ column \in {c, d}

\* The rows that come later have no column.
RowsInOrder == \A c \in Columns \cup {0} : matched[c] <= row

\* The search goes on from a column that has a row and was not used.
Used ==
  /\ \A k \in used : matched[k] # 0
  /\ stage = "search" => column \notin used /\ matched[column] # 0

\* The distances of the columns that are still free.
Distances ==
  stage = "search" /\ used # {} =>
    \A c \in Columns \ used :
      /\ way[c] \in used
      /\ min_value[c] = Slack(matched[way[c]], c)
      /\ \A k \in used : min_value[c] <= Slack(matched[k], c)

\* The way back from the columns of a set: each was reached at no distance,
\* from a column of a lower rank.
WayBack(set, rank) ==
  \A c \in set \ {0} :
    /\ way[c] \in used
    /\ rank[way[c]] < rank[c]
    /\ Slack(matched[way[c]], c) = 0

Ranks == [Columns \cup {0} -> Nat]

\* All columns have their way back in the search; then only the ones that the
\* way back has yet to come to.
Tree ==
  \E rank \in Ranks :
    /\ stage = "search" => WayBack(used \cup {column}, rank)
    /\ stage = "augment" =>
         /\ column # 0
         /\ WayBack({c \in used \cup {column} : rank[c] <= rank[column]}, rank)

IInv == TypeOK /\ Certified /\ Distinct /\ RowsInOrder /\ Used /\ Distances /\ Tree

\* The matrix has numbers only.
LEMMA CostInt ==
  ASSUME pairs \in [Rows \X (1 .. Successors) -> Prices \cup {NoPair}],
         NEW r \in Rows, NEW c \in Columns
  PROVE  Cost(r, c) \in Nat
  <1>1. CASE c > Successors
    BY <1>1, CostsAssumption DEF Cost
  <1>2. CASE ~(c > Successors)
    <2>1. c \in 1 .. Successors
      BY <1>2, SizesAssumption DEF Columns
    <2>2. pairs[<<r, c>>] \in Prices \cup {NoPair}
      BY <2>1
    <2>3. QED  BY <1>2, <2>2, CostsAssumption DEF Cost
  <1>3. QED  BY <1>1, <1>2

LEMMA SlackInt ==
  ASSUME TypeOK, NEW r \in Rows, NEW c \in Columns
  PROVE  Slack(r, c) \in Int
  <1>1. Cost(r, c) \in Nat
    BY CostInt DEF TypeOK
  <1>2. QED  BY <1>1 DEF Slack, TypeOK

LEMMA InitOK == Init => IInv
  <1> SUFFICES ASSUME Init PROVE IInv
    OBVIOUS
  <1>1. TypeOK
    <2>1. 1 \in Rows /\ 0 \notin Columns
      BY SizesAssumption DEF Rows, Columns
    <2>2. QED  BY <2>1 DEF Init, TypeOK
  <1>2. \A c \in Columns : matched[c] = 0 /\ v[c] = 0
    <2>1. 0 \notin Columns
      BY SizesAssumption DEF Columns
    <2>2. QED  BY <2>1 DEF Init
  <1>3. Certified
    <2>1. ASSUME NEW r \in Rows, NEW c \in Columns PROVE Slack(r, c) >= 0
      <3>1. Cost(r, c) \in Nat
        BY <1>1, CostInt DEF TypeOK
      <3>2. u[r] = 0 /\ v[c] = 0
        BY DEF Init
      <3>3. QED  BY <3>1, <3>2 DEF Slack
    <2>2. QED  BY <1>2, <2>1 DEF Certified
  <1>4. matched[0] = 1 /\ row = 1 /\ stage = "search" /\ used = {} /\ column = 0
    BY DEF Init
  <1>5. Distinct /\ RowsInOrder /\ Used /\ Distances
    BY <1>2, <1>4 DEF Distinct, RowsInOrder, Used, Distances
  <1>6. Tree
    <2>1. [c \in Columns \cup {0} |-> 0] \in Ranks
      BY DEF Ranks
    <2>2. \A rank : WayBack(used \cup {column}, rank)
      BY <1>4 DEF WayBack
    <2>3. QED  BY <1>4, <2>1, <2>2 DEF Tree
  <1>7. QED  BY <1>1, <1>3, <1>5, <1>6 DEF IInv

-----------------------------------------------------------------------------
(* A turn of the search.                                                   *)

\* What a turn of the search does to the slack of a row and a column.
LEMMA Shift ==
  ASSUME TypeOK, NEW reached \in SUBSET (Columns \cup {0}), NEW delta \in Int,
         Shifted(reached, delta), pairs' = pairs, NEW r \in Rows, NEW c \in Columns
  PROVE  /\ (\E k \in reached : matched[k] = r) /\ c \in reached => Slack(r, c)' = Slack(r, c)
         /\ (\E k \in reached : matched[k] = r) /\ c \notin reached
              => Slack(r, c)' = Slack(r, c) - delta
         /\ ~(\E k \in reached : matched[k] = r) /\ c \in reached
              => Slack(r, c)' = Slack(r, c) + delta
         /\ ~(\E k \in reached : matched[k] = r) /\ c \notin reached
              => Slack(r, c)' = Slack(r, c)
  <1>1. Cost(r, c) \in Nat /\ Cost(r, c)' = Cost(r, c)
    BY CostInt DEF TypeOK, Cost
  <1>2. u[r] \in Int /\ v[c] \in Int
    BY DEF TypeOK
  <1>3. u'[r] = IF \E k \in reached : matched[k] = r THEN u[r] + delta ELSE u[r]
    BY DEF Shifted
  <1>4. v'[c] = IF c \in reached THEN v[c] - delta ELSE v[c]
    BY DEF Shifted
  <1>5. Slack(r, c) = Cost(r, c) - u[r] - v[c] /\ Slack(r, c)' = Cost(r, c) - u'[r] - v'[c]
    BY <1>1 DEF Slack
  <1>6. CASE \E k \in reached : matched[k] = r
    BY <1>1, <1>2, <1>3, <1>4, <1>5, <1>6
  <1>7. CASE ~(\E k \in reached : matched[k] = r)
    BY <1>1, <1>2, <1>3, <1>4, <1>5, <1>7
  <1>8. QED  BY <1>6, <1>7

\* The distance of a free column is the least slack from the used columns.
LEMMA NearestLeast ==
  ASSUME IInv, stage = "search", NEW c \in Columns \ (used \cup {column})
  PROVE  /\ matched[column] \in Rows
         /\ Nearest(c) \in Int
         /\ \A k \in used \cup {column} :
              matched[k] \in Rows /\ Nearest(c) <= Slack(matched[k], c)
         /\ LET w == IF Nearer(c) THEN column ELSE way[c]
            IN  w \in used \cup {column} /\ Nearest(c) = Slack(matched[w], c)
  <1>1. \A k \in used \cup {column} : matched[k] \in Rows /\ k \in Columns \cup {0}
    BY DEF IInv, TypeOK, Used
  <1>2. \A k \in used \cup {column} : Slack(matched[k], c) \in Int
    BY <1>1, SlackInt DEF IInv
  <1>3. min_value[c] \in Int
    BY DEF IInv, TypeOK
  <1>4. CASE Nearer(c)
    <2>1. Nearest(c) = Slack(matched[column], c)
      BY <1>4 DEF Nearest
    <2>2. \A k \in used : Nearest(c) <= Slack(matched[k], c)
      <3>1. CASE used = {}
        BY <3>1
      <3>2. CASE used # {}
        <4>1. Slack(matched[column], c) < min_value[c]
          BY <1>4, <3>2 DEF Nearer
        <4>2. \A k \in used : min_value[c] <= Slack(matched[k], c)
          BY <3>2 DEF IInv, Distances
        <4>3. QED  BY <1>2, <1>3, <2>1, <4>1, <4>2
      <3>3. QED  BY <3>1, <3>2
    <2>3. QED  BY <1>1, <1>2, <1>4, <2>1, <2>2
  <1>5. CASE ~Nearer(c)
    <2>1. Nearest(c) = min_value[c]
      BY <1>5 DEF Nearest
    <2>2. used # {} /\ ~(Slack(matched[column], c) < min_value[c])
      BY <1>5 DEF Nearer
    <2>3. /\ way[c] \in used
          /\ min_value[c] = Slack(matched[way[c]], c)
          /\ \A k \in used : min_value[c] <= Slack(matched[k], c)
      BY <2>2 DEF IInv, Distances
    <2>4. min_value[c] <= Slack(matched[column], c)
      BY <1>2, <1>3, <2>2
    <2>5. QED  BY <1>1, <1>3, <1>5, <2>1, <2>3, <2>4
  <1>6. QED  BY <1>4, <1>5

\* A turn of the search keeps all of it.
LEMMA SearchOK ==
  ASSUME IInv, NEW next \in Columns, Search(next)
  PROVE  IInv'
  <1> DEFINE reached == used \cup {column}
             delta == Nearest(next)
             From(c) == IF Nearer(c) THEN column ELSE way[c]
             Moves(r) == \E k \in reached : matched[k] = r
             After(r, c) == Cost(r, c) - u'[r] - v'[c]
  <1>1. /\ stage = "search" /\ next \in Columns \ reached
        /\ \A c \in Columns \ reached : delta <= Nearest(c)
        /\ used' = reached /\ column' = next
        /\ way' = [c \in Columns |-> IF c \in Columns \ reached /\ Nearer(c) THEN column ELSE way[c]]
        /\ min_value' = [c \in Columns |-> IF c \in Columns \ reached THEN Nearest(c) - delta
                                                                ELSE min_value[c]]
        /\ Shifted(reached, delta)
        /\ stage' = IF matched[next] = 0 THEN "augment" ELSE "search"
        /\ pairs' = pairs /\ row' = row /\ matched' = matched
    BY DEF Search
  <1>2. TypeOK
    BY DEF IInv
  <1>3. reached \subseteq Columns \cup {0} /\ \A k \in reached : matched[k] \in Rows /\ matched[k] # 0
    <2>1. \A k \in reached : k \in Columns \cup {0} /\ matched[k] # 0
      BY <1>1 DEF IInv, TypeOK, Used
    <2>2. QED  BY <1>2, <2>1 DEF TypeOK
  <1>4. \A c \in Columns \ reached :
          /\ Nearest(c) \in Int
          /\ \A k \in reached : Nearest(c) <= Slack(matched[k], c)
          /\ From(c) \in reached /\ Nearest(c) = Slack(matched[From(c)], c)
    BY <1>1, NearestLeast
  <1>5. delta \in Int /\ delta >= 0
    <2>1. From(next) \in reached /\ delta = Slack(matched[From(next)], next) /\ delta \in Int
      BY <1>1, <1>4
    <2>2. QED  BY <1>3, <2>1 DEF IInv, Certified
  <1>6. \A r \in Rows, c \in Columns :
          /\ Moves(r) /\ c \in reached => After(r, c) = Slack(r, c)
          /\ Moves(r) /\ c \notin reached => After(r, c) = Slack(r, c) - delta
          /\ ~Moves(r) /\ c \in reached => After(r, c) = Slack(r, c) + delta
          /\ ~Moves(r) /\ c \notin reached => After(r, c) = Slack(r, c)
    <2>1. reached \in SUBSET (Columns \cup {0})
      BY <1>3
    <2> SUFFICES ASSUME NEW r \in Rows, NEW c \in Columns
                 PROVE  /\ Moves(r) /\ c \in reached => After(r, c) = Slack(r, c)
                        /\ Moves(r) /\ c \notin reached => After(r, c) = Slack(r, c) - delta
                        /\ ~Moves(r) /\ c \in reached => After(r, c) = Slack(r, c) + delta
                        /\ ~Moves(r) /\ c \notin reached => After(r, c) = Slack(r, c)
      OBVIOUS
    <2>2. Slack(r, c)' = After(r, c)
      BY <1>1 DEF Slack, Cost
    <2> HIDE DEF reached, delta, After
    <2>3. QED  BY <1>1, <1>2, <1>5, <2>1, <2>2, Shift, ZenonT(60)
  <1>7. \A r \in Rows, c \in Columns : Slack(r, c) \in Int /\ Slack(r, c) >= 0
    BY <1>2, SlackInt DEF IInv, Certified
  <1>8. \A k \in reached, c \in Columns : matched[k] \in Rows /\ Moves(matched[k])
    BY <1>3
  <1>9. \A c \in Columns : way'[c] = IF c \in reached THEN way[c] ELSE From(c)
    BY <1>1
  <1>10. TypeOK'
    <2>1. \A c \in Columns : v[c] \in Int
      BY <1>2 DEF TypeOK
    <2>2. \A r \in Rows : u[r] \in Int
      BY <1>2 DEF TypeOK
    <2>3. u' \in [Rows -> Int] /\ v' \in [Columns -> Int]
      BY <1>1, <1>5, <2>1, <2>2 DEF Shifted
    <2>4. min_value' \in [Columns -> Int]
      BY <1>1, <1>2, <1>4, <1>5 DEF TypeOK
    <2>5. way' \in [Columns -> Columns \cup {0}]
      BY <1>1, <1>2 DEF TypeOK
    <2>6. used' \subseteq Columns \cup {0} /\ column' \in Columns \cup {0}
      BY <1>1, <1>3
    <2>7. stage' \in {"search", "augment", "done"}
      BY <1>1
    <2>8. QED  BY <1>1, <1>2, <2>3, <2>4, <2>5, <2>6, <2>7 DEF TypeOK
  <1>11. Certified'
    <2>1. ASSUME NEW r \in Rows, NEW c \in Columns PROVE After(r, c) >= 0
      <3>1. CASE Moves(r) /\ c \notin reached
        <4>1. PICK k \in reached : matched[k] = r
          BY <3>1
        <4>2. delta <= Nearest(c) /\ Nearest(c) <= Slack(r, c) /\ Nearest(c) \in Int
          BY <1>1, <1>4, <3>1, <4>1
        <4>3. After(r, c) = Slack(r, c) - delta
          BY <1>6, <3>1
        <4>4. Slack(r, c) - delta >= 0
          BY <1>5, <1>7, <4>2
        <4>5. QED  BY <4>3, <4>4
      <3>2. CASE ~Moves(r) /\ c \in reached
        <4>1. After(r, c) = Slack(r, c) + delta
          BY <1>6, <3>2
        <4>2. Slack(r, c) + delta >= 0
          BY <1>5, <1>7
        <4>3. QED  BY <4>1, <4>2
      <3>3. CASE Moves(r) /\ c \in reached
        BY <1>6, <1>7, <3>3
      <3>4. CASE ~Moves(r) /\ c \notin reached
        BY <1>6, <1>7, <3>4
      <3>5. QED  BY <3>1, <3>2, <3>3, <3>4
    <2>2. ASSUME NEW c \in Columns
          PROVE  IF matched[c] = 0 THEN v'[c] = 0
                                   ELSE v'[c] <= 0 /\ After(matched[c], c) = 0
      <3>1. v'[c] = (IF c \in reached THEN v[c] - delta ELSE v[c]) /\ v[c] \in Int
        BY <1>1, <1>2 DEF Shifted, TypeOK
      <3>2. IF matched[c] = 0 THEN v[c] = 0 ELSE v[c] <= 0 /\ Slack(matched[c], c) = 0
        BY DEF IInv, Certified
      <3>3. matched[c] # 0 => matched[c] \in Rows
        BY <1>2 DEF TypeOK
      <3>4. CASE matched[c] = 0
        BY <1>3, <3>1, <3>2, <3>4
      <3>5. CASE matched[c] # 0 /\ c \in reached
        <4>1. After(matched[c], c) = 0
          <5>1. Moves(matched[c])
            BY <3>5
          <5>2. QED  BY <1>6, <3>2, <3>3, <3>5, <5>1
        <4>2. v[c] - delta <= 0
          BY <1>5, <3>1, <3>2, <3>5
        <4>3. QED  BY <3>1, <3>5, <4>1, <4>2
      <3>6. CASE matched[c] # 0 /\ c \notin reached
        <4>1. ~Moves(matched[c])
          BY <1>1, <1>3, <3>6 DEF IInv, Distinct
        <4>2. After(matched[c], c) = 0
          BY <1>6, <3>2, <3>3, <3>6, <4>1
        <4>3. QED  BY <3>1, <3>2, <3>6, <4>2
      <3>7. QED  BY <3>4, <3>5, <3>6
    <2>3. QED  BY <1>1, <2>1, <2>2 DEF Certified, Slack, Cost
  <1>12. Distinct' /\ RowsInOrder' /\ Used'
    <2>1. Distinct'
      BY <1>1 DEF IInv, Distinct
    <2>2. RowsInOrder'
      BY <1>1 DEF IInv, RowsInOrder
    <2>3. Used'
      BY <1>1, <1>3 DEF Used
    <2>4. QED  BY <2>1, <2>2, <2>3
  <1>13. Distances'
    <2>1. ASSUME NEW c \in Columns \ reached
          PROVE  /\ way'[c] \in reached
                 /\ min_value'[c] = After(matched[way'[c]], c)
                 /\ \A k \in reached : min_value'[c] <= After(matched[k], c)
      <3>1. way'[c] = From(c) /\ min_value'[c] = Nearest(c) - delta
        BY <1>1, <1>9
      <3>2. \A k \in reached : After(matched[k], c) = Slack(matched[k], c) - delta
        BY <1>6, <1>8
      <3>3. \A k \in reached : Nearest(c) - delta <= Slack(matched[k], c) - delta
        BY <1>4, <1>5, <1>7, <1>8
      <3>4. QED  BY <1>4, <3>1, <3>2, <3>3
    <2>2. QED  BY <1>1, <2>1 DEF Distances, Slack, Cost
  <1>14. Tree'
    <2>1. PICK rank \in Ranks : WayBack(reached, rank)
      BY <1>1 DEF IInv, Tree
    <2>2. From(next) \in reached /\ From(next) # next /\ next # 0
      BY <1>1, <1>4, SizesAssumption DEF Columns
    <2>3. PICK ranked \in Ranks :
            (\A c \in reached : ranked[c] = rank[c]) /\ ranked[next] = rank[From(next)] + 1
      <3> DEFINE above == [rank EXCEPT ![next] = rank[From(next)] + 1]
      <3>1. above \in Ranks
        BY <1>3, <2>1, <2>2 DEF Ranks
      <3>2. (\A c \in reached : above[c] = rank[c]) /\ above[next] = rank[From(next)] + 1
        BY <1>1, <1>3, <2>1 DEF Ranks
      <3>3. QED  BY <3>1, <3>2
    <2>4. rank[From(next)] \in Nat
      BY <1>3, <2>1, <2>2 DEF Ranks
    <2>6. ASSUME NEW c \in reached \ {0}
          PROVE  /\ way'[c] \in reached
                 /\ ranked[way'[c]] < ranked[c]
                 /\ After(matched[way'[c]], c) = 0
      <3>1. way'[c] = way[c] /\ c \in Columns
        BY <1>3, <1>9
      <3>2. way[c] \in used /\ rank[way[c]] < rank[c] /\ Slack(matched[way[c]], c) = 0
        BY <2>1 DEF WayBack
      <3>3. After(matched[way[c]], c) = Slack(matched[way[c]], c)
        BY <1>6, <1>8, <3>1, <3>2
      <3>4. QED  BY <2>3, <3>1, <3>2, <3>3
    <2>7. /\ way'[next] \in reached
          /\ ranked[way'[next]] < ranked[next]
          /\ After(matched[way'[next]], next) = 0
      <3>1. way'[next] = From(next)
        BY <1>1, <1>9
      <3>2. ranked[From(next)] < ranked[next]
        BY <2>2, <2>3, <2>4
      <3>3. After(matched[From(next)], next) = Slack(matched[From(next)], next) - delta
        BY <1>1, <1>6, <1>8, <2>2
      <3>4. Slack(matched[From(next)], next) - delta = 0
        BY <1>1, <1>4, <1>5
      <3>5. QED  BY <2>2, <3>1, <3>2, <3>3, <3>4
    <2>8. \A c \in (reached \cup {next}) \ {0} :
            /\ way'[c] \in reached
            /\ ranked[way'[c]] < ranked[c]
            /\ After(matched[way'[c]], c) = 0
      BY <2>6, <2>7
    <2>9. QED  BY <1>1, <2>2, <2>8, SMTT(30) DEF Tree, WayBack, Slack, Cost
  <1>15. QED  BY <1>10, <1>11, <1>12, <1>13, <1>14 DEF IInv

-----------------------------------------------------------------------------
(* A turn of the way back.                                                 *)

\* A turn of the way back keeps all of it.
LEMMA AugmentOK ==
  ASSUME IInv, Augment
  PROVE  IInv'
  <1> DEFINE p == way[column]
             moved == [matched EXCEPT ![column] = matched[p]]
             After(r, c) == Cost(r, c) - u[r] - v[c]
             further == p # 0 /\ matched' = moved /\ row' = row /\ used' = used /\ stage' = "augment"
             last == /\ p = 0 /\ matched' = moved /\ row' = row /\ used' = used
                     /\ stage' = "done"
             again == /\ p = 0 /\ row # Predecessors /\ row' = row + 1 /\ used' = {}
                      /\ matched' = [moved EXCEPT ![0] = row + 1] /\ stage' = "search"
  <1>1. /\ stage = "augment" /\ column' = p
        /\ pairs' = pairs /\ min_value' = min_value /\ way' = way /\ u' = u /\ v' = v
        /\ further \/ last \/ again
    BY DEF Augment
  <1>2. TypeOK /\ 0 \notin Columns
    BY SizesAssumption DEF IInv, Columns
  <1>3. PICK rank \in Ranks :
          column # 0 /\ WayBack({c \in used \cup {column} : rank[c] <= rank[column]}, rank)
    BY <1>1 DEF IInv, Tree
  <1>4. column \in Columns /\ rank[column] \in Nat
    BY <1>2, <1>3 DEF TypeOK, Ranks
  <1>5. /\ p \in used /\ p \in Columns \cup {0} /\ rank[p] < rank[column]
        /\ Slack(matched[p], column) = 0
    <2>1. column \in {c \in used \cup {column} : rank[c] <= rank[column]} \ {0}
      BY <1>3, <1>4
    <2>2. p \in used /\ rank[p] < rank[column] /\ Slack(matched[p], column) = 0
      BY <1>3, <2>1 DEF WayBack
    <2>3. QED  BY <1>2, <2>2 DEF TypeOK
  <1>6. p # column /\ matched[p] \in Rows /\ matched[p] # 0
    <2>1. p # column
      BY <1>4, <1>5
    <2>2. matched[p] # 0
      BY <1>5 DEF IInv, Used
    <2>3. QED  BY <1>2, <1>5, <2>1, <2>2 DEF TypeOK
  <1>7. \A c \in Columns \cup {0} : moved[c] = IF c = column THEN matched[p] ELSE matched[c]
    BY <1>2, <1>4 DEF TypeOK
  <1>8. \A c \in Columns : matched'[c] = moved[c]
    <2>1. \A c \in Columns : c # 0
      BY <1>2
    <2>2. CASE again
      BY <1>2, <2>1, <2>2 DEF TypeOK
    <2>3. CASE further \/ last
      BY <2>3
    <2>4. QED  BY <1>1, <2>2, <2>3
  <1>9. moved \in [Columns \cup {0} -> Rows \cup {0}]
    BY <1>2, <1>4, <1>6 DEF TypeOK
  <1>10. row + 1 \in Rows \/ row = Predecessors
    <2>1. Predecessors \in Nat \ {0}
      BY SizesAssumption
    <2>2. row \in 1 .. Predecessors
      BY <1>2 DEF TypeOK, Rows
    <2>3. QED  BY <2>1, <2>2 DEF Rows
  <1>11. \A c \in Columns \cup {0} : moved[c] \in Rows \cup {0} /\ moved[c] <= row
    <2>1. \A c \in Columns \cup {0} : matched[c] <= row
      BY DEF IInv, RowsInOrder
    <2>2. QED  BY <1>5, <1>7, <1>9, <2>1
  <1>12. TypeOK'
    <2>1. CASE again
      BY <1>1, <1>2, <1>4, <1>5, <1>9, <1>10, <2>1 DEF TypeOK
    <2>2. CASE further \/ last
      BY <1>1, <1>2, <1>4, <1>5, <1>9, <2>2 DEF TypeOK
    <2>3. QED  BY <1>1, <2>1, <2>2
  <1>13. \A r, c : Slack(r, c) = After(r, c)
    BY DEF Slack
  <1>14. Certified'
    <2>1. \A r \in Rows, c \in Columns : After(r, c) >= 0
      BY <1>13 DEF IInv, Certified
    <2>2. ASSUME NEW c \in Columns
          PROVE  IF moved[c] = 0 THEN v[c] = 0 ELSE v[c] <= 0 /\ Slack(moved[c], c) = 0
      <3>1. IF matched[c] = 0 THEN v[c] = 0 ELSE v[c] <= 0 /\ Slack(matched[c], c) = 0
        BY DEF IInv, Certified
      <3>2. CASE c # column
        <4>1. moved[c] = matched[c]
          BY <1>7, <3>2
        <4>2. QED  BY <3>1, <4>1
      <3>3. CASE c = column
        <4>1. moved[c] = matched[p]
          BY <1>7, <3>3
        <4>2. v[c] <= 0
          BY <3>1
        <4>3. QED  BY <1>5, <1>6, <3>3, <4>1, <4>2
      <3>4. QED  BY <3>2, <3>3
    <2>3. \A c \in Columns : IF moved[c] = 0 THEN v[c] = 0 ELSE v[c] <= 0 /\ After(moved[c], c) = 0
      BY <1>13, <2>2
    <2>4. QED  BY <1>1, <1>8, <2>1, <2>3 DEF Certified, Slack, Cost
  <1>15. \A c, d \in Columns \cup {0} :
           c # d /\ moved[c] = moved[d] /\ moved[c] # 0 => p \in {c, d}
    BY <1>1, <1>4, <1>5, <1>6, <1>7 DEF IInv, Distinct
  <1>16. Distinct'
    <2>1. CASE further \/ last
      BY <1>1, <1>15, <2>1 DEF Distinct
    <2>2. CASE again
      <3>1. matched'[0] = row + 1
        BY <1>9, <2>2
      <3>2. \A c \in Columns : matched'[c] # row + 1
        BY <1>2, <1>8, <1>11, SMTT(30) DEF TypeOK, Rows
      <3>3. \A c, d \in Columns : matched'[c] = matched'[d] /\ matched'[c] # 0 => c = d
        BY <1>2, <1>8, <1>15, <2>2
      <3>4. QED  BY <3>1, <3>2, <3>3 DEF Distinct
    <2>3. QED  BY <1>1, <2>1, <2>2
  <1>17. RowsInOrder'
    <2>1. CASE further \/ last
      BY <1>11, <2>1 DEF RowsInOrder
    <2>2. CASE again
      <3>1. row \in Int
        BY <1>2 DEF TypeOK, Rows
      <3> HIDE DEF moved
      <3>2. ASSUME NEW c \in Columns \cup {0} PROVE moved[c] <= row + 1
        <4>1. moved[c] \in Int /\ moved[c] <= row
          BY <1>11 DEF Rows
        <4>2. QED  BY <3>1, <4>1
      <3>3. \A c \in Columns \cup {0} : matched'[c] = IF c = 0 THEN row + 1 ELSE moved[c]
        BY <1>9, <2>2
      <3>4. QED  BY <2>2, <3>1, <3>2, <3>3 DEF RowsInOrder
    <2>3. QED  BY <1>1, <2>1, <2>2
  <1>18. Used'
    <2>1. \A k \in used : k \in Columns \cup {0} /\ moved[k] # 0
      BY <1>2, <1>6, <1>7 DEF IInv, Used, TypeOK
    <2>2. CASE further \/ last
      BY <1>1, <2>1, <2>2 DEF Used
    <2>3. CASE again
      BY <1>1, <1>2, <1>9, <2>3 DEF Used, TypeOK, Rows
    <2>4. QED  BY <1>1, <2>2, <2>3
  <1>19. Distances'
    BY <1>1 DEF Distances
  <1>20. Tree'
    <2>1. CASE further
      <3>1. ASSUME NEW c \in (used \cup {p}) \ {0}, rank[c] <= rank[p]
            PROVE  /\ way[c] \in used /\ rank[way[c]] < rank[c]
                   /\ Slack(moved[way[c]], c) = 0
        <4>1. c \in Columns /\ rank[c] \in Nat /\ rank[p] \in Nat
          BY <1>2, <1>3, <1>5, <3>1 DEF TypeOK, Ranks
        <4>2. c \in {d \in used \cup {column} : rank[d] <= rank[column]} \ {0}
          BY <1>4, <1>5, <3>1, <4>1
        <4>3. way[c] \in used /\ rank[way[c]] < rank[c] /\ Slack(matched[way[c]], c) = 0
          BY <1>3, <4>2 DEF WayBack
        <4>4. way[c] \in Columns \cup {0} /\ rank[way[c]] \in Nat
          BY <1>2, <1>3, <4>1 DEF TypeOK, Ranks
        <4>5. way[c] # column
          BY <1>4, <1>5, <3>1, <4>1, <4>3, <4>4
        <4>6. QED  BY <1>7, <4>3, <4>4, <4>5
      <3>2. \A c \in (used \cup {p}) \ {0} : rank[c] <= rank[p] =>
              /\ way[c] \in used /\ rank[way[c]] < rank[c]
              /\ After(moved[way[c]], c) = 0
        BY <1>13, <3>1
      <3>3. QED  BY <1>1, <1>3, <2>1, <3>2 DEF Tree, WayBack, Slack, Cost
    <2>2. CASE last
      BY <1>1, <1>3, <2>2 DEF Tree
    <2>3. CASE again
      BY <1>1, <1>3, <2>3 DEF Tree, WayBack
    <2>4. QED  BY <1>1, <2>1, <2>2, <2>3
  <1>21. QED  BY <1>12, <1>14, <1>16, <1>17, <1>18, <1>19, <1>20 DEF IInv

-----------------------------------------------------------------------------
(* The theorems.                                                           *)

LEMMA Inductive ==
  ASSUME IInv, [Next]_vars
  PROVE  IInv'
  <1>1. ASSUME NEW next \in Columns, Search(next) PROVE IInv'
    BY <1>1, SearchOK
  <1>2. CASE Augment
    BY <1>2, AugmentOK
  <1>3. CASE UNCHANGED vars
    BY <1>3 DEF vars, IInv, TypeOK, Certified, Distinct, RowsInOrder, Used, Distances, Tree,
                WayBack, Slack, Cost
  <1>4. QED  BY <1>1, <1>2, <1>3 DEF Next

\* The variables of minimum_cost_assignment keep to their types; rows past the
\* last one are never reached.
THEOREM TypeCorrect == Spec => []TypeOK
  <1>1. Init => IInv
    BY InitOK
  <1>2. IInv /\ [Next]_vars => IInv'
    BY Inductive
  <1>3. IInv => TypeOK
    BY DEF IInv
  <1>4. QED  BY <1>1, <1>2, <1>3, PTL DEF Spec

\* After every turn of minimum_cost_assignment the potentials certify what it
\* has matched so far as cheapest, whatever the size of the matrix and the costs.
THEOREM PotentialsCertify == Spec => []Certified
  <1>1. Init => IInv
    BY InitOK
  <1>2. IInv /\ [Next]_vars => IInv'
    BY Inductive
  <1>3. IInv => Certified
    BY DEF IInv
  <1>4. QED  BY <1>1, <1>2, <1>3, PTL DEF Spec

-----------------------------------------------------------------------------
(***************************************************************************)
(* The links are the cheapest choice.  In the end each row has one column, *)
(* so the potentials sum up to the price of what is matched; any choice of *)
(* pairs is a matching too, in which a row that is left has a column of    *)
(* its own, and costs at least the sum of the potentials.                  *)
(***************************************************************************)

\* The rows that came before have a column, and keep one on the way back.
Placed ==
  /\ IF stage = "done" THEN column = 0 ELSE matched[0] = row
  /\ \A r \in Rows :
       r < row \/ stage = "done" =>
         \E c \in Columns : matched[c] = r /\ (stage = "augment" => c # column)

LEMMA PlacedInit == Init => Placed
  BY DEF Init, Placed, Rows

LEMMA PlacedStep ==
  ASSUME IInv, Placed, [Next]_vars
  PROVE  Placed'
  <1>1. ASSUME NEW next \in Columns, Search(next) PROVE Placed'
    <2>1. /\ stage = "search" /\ matched' = matched /\ row' = row /\ column' = next
          /\ stage' = IF matched[next] = 0 THEN "augment" ELSE "search"
      BY <1>1 DEF Search
    <2>2. ASSUME NEW r \in Rows, r < row
          PROVE  \E c \in Columns : matched[c] = r /\ (stage' = "augment" => c # next)
      <3>1. PICK c \in Columns : matched[c] = r
        BY <2>2 DEF Placed
      <3>2. r # 0
        BY DEF Rows
      <3>3. QED  BY <2>1, <3>1, <3>2
    <2>3. QED  BY <2>1, <2>2 DEF Placed
  <1>2. CASE Augment
    <2> DEFINE p == way[column]
               moved == [matched EXCEPT ![column] = matched[p]]
    <2>1. /\ stage = "augment" /\ column' = p
          /\ \/ p # 0 /\ matched' = moved /\ row' = row /\ stage' = "augment"
             \/ p = 0 /\ row = Predecessors /\ matched' = moved /\ row' = row /\ stage' = "done"
             \/ /\ p = 0 /\ row' = row + 1 /\ stage' = "search"
                /\ matched' = [moved EXCEPT ![0] = row + 1]
      BY <1>2 DEF Augment
    <2>2. column \in Columns /\ p \in Columns \cup {0} /\ p # column /\ 0 \notin Columns
      <3>1. PICK rank \in Ranks :
              column # 0 /\ WayBack({c \in used \cup {column} : rank[c] <= rank[column]}, rank)
        BY <2>1 DEF IInv, Tree
      <3>2. column \in Columns /\ rank[column] \in Nat
        BY <3>1 DEF IInv, TypeOK, Ranks
      <3>3. rank[p] < rank[column]
        BY <3>1, <3>2 DEF WayBack
      <3>4. 0 \notin Columns
        BY SizesAssumption DEF Columns
      <3>5. p \in Columns \cup {0}
        BY <3>2 DEF IInv, TypeOK
      <3>6. p # column
        BY <3>2, <3>3
      <3>7. QED  BY <3>2, <3>4, <3>5, <3>6
    <2>3. /\ moved \in [Columns \cup {0} -> Rows \cup {0}]
          /\ \A c \in Columns \cup {0} : moved[c] = IF c = column THEN matched[p] ELSE matched[c]
      BY <2>2 DEF IInv, TypeOK
    <2>4. \A c \in Columns : matched'[c] = moved[c]
      BY <2>1, <2>2, <2>3
    <2>5. matched[0] = row /\ row \in Rows
      BY <2>1 DEF IInv, TypeOK, Placed
    \* What loses the current column to the row of the one before has it there.
    <2>6. ASSUME NEW r \in Rows, r < row
          PROVE  \E c \in Columns : moved[c] = r /\ c # p
      <3>1. PICK c \in Columns : matched[c] = r /\ c # column
        BY <2>1, <2>6 DEF Placed
      <3>2. CASE c = p
        BY <2>2, <2>3, <3>1, <3>2
      <3>3. CASE c # p
        BY <2>3, <3>1, <3>3
      <3>4. QED  BY <3>2, <3>3
    <2>7. p = 0 => moved[column] = row
      BY <2>2, <2>3, <2>5
    <2> HIDE DEF moved
    <2>8. CASE p # 0
      <3>1. matched'[0] = row
        BY <2>1, <2>2, <2>3, <2>5, <2>8
      <3>2. QED  BY <2>1, <2>4, <2>6, <2>8, <3>1 DEF Placed
    <2>9. CASE p = 0 /\ stage' = "done"
      <3>1. \A r \in Rows : r < row \/ r = row
        BY <2>1, <2>9, SizesAssumption DEF Rows
      <3>2. QED  BY <2>1, <2>2, <2>4, <2>6, <2>7, <2>9, <3>1 DEF Placed
    <2>10. CASE p = 0 /\ stage' = "search"
      <3>1. row' = row + 1 /\ matched'[0] = row + 1
        BY <2>1, <2>3, <2>10
      <3>2. \A r \in Rows : r < row + 1 => r < row \/ r = row
        BY <2>5 DEF Rows
      <3>3. QED  BY <2>1, <2>2, <2>4, <2>6, <2>7, <2>10, <3>1, <3>2 DEF Placed
    <2>11. QED  BY <2>1, <2>8, <2>9, <2>10
  <1>3. CASE UNCHANGED vars
    BY <1>3 DEF vars, Placed
  <1>4. QED  BY <1>1, <1>2, <1>3 DEF Next

\* In the end each row has one column, and each column that is taken is its row's.
LEMMA EachRowPlaced ==
  ASSUME IInv, Placed, stage = "done"
  PROVE  \E col \in [Rows -> Columns] :
           /\ \A r \in Rows : matched[col[r]] = r
           /\ \A r, q \in Rows : col[r] = col[q] => r = q
           /\ \A c \in Columns : matched[c] # 0 => matched[c] \in Rows /\ col[matched[c]] = c
  <1> DEFINE col == [r \in Rows |-> CHOOSE c \in Columns : matched[c] = r]
  <1>1. \A r \in Rows : col[r] \in Columns /\ matched[col[r]] = r
    <2> SUFFICES ASSUME NEW r \in Rows PROVE col[r] \in Columns /\ matched[col[r]] = r
      OBVIOUS
    <2>1. \E c \in Columns : matched[c] = r
      BY DEF Placed
    <2>2. QED  BY <2>1
  <1>2. col \in [Rows -> Columns]
    BY <1>1
  <1>3. 0 \notin Columns /\ column = 0
    BY SizesAssumption DEF Columns, Placed
  <1>4. \A c, d \in Columns : matched[c] = matched[d] /\ matched[c] # 0 => c = d
    BY <1>3 DEF IInv, Distinct
  <1>5. \A c \in Columns : matched[c] \in Rows \cup {0}
    BY DEF IInv, TypeOK
  <1> HIDE DEF col
  <1>6. ASSUME NEW c \in Columns, matched[c] # 0
        PROVE  matched[c] \in Rows /\ col[matched[c]] = c
    BY <1>1, <1>4, <1>5, <1>6
  <1>7. \A r, q \in Rows : col[r] = col[q] => r = q
    BY <1>1
  <1>8. QED  BY <1>1, <1>2, <1>6, <1>7

\* What a matching pays at least: the potentials of the rows, and those of the
\* columns that it takes.
TakenOf(d) == [c \in Columns |-> IF \E r \in Rows : d[r] = c THEN v[c] ELSE 0]

LEMMA SumOfPotentials ==
  ASSUME TypeOK, NEW d \in [Rows -> Columns], \A r, q \in Rows : d[r] = d[q] => r = q
  PROVE  /\ Sum([r \in Rows |-> u[r] + v[d[r]]], Predecessors)
              = Sum(u, Predecessors) + Sum(TakenOf(d), Successors + Predecessors)
         /\ Integers1([r \in Rows |-> u[r] + v[d[r]]], Predecessors)
         /\ Integers1(TakenOf(d), Successors + Predecessors)
  <1> DEFINE both == [r \in Rows |-> u[r] + v[d[r]]]
             moved == [r \in Rows |-> v[d[r]]]
  <1>1. Predecessors \in Nat /\ Successors + Predecessors \in Nat
    BY SizesAssumption
  <1>2. u \in [Rows -> Int] /\ v \in [Columns -> Int]
    BY DEF TypeOK
  <1>3. Integers1(u, Predecessors) /\ Integers1(moved, Predecessors) /\ Integers1(both, Predecessors)
    BY <1>2 DEF Integers1, Rows
  <1>4. \A r \in 1 .. Predecessors : both[r] = u[r] + moved[r]
    BY DEF Rows
  <1>5. Sum(moved, Predecessors) = Sum(TakenOf(d), Successors + Predecessors)
    BY <1>1, <1>2, SumMoved DEF Rows, Columns, TakenOf
  <1>6. Integers1(TakenOf(d), Successors + Predecessors)
    BY <1>2 DEF Integers1, TakenOf, Columns
  <1> HIDE DEF both, moved
  <1>7. Sum(both, Predecessors) = Sum(u, Predecessors) + Sum(moved, Predecessors)
    BY <1>1, <1>3, <1>4, SumPlus
  <1>8. QED  BY <1>3, <1>5, <1>6, <1>7 DEF both

\* A row that is linked costs what its column does; one that is left, no more.
LEMMA LinkedCost ==
  ASSUME IInv, NEW col \in [Rows -> Columns], NEW r \in Rows, matched[col[r]] = r,
         \A c \in Columns : matched[c] = r => col[r] = c
  PROVE  PriceOf(r, Links) \in Int /\ PriceOf(r, Links) <= u[r] + v[col[r]]
  <1>1. /\ u[r] \in Int /\ v[col[r]] \in Int /\ Cost(r, col[r]) \in Nat
        /\ Cost(r, col[r]) = u[r] + v[col[r]]
    <2>1. u[r] \in Int /\ v[col[r]] \in Int /\ Cost(r, col[r]) \in Nat
      BY CostInt DEF IInv, TypeOK
    <2>2. r # 0
      BY DEF Rows
    <2>3. Slack(r, col[r]) = 0
      BY <2>2 DEF IInv, Certified
    <2>4. Cost(r, col[r]) - u[r] - v[col[r]] = 0
      BY <2>3 DEF Slack
    <2>5. QED  BY <2>1, <2>4
  <1>2. \A c \in 1 .. Successors : c \in Columns /\ ~(c > Successors)
    BY SizesAssumption DEF Columns
  <1>3. CASE \E l \in Links : l[1] = r
    <2> DEFINE l == CHOOSE l \in Links : l[1] = r
    <2>1. l \in Links /\ l[1] = r
      BY <1>3
    <2> HIDE DEF l
    <2>2. /\ l \in Rows \X (1 .. Successors) /\ matched[l[2]] = r
          /\ pairs[l] # NoPair /\ pairs[l] < Unmatched
      BY <2>1 DEF Links
    <2>3. l = <<r, col[r]>> /\ col[r] \in 1 .. Successors
      BY <1>2, <2>1, <2>2
    <2>4. Cost(r, col[r]) = pairs[l]
      BY <1>2, <2>2, <2>3 DEF Cost
    <2>5. PriceOf(r, Links) = pairs[l]
      BY <1>3 DEF PriceOf, l
    <2>6. QED  BY <1>1, <2>4, <2>5
  <1>4. CASE ~\E l \in Links : l[1] = r
    <2>1. PriceOf(r, Links) = Unmatched /\ Unmatched \in Nat
      BY <1>4, CostsAssumption DEF PriceOf
    <2>2. Unmatched <= Cost(r, col[r])
      <3>1. CASE col[r] > Successors
        BY <2>1, <3>1 DEF Cost
      <3>2. CASE ~(col[r] > Successors)
        <4>1. col[r] \in 1 .. Successors
          BY <3>2, SizesAssumption DEF Columns
        <4>2. <<r, col[r]>> \in Rows \X (1 .. Successors) /\ <<r, col[r]>> \notin Links
          BY <1>4, <4>1
        <4>3. pairs[<<r, col[r]>>] = NoPair \/ ~(pairs[<<r, col[r]>>] < Unmatched)
          BY <4>2 DEF Links
        <4>4. pairs[<<r, col[r]>>] \in Prices \cup {NoPair}
          BY <4>2 DEF IInv, TypeOK
        <4>5. Unmatched <= Blocked /\ Unmatched \in Nat /\ Prices \subseteq Nat
          BY CostsAssumption
        <4>6. Cost(r, col[r]) = IF pairs[<<r, col[r]>>] = NoPair THEN Blocked
                                                                 ELSE pairs[<<r, col[r]>>]
          BY <3>2 DEF Cost
        <4> DEFINE price == pairs[<<r, col[r]>>]
        <4> HIDE DEF price
        <4>7. /\ price = NoPair \/ ~(price < Unmatched)
              /\ price \in Prices \cup {NoPair}
              /\ Cost(r, col[r]) = IF price = NoPair THEN Blocked ELSE price
          BY <4>3, <4>4, <4>6 DEF price
        <4>8. QED  BY <1>1, <4>5, <4>7
      <3>3. QED  BY <3>1, <3>2
    <2>3. QED  BY <1>1, <2>1, <2>2
  <1>5. QED  BY <1>3, <1>4

\* Any other choice of pairs is a matching, in which a row that is left takes
\* the column that is kept for it.
LEMMA OtherCost ==
  ASSUME IInv, NEW other \in SUBSET {l \in Rows \X (1 .. Successors) : pairs[l] # NoPair},
         OneToOne(other)
  PROVE  \E d \in [Rows -> Columns] :
           /\ \A r, q \in Rows : d[r] = d[q] => r = q
           /\ \A r \in Rows : PriceOf(r, other) \in Int /\ u[r] + v[d[r]] <= PriceOf(r, other)
  <1> DEFINE Linked(r) == \E l \in other : l[1] = r
             Link(r) == CHOOSE l \in other : l[1] = r
             d == [r \in Rows |-> IF Linked(r) THEN Link(r)[2] ELSE Successors + r]
  <1>1. \A r \in Rows : Linked(r) => Link(r) \in other /\ Link(r)[1] = r
    OBVIOUS
  <1> HIDE DEF Link
  <1>2. \A l \in other : l \in Rows \X (1 .. Successors) /\ pairs[l] # NoPair
    OBVIOUS
  <1>3. /\ \A c \in 1 .. Successors : c \in Columns /\ ~(c > Successors)
        /\ \A r \in Rows : Successors + r \in Columns /\ Successors + r > Successors
        /\ \A r, q \in Rows : Successors + r = Successors + q => r = q
        /\ \A r \in Rows : Successors + r \notin 1 .. Successors
    BY SizesAssumption DEF Columns, Rows
  <1>4. ASSUME NEW r \in Rows, Linked(r)
        PROVE  /\ d[r] = Link(r)[2] /\ d[r] \in 1 .. Successors /\ Link(r) = <<r, d[r]>>
               /\ Link(r) \in other
    BY <1>1, <1>2, <1>4
  <1>5. \A r \in Rows : ~Linked(r) => d[r] = Successors + r
    OBVIOUS
  <1> HIDE DEF Linked, d
  <1>6. ASSUME NEW r \in Rows PROVE d[r] \in Columns
    BY <1>3, <1>4, <1>5
  <1>7. d \in [Rows -> Columns]
    BY <1>6 DEF d
  <1>8. ASSUME NEW r \in Rows, NEW q \in Rows, d[r] = d[q] PROVE r = q
    <2>1. CASE Linked(r) /\ Linked(q)
      <3>1. Link(r) = <<r, d[r]>> /\ Link(q) = <<q, d[r]>> /\ Link(r) \in other /\ Link(q) \in other
        BY <1>4, <1>8, <2>1
      <3>2. Link(r) = Link(q)
        BY <3>1 DEF OneToOne
      <3>3. QED  BY <3>1, <3>2
    <2>2. CASE ~Linked(r) /\ ~Linked(q)
      BY <1>3, <1>5, <1>8, <2>2
    <2>3. CASE Linked(r) /\ ~Linked(q)
      <3>1. d[r] \in 1 .. Successors /\ d[q] = Successors + q
        BY <1>4, <1>5, <2>3
      <3>2. QED  BY <1>3, <1>8, <3>1
    <2>4. CASE ~Linked(r) /\ Linked(q)
      <3>1. d[q] \in 1 .. Successors /\ d[r] = Successors + r
        BY <1>4, <1>5, <2>4
      <3>2. QED  BY <1>3, <1>8, <3>1
    <2>5. QED  BY <2>1, <2>2, <2>3, <2>4
  <1>9. ASSUME NEW r \in Rows
        PROVE  PriceOf(r, other) = Cost(r, d[r])
    <2>1. CASE Linked(r)
      <3>1. PriceOf(r, other) = pairs[<<r, d[r]>>]
        BY <1>4, <2>1 DEF PriceOf, Linked, Link
      <3>2. pairs[<<r, d[r]>>] # NoPair /\ ~(d[r] > Successors)
        BY <1>2, <1>3, <1>4, <2>1
      <3>3. QED  BY <3>1, <3>2 DEF Cost
    <2>2. CASE ~Linked(r)
      BY <1>3, <1>5, <2>2 DEF PriceOf, Linked, Cost
    <2>3. QED  BY <2>1, <2>2
  <1>10. ASSUME NEW r \in Rows
         PROVE  PriceOf(r, other) \in Int /\ u[r] + v[d[r]] <= PriceOf(r, other)
    <2>1. Cost(r, d[r]) \in Nat /\ u[r] \in Int /\ v[d[r]] \in Int
      BY <1>6, CostInt DEF IInv, TypeOK
    <2>2. Cost(r, d[r]) - u[r] - v[d[r]] >= 0
      BY <1>6 DEF IInv, Certified, Slack
    <2>3. QED  BY <1>9, <2>1, <2>2
  <1>11. QED  BY <1>7, <1>8, <1>10

LEMMA DoneIsBest ==
  ASSUME IInv, Placed
  PROVE  LinksBest
  <1> SUFFICES ASSUME stage = "done"
               PROVE  /\ OneToOne(Links)
                      /\ \A other \in SUBSET {l \in Rows \X (1 .. Successors) : pairs[l] # NoPair} :
                           OneToOne(other) => Price(Links) <= Price(other)
    BY DEF LinksBest
  <1>1. PICK col \in [Rows -> Columns] :
          /\ \A r \in Rows : matched[col[r]] = r
          /\ \A r, q \in Rows : col[r] = col[q] => r = q
          /\ \A c \in Columns : matched[c] # 0 => matched[c] \in Rows /\ col[matched[c]] = c
    BY EachRowPlaced
  <1>2. \A r \in Rows, c \in Columns : matched[c] = r => col[r] = c
    <2>1. \A r \in Rows : r # 0
      BY DEF Rows
    <2>2. QED  BY <1>1, <2>1
  <1>3. OneToOne(Links)
    <2>1. \A c \in 1 .. Successors : c \in Columns
      BY SizesAssumption DEF Columns
    <2>2. ASSUME NEW l \in Links
          PROVE  l = <<l[1], l[2]>> /\ l[1] = matched[l[2]] /\ l[2] = col[l[1]]
      BY <1>2, <2>1 DEF Links
    <2>3. QED  BY <2>2 DEF OneToOne
  <1>4. ASSUME NEW other \in SUBSET {l \in Rows \X (1 .. Successors) : pairs[l] # NoPair},
               OneToOne(other)
        PROVE  Price(Links) <= Price(other)
    <2>1. PICK d \in [Rows -> Columns] :
            /\ \A r, q \in Rows : d[r] = d[q] => r = q
            /\ \A r \in Rows : PriceOf(r, other) \in Int /\ u[r] + v[d[r]] <= PriceOf(r, other)
      BY <1>4, OtherCost
    <2> DEFINE ours == [r \in Rows |-> PriceOf(r, Links)]
               theirs == [r \in Rows |-> PriceOf(r, other)]
               duals == [r \in Rows |-> u[r] + v[col[r]]]
               bounds == [r \in Rows |-> u[r] + v[d[r]]]
    <2>2. Predecessors \in Nat /\ Successors + Predecessors \in Nat /\ TypeOK
      BY SizesAssumption DEF IInv
    <2>3. /\ Sum(duals, Predecessors)
               = Sum(u, Predecessors) + Sum(TakenOf(col), Successors + Predecessors)
          /\ Integers1(duals, Predecessors) /\ Integers1(TakenOf(col), Successors + Predecessors)
      BY <1>1, <2>2, SumOfPotentials
    <2>4. /\ Sum(bounds, Predecessors)
               = Sum(u, Predecessors) + Sum(TakenOf(d), Successors + Predecessors)
          /\ Integers1(bounds, Predecessors) /\ Integers1(TakenOf(d), Successors + Predecessors)
      BY <2>1, <2>2, SumOfPotentials
    <2>5. ASSUME NEW r \in Rows PROVE ours[r] \in Int /\ ours[r] <= duals[r]
      BY <1>1, <1>2, LinkedCost
    <2>6. \A r \in Rows : theirs[r] \in Int /\ bounds[r] <= theirs[r]
      BY <2>1
    <2>7. Integers1(u, Predecessors)
      BY <2>2 DEF TypeOK, Integers1, Rows
    <2>8. \A c \in 1 .. Successors + Predecessors : TakenOf(col)[c] <= TakenOf(d)[c]
      <3> SUFFICES ASSUME NEW c \in Columns PROVE TakenOf(col)[c] <= TakenOf(d)[c]
        BY DEF Columns
      <3>1. v[c] \in Int /\ v[c] <= 0 /\ (matched[c] = 0 => v[c] = 0)
        BY <2>2 DEF IInv, Certified, TypeOK
      <3>2. TakenOf(col)[c] = v[c]
        <4>1. CASE matched[c] = 0
          BY <3>1, <4>1 DEF TakenOf
        <4>2. CASE matched[c] # 0
          <5>1. \E r \in Rows : col[r] = c
            BY <1>1, <4>2
          <5>2. QED  BY <5>1 DEF TakenOf
        <4>3. QED  BY <4>1, <4>2
      <3>3. TakenOf(d)[c] \in {v[c], 0}
        BY DEF TakenOf
      <3>4. QED  BY <3>1, <3>2, <3>3
    <2> HIDE DEF ours, theirs, duals, bounds
    <2>9. Integers1(ours, Predecessors) /\ Integers1(theirs, Predecessors)
      BY <2>5, <2>6 DEF Integers1, Rows
    <2>10. Sum(ours, Predecessors) <= Sum(duals, Predecessors)
      BY <2>2, <2>3, <2>5, <2>9, SumLeq DEF Rows
    <2>11. Sum(bounds, Predecessors) <= Sum(theirs, Predecessors)
      BY <2>2, <2>4, <2>6, <2>9, SumLeq DEF Rows
    <2>12. Sum(TakenOf(col), Successors + Predecessors) <= Sum(TakenOf(d), Successors + Predecessors)
      BY <2>2, <2>3, <2>4, <2>8, SumLeq
    <2>13. /\ Sum(u, Predecessors) \in Int
           /\ Sum(ours, Predecessors) \in Int /\ Sum(theirs, Predecessors) \in Int
           /\ Sum(TakenOf(col), Successors + Predecessors) \in Int
           /\ Sum(TakenOf(d), Successors + Predecessors) \in Int
      BY <2>2, <2>3, <2>4, <2>7, <2>9, SumInt
    <2>14. Sum(ours, Predecessors) <= Sum(theirs, Predecessors)
      BY <2>3, <2>4, <2>10, <2>11, <2>12, <2>13
    <2>15. QED  BY <2>14 DEF Price, ours, theirs
  <1>5. QED  BY <1>3, <1>4

\* minimum_cost_assignment under assign_akiyama_pairs, for any number of
\* addresses and any prices: no address is linked twice, and no other choice of
\* candidate pairs costs less.
THEOREM Cheapest == Spec => []LinksBest
  <1>1. Init => IInv /\ Placed
    BY InitOK, PlacedInit
  <1>2. IInv /\ Placed /\ [Next]_vars => IInv' /\ Placed'
    BY Inductive, PlacedStep
  <1>3. IInv /\ Placed => LinksBest
    BY DoneIsBest
  <1>4. QED  BY <1>1, <1>2, <1>3, PTL DEF Spec

-----------------------------------------------------------------------------
(***************************************************************************)
(* The algorithm ends.  A search can always go on, since there are more    *)
(* columns than rows, and it uses one more column in each turn; the way    *)
(* back leads to columns of lower and lower rank.  That it then does go on *)
(* is the fairness of Spec.                                                *)
(***************************************************************************)

Free == Columns \ (used \cup {column})

\* A search has a nearest free column, and a first one of several.
Continues ==
  stage = "search" =>
    \E next \in Free :
      \A c \in Free : Nearest(next) <= Nearest(c) /\ (Nearest(c) = Nearest(next) => next <= c)

LEMMA FreeColumn ==
  ASSUME IInv, stage = "search"
  PROVE  Free # {}
  <1> SUFFICES ASSUME Free = {} PROVE FALSE
    OBVIOUS
  <1> DEFINE f == [c \in Columns |-> matched[c]]
  <1>1. \A c \in Columns : matched[c] \in Rows
    BY DEF Free, IInv, Used, TypeOK
  <1>2. f \in [Columns -> Rows]
    BY <1>1
  <1>3. IsFiniteSet(Rows) /\ Cardinality(Rows) = Predecessors
    BY SizesAssumption, FS_Interval DEF Rows
  <1>4. IsFiniteSet(Columns) /\ Cardinality(Columns) = Successors + Predecessors
    <2>1. Successors + Predecessors \in Nat \ {0}
      BY SizesAssumption
    <2>2. QED  BY <2>1, FS_Interval DEF Columns
  <1>5. Cardinality(Rows) < Cardinality(Columns)
    BY <1>3, <1>4, SizesAssumption
  <1> HIDE DEF f
  <1>6. PICK c, d \in Columns : c # d /\ f[c] = f[d]
    BY <1>2, <1>3, <1>4, <1>5, FS_PigeonHole
  <1>7. matched[c] = matched[d] /\ matched[c] # 0
    BY <1>1, <1>6 DEF f, Rows
  <1>8. QED  BY <1>6, <1>7 DEF IInv, Distinct

LEMMA SearchContinues ==
  ASSUME IInv
  PROVE  Continues
  <1> SUFFICES ASSUME stage = "search"
               PROVE  \E next \in Free :
                        \A c \in Free : /\ Nearest(next) <= Nearest(c)
                                        /\ Nearest(c) = Nearest(next) => next <= c
    BY DEF Continues
  <1>1. \A c \in Free : c \in Nat /\ Nearest(c) \in Nat
    <2> SUFFICES ASSUME NEW c \in Free PROVE c \in Nat /\ Nearest(c) \in Nat
      OBVIOUS
    <2>1. c \in Columns \ (used \cup {column}) /\ c \in Columns /\ c \in Nat
      BY SizesAssumption DEF Free, Columns
    <2>2. /\ Nearest(c) \in Int
          /\ \E w \in used \cup {column} :
               matched[w] \in Rows /\ Nearest(c) = Slack(matched[w], c)
      BY <2>1, NearestLeast
    <2>3. \A r \in Rows : Slack(r, c) >= 0
      BY <2>1 DEF IInv, Certified
    <2>4. QED  BY <2>1, <2>2, <2>3
  <1> DEFINE distances == {Nearest(c) : c \in Free}
  <1>2. distances \in SUBSET Nat /\ distances # {}
    BY <1>1, FreeColumn
  <1>3. PICK least \in distances : \A distance \in distances : least <= distance
    <2> HIDE DEF distances
    <2>1. QED  BY <1>2, LeastNatural
  <1> DEFINE nearest == {c \in Free : Nearest(c) = least}
  <1>4. nearest \in SUBSET Nat /\ nearest # {}
    BY <1>1, <1>3
  <1>5. PICK next \in nearest : \A c \in nearest : next <= c
    <2> HIDE DEF nearest
    <2>1. QED  BY <1>4, LeastNatural
  <1>6. next \in Free /\ Nearest(next) = least
    BY <1>5
  <1>7. \A c \in Free : Nearest(next) <= Nearest(c)
    BY <1>3, <1>6
  <1>8. \A c \in Free : Nearest(c) = Nearest(next) => next <= c
    BY <1>5, <1>6
  <1>9. QED  BY <1>6, <1>7, <1>8

\* Columns on the way back, at most.
DepthIs(n) ==
  \E rank \in Ranks :
    /\ rank[column] = n
    /\ WayBack({c \in used \cup {column} : rank[c] <= n}, rank)
Depth == CHOOSE n \in Nat : DepthIs(n) /\ \A m \in Nat : DepthIs(m) => n <= m

\* A turn goes to the next row or the end, finds a column that is free, uses one
\* more, or comes one column back.
Closer ==
  \/ stage = "augment" /\ stage' = "done"
  \/ stage = "augment" /\ stage' = "search" /\ row' = row + 1
  \/ stage = "search" /\ stage' = "augment" /\ row' = row
  \/ stage = "search" /\ stage' = "search" /\ row' = row
       /\ column \in (Columns \cup {0}) \ used /\ used' = used \cup {column}
  \/ stage = "augment" /\ stage' = "augment" /\ row' = row
       /\ Depth \in Nat /\ Depth' \in Nat /\ Depth' < Depth

\* The rank by which the current column has its depth serves the next one too.
LEMMA DepthFalls ==
  ASSUME IInv, Augment, stage' = "augment"
  PROVE  Depth \in Nat /\ Depth' \in Nat /\ Depth' < Depth
  <1> DEFINE p == way[column]
             moved == [matched EXCEPT ![column] = matched[p]]
             Depths == {n \in Nat : DepthIs(n)}
             DepthsAfter == {n \in Nat : DepthIs(n)'}
  <1>1. /\ stage = "augment" /\ column' = p /\ matched' = moved
        /\ pairs' = pairs /\ way' = way /\ u' = u /\ v' = v /\ used' = used
    BY DEF Augment
  <1>2. Depth \in Nat /\ DepthIs(Depth)
    <2>1. PICK rank \in Ranks :
            column # 0 /\ WayBack({c \in used \cup {column} : rank[c] <= rank[column]}, rank)
      BY <1>1 DEF IInv, Tree
    <2>2. rank[column] \in Nat
      BY <2>1 DEF IInv, TypeOK, Ranks
    <2>3. rank[column] \in Depths
      BY <2>1, <2>2 DEF DepthIs
    <2>4. \E n \in Depths : \A m \in Depths : n <= m
      <3> HIDE DEF Depths
      <3>1. Depths \in SUBSET Nat
        BY DEF Depths
      <3>2. QED  BY <2>3, <3>1, LeastNatural
    <2>5. QED  BY <2>4 DEF Depth
  <1>3. PICK rank \in Ranks :
          /\ rank[column] = Depth
          /\ WayBack({c \in used \cup {column} : rank[c] <= Depth}, rank)
    BY <1>2 DEF DepthIs
  <1>4. column \in Columns /\ column # 0
    BY <1>1 DEF IInv, TypeOK, Tree
  <1>5. /\ p \in used /\ p \in Columns \cup {0} /\ rank[p] \in Nat /\ rank[p] < Depth
    <2>1. column \in {c \in used \cup {column} : rank[c] <= Depth} \ {0}
      BY <1>2, <1>3, <1>4
    <2>2. p \in used /\ rank[p] < rank[column]
      BY <1>3, <2>1 DEF WayBack
    <2>3. p \in Columns \cup {0}
      BY <2>2 DEF IInv, TypeOK
    <2>4. QED  BY <1>3, <2>2, <2>3 DEF Ranks
  <1>6. \A c \in Columns \cup {0} : c # column => moved[c] = matched[c]
    BY DEF IInv, TypeOK
  <1>7. ASSUME NEW c \in (used \cup {p}) \ {0}, rank[c] <= rank[p]
        PROVE  /\ way[c] \in used /\ rank[way[c]] < rank[c]
               /\ Cost(moved[way[c]], c) - u[moved[way[c]]] - v[c] = 0
    <2>1. c \in Columns /\ rank[c] \in Nat
      BY <1>3, <1>5, <1>7 DEF IInv, TypeOK, Ranks
    <2>2. c \in {d \in used \cup {column} : rank[d] <= Depth} \ {0}
      BY <1>2, <1>5, <1>7, <2>1
    <2>3. way[c] \in used /\ rank[way[c]] < rank[c] /\ Slack(matched[way[c]], c) = 0
      BY <1>3, <2>2 DEF WayBack
    <2>4. way[c] \in Columns \cup {0} /\ rank[way[c]] \in Nat
      BY <1>3, <2>1 DEF IInv, TypeOK, Ranks
    <2>5. way[c] # column
      BY <1>2, <1>3, <1>5, <1>7, <2>1, <2>3, <2>4
    <2>6. QED  BY <1>6, <2>3, <2>4, <2>5 DEF Slack
  <1>8. rank[p] \in DepthsAfter
    <2> HIDE DEF p, moved
    <2>1. PICK n \in Nat : n = rank[p]
      BY <1>5
    <2>2. \A c \in {d \in used' \cup {column'} : rank[d] <= n} \ {0} :
            /\ way'[c] \in used' /\ rank[way'[c]] < rank[c]
            /\ Cost(matched'[way'[c]], c) - u'[matched'[way'[c]]] - v'[c] = 0
      BY <1>1, <1>7, <2>1
    <2>3. \A r, c : Cost(r, c)' = Cost(r, c)
      BY <1>1 DEF Cost
    <2>4. WayBack({c \in used \cup {column} : rank[c] <= n}, rank)'
      BY <2>2, <2>3 DEF WayBack, Slack
    <2>5. rank[column'] = n
      BY <1>1, <2>1
    <2>6. DepthIs(n)'
      BY <2>4, <2>5 DEF DepthIs, Ranks, Columns
    <2>7. QED  BY <2>1, <2>6
  <1>9. Depth' \in DepthsAfter /\ \A n \in DepthsAfter : Depth' <= n
    <2>1. \E n \in DepthsAfter : \A m \in DepthsAfter : n <= m
      <3> HIDE DEF DepthsAfter
      <3>1. DepthsAfter \in SUBSET Nat
        BY DEF DepthsAfter
      <3>2. QED  BY <1>8, <3>1, LeastNatural
    <2>2. QED  BY <2>1 DEF Depth
  <1>10. Depth' <= rank[p] /\ Depth' \in Nat
    BY <1>8, <1>9
  <1>11. QED  BY <1>2, <1>5, <1>10

\* minimum_cost_assignment: a search that has not come to a free column can go on.
THEOREM NeverStuck == Spec => []Continues
  <1>1. Init => IInv
    BY InitOK
  <1>2. IInv /\ [Next]_vars => IInv'
    BY Inductive
  <1>3. IInv => Continues
    BY SearchContinues
  <1>4. QED  BY <1>1, <1>2, <1>3, PTL DEF Spec

\* ... and no turn of its loops goes in a circle, whatever the matrix.
THEOREM NoCircle == Spec => [][Closer]_vars
  <1>1. Init => IInv
    BY InitOK
  <1>2. IInv /\ [Next]_vars => IInv'
    BY Inductive
  <1>3. IInv /\ Next => Closer
    <2> SUFFICES ASSUME IInv, Next PROVE Closer
      OBVIOUS
    <2>1. ASSUME NEW next \in Columns, Search(next) PROVE Closer
      <3>1. column \in (Columns \cup {0}) \ used
        BY <2>1 DEF Search, IInv, TypeOK, Used
      <3>2. QED  BY <2>1, <3>1 DEF Search, Closer
    <2>2. CASE Augment
      <3>1. CASE stage' = "augment"
        <4>1. row' = row
          BY <2>2, <3>1 DEF Augment
        <4>2. QED  BY <2>2, <3>1, <4>1, DepthFalls DEF Augment, Closer
      <3>2. CASE stage' # "augment"
        BY <2>2, <3>2 DEF Augment, Closer
      <3>3. QED  BY <3>1, <3>2
    <2>3. QED  BY <2>1, <2>2 DEF Next
  <1>4. QED  BY <1>1, <1>2, <1>3, PTL DEF Spec
=============================================================================
