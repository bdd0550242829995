--------------------------- MODULE MCApizzaMatching -------------------------
(* Small inputs of the matcher.  A unit is 25 m of latitude.  From         *)
(* latitude 16 on one of longitude is half as wide.                        *)
EXTENDS ApizzaMatching, FiniteSetsExt, TLC

Names == {"Tony's Pizza", "Tony Slice", "Tony Big Slice", "Bar"}
Scores == [n \in Names \X Names |->
  CASE n[1] = n[2] -> 100
    [] {n[1], n[2]} = {"Tony's Pizza", "Tony Slice"} -> 50
    [] {n[1], n[2]} = {"Tony's Pizza", "Tony Big Slice"} -> 33
    [] {n[1], n[2]} = {"Tony Slice", "Tony Big Slice"} -> 67
    [] OTHER -> 0]

North(lat) == lat >= 16
LngPads == [c \in 0..46 |-> IF c >= 32 THEN 7 ELSE 3]

\* A candidate: name, position, contact, then whether it is in scope, a pizzeria, closed
\* and with a source id.
Found(n, pos, contact, inScope, pizza, closed, sourceId) ==
  [name |-> n, pos |-> pos, contact |-> contact, inScope |-> inScope, pizza |-> pizza,
   closed |-> closed, sourceId |-> sourceId]

\* At the corner of four tiles, and far in the north.
SomeCandidates == {
  Found("Tony's Pizza", <<7, 8>>, "phone", TRUE, TRUE, FALSE, TRUE),
  Found("Tony Slice", <<8, 8>>, NoValue, TRUE, TRUE, FALSE, FALSE),
  Found("Tony's Pizza", <<7, 7>>, "phone", TRUE, TRUE, TRUE, TRUE),
  Found("Tony's Pizza", <<8, 8>>, NoValue, TRUE, TRUE, TRUE, FALSE),
  Found("Tony's Pizza", <<23, 7>>, NoValue, TRUE, TRUE, FALSE, TRUE),
  Found("Bar", <<7, 8>>, "phone", TRUE, FALSE, FALSE, TRUE),
  Found("Tony's Pizza", NoValue, "phone", FALSE, TRUE, FALSE, TRUE)}

Place(id, pos, n, contact) == [id |-> id, pos |-> pos, name |-> n, contact |-> contact]

\* 1 and 2 tie; 3 is across the edge of a tile; 4 has a reused phone number; 6 and 9
\* are just as far as the maximal distance.
SomePlaces == {
  Place(1, <<7, 8>>, "Tony's Pizza", NoValue), Place(2, <<7, 8>>, "Tony's Pizza", NoValue),
  Place(3, <<10, 8>>, "Tony Big Slice", NoValue), Place(4, <<8, 8>>, "Bar", "phone"),
  Place(5, <<4, 8>>, "Tony's Pizza", "phone"), Place(6, <<11, 8>>, "Tony's Pizza", NoValue),
  Place(7, <<8, 7>>, "Tony Slice", NoValue), Place(8, <<23, 11>>, "Tony's Pizza", NoValue),
  Place(9, <<7, 12>>, "Tony's Pizza", "phone")}

Apart(x, y) == IF x < y THEN y - x ELSE x - y
Positions == {c.pos : c \in SomeCandidates} \cup {r.pos : r \in SomePlaces}
Distances == [q \in (Positions \ {NoValue}) \X (Positions \ {NoValue}) |->
  LET lat == 25 * Apart(q[1][1], q[2][1])
      lng == (IF North(q[1][1]) THEN 13 ELSE 25) * Apart(q[1][2], q[2][2])
  IN IF lat < lng THEN lng ELSE lat]

UpTo(n, S) == UNION {kSubset(k, S) : k \in 0..n}
SomeInputs == [candidates : UpTo(2, SomeCandidates), rows : UpTo(3, SomePlaces)]

ASSUME SomeInputsTyped == \A i \in SomeInputs : TypedInput(i)
=============================================================================
