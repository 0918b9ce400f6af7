---------------------------- MODULE MCAggregators ----------------------------
(***************************************************************************)
(* Small instances of the aggregation methods.  Stateless methods get one  *)
(* round of every batch of five updates over a few values; stateful ones   *)
(* get every sequence of three rounds over hand-picked batches of two      *)
(* clients, among them each kind of refused batch, a change of dimension,  *)
(* zero samples and values that overflow.                                  *)
(***************************************************************************)
EXTENDS AggregatorProperties

MCClients == {"a", "b"}
MCRadius == Q(1, 1)
MCHalf == Q(1, 2)
MCOne == One
MCPoints == {Int2Q(0), Int2Q(4)}
MCStepSizes == {Int2Q(1), Int2Q(6)}

StatelessMethods ==
  {"fedavg", "krum", "multi_krum", "faba", "bulyan", "divide_and_conquer",
   "trimmed_mean", "median", "median_of_means", "geometric_median"}
StatefulMethods ==
  {"foolsgold", "centered_clipping", "fltrust", "zeno", "flanders", "qfedavg",
   "fednova", "scaffold", "fedavgm", "fedadam"}
MCMethods == StatelessMethods \cup StatefulMethods

Client == <<"a", "b", "c", "d", "e", "a", "b">>

Update(c, dim, x) ==
  [client |-> c, body |-> "finite", dim |-> dim, x |-> Int2Q(x), samples |-> 1,
   steps |-> 0, loss |-> -1, dc |-> NoVec]

\* A batch of n plain updates with these values.
Plain(xs) == [i \in DOMAIN xs |-> Update(Client[i], 1, xs[i])]

Pair(x, y) == Plain(<<x, y>>)
With(b, i, field, v) == [b EXCEPT ![i] = [@ EXCEPT ![field] = v]]

\* Each reason to refuse a batch.
BadBatches ==
  {<<>>, With(Pair(0, 2), 2, "body", "malformed"),
   With(Pair(0, 2), 2, "dim", 2),
   With(Pair(0, 2), 1, "body", "nonfinite"),
   With(Pair(0, 2), 2, "samples", MaxSamples + 1),
   With(With(Pair(0, 2), 1, "samples", 0), 2, "samples", 0)}

GoodBatches ==
  {Pair(0, 2), Pair(8, -4), Pair(10, 10), <<Update("a", 1, 2)>>,
   <<Update("a", 2, 2), Update("b", 2, 4)>>,
   <<Update("a", 1, 2), Update("a", 1, 4)>>,
   With(With(With(Pair(0, 8), 1, "samples", 3), 1, "steps", 2), 1, "loss", 2),
   With(With(With(Pair(-9, 0), 2, "loss", FMax + 1), 2, "steps", 9), 1, "loss", 0),
   With(With(Pair(2, 0), 1, "dc", Vec(1, Int2Q(3))), 2, "dc", Vec(1, Int2Q(1))),
   With(With(Pair(2, 0), 1, "dc", Vec(1, Int2Q(FMax))), 2, "dc", Vec(1, Int2Q(FMax))),
   With(With(Pair(10, 10), 1, "dc", Vec(2, One)), 2, "dc", Vec(1, Int2Q(1)))}

Values == {0, 1, 4}
Batch(n) == {Plain(xs) : xs \in [1 .. n -> Values]}

\* Five updates where MinorityCannotSteer is about the method.
MCBatches(m) ==
  BadBatches \cup
  CASE m \in StatefulMethods -> GoodBatches
    [] m \in {"krum", "trimmed_mean", "median"} -> Batch(5)
    [] OTHER -> Batch(3) \cup {Plain(<<0, 4, 0, 4, 1, 0, 4>>)}

MCMaxRounds(m) ==
  IF m \in StatelessMethods THEN 1 ELSE IF m = "qfedavg" THEN 2 ELSE 3
MCFractions(m) == IF m \in StatelessMethods THEN {Q(1, 5), Q(2, 5)} ELSE {Q(1, 2)}
=============================================================================
