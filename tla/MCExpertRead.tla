---------------------------- MODULE MCExpertRead ----------------------------
(* Bounded instances of ExpertRead: an expert of two tensors and one other  *)
(* tensor, put anywhere in two shards, or declared twice, or missing.       *)
EXTENDS ExpertRead

Length(n) == CASE n = "packed" -> 5 [] n = "scale" -> 2 [] OTHER -> 1
Entry(n, o, l, f) == [name |-> n, o0 |-> o, o1 |-> o + l, bytes |-> Length(n), form |-> f]
Places(n) == {Entry(n, o, Length(n), TRUE) : o \in 0 .. 7}
Spoilt(n) == {Entry(n, 0, Length(n) + 1, TRUE), Entry(n, 0, Length(n), FALSE), Entry(n, 4, -4, TRUE)}
Shard(b, tail, es) == [base |-> b, size |-> b + 8 + tail, entries |-> es]
Pair(b, tail, es, fs) == <<Shard(b, tail, es), Shard(9, 0, fs)>>

Whole  == {Pair(b, tail, {p, s, x}, {}) :
               b \in 9 .. 12, tail \in {0, 2},
               p \in Places("packed"), s \in Places("scale"), x \in Places("other")}
Halved == {Pair(9, 0, {p}, {s, x}) :
               p \in Places("packed") \cup Spoilt("packed"), s \in Places("scale"), x \in Places("other")}
Twice  == {Pair(9, 0, {Entry("packed", 0, 5, TRUE), Entry("scale", 5, 2, TRUE), x}, {y}) :
               x \in Places("other"),
               y \in Places("other") \cup Places("scale") \cup Spoilt("other")}
Bad    == {Pair(9, 0, {p, Entry("scale", 5, 2, TRUE), Entry("other", 7, 1, TRUE)}, {}) :
               p \in Spoilt("packed")} \cup {<<Shard(9, -9, {}), Shard(9, 0, {})>>}
AllDisks == Whole \cup Halved \cup Twice \cup Bad

Tensors == {"packed", "scale", "other"}
Expert  == <<"packed", "scale">>
Fnv(n)  == IF n = "other" THEN 3 ELSE 7      \* two of the names collide
=============================================================================
