------------------------------- MODULE MCChat -------------------------------
(* Bounded instances of Chat: texts over one letter, where the model's two  *)
(* letters in a row spell what the encoder makes one id of.                 *)
EXTENDS Chat

a  == 1
aa == 2
Letters == {a, aa}
Markers == {11, 12, 13, 14, 15, 16}
Opens   == [r \in Roles |-> CASE r = "system" -> 11 [] r = "user" -> 12 [] OTHER -> 13]
Closes  == {14, 15}      \* end_of_msg and EOS; 16 is any other control id

(* The encoder merges two letters from the left. *)
Merge(s) ==
    LET letters == [i \in 0 .. Len(s) |->
            IF i = 0 THEN 0 ELSE IF s[i] = aa THEN 2 ELSE 1]
        total[i \in 0 .. Len(s)] == IF i = 0 THEN 0 ELSE total[i - 1] + letters[i]
        n == total[Len(s)]
    IN [i \in 1 .. (n + 1) \div 2 |-> IF 2 * i <= n THEN aa ELSE a]

(* A model that hangs on the whole context: it ends its turns either way,   *)
(* spells some of them unlike the encoder, runs on or goes wrong in others. *)
Weight(c) ==
    LET w[i \in 0 .. Len(c)] == IF i = 0 THEN 0 ELSE (w[i - 1] * 3 + c[i]) % 17
    IN w[Len(c)]
Drawn(c, stream) ==
    LET w == (Weight(c) + stream) % 17 IN
    CASE w < 8 -> a [] w < 10 -> aa [] w < 13 -> 14 [] w < 16 -> 15 [] OTHER -> 16

Words   == {<<a>>, <<aa, a>>}
Openings == {<<a>>}
Mode(inc, low, saves, g) == [incremental |-> inc, ultra |-> low, path |-> saves, gen |-> g]
Sessions == {Mode(TRUE, FALSE, TRUE, 3), Mode(FALSE, FALSE, TRUE, 2), Mode(TRUE, TRUE, FALSE, 4)}
UltraOnly == {Mode(FALSE, TRUE, TRUE, 2)}
=============================================================================
