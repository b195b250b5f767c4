----------------------------- MODULE MCDefConn -----------------------------
(* Instances of DefConn for TLC: what the programs send, who ticks, what fails. *)
EXTENDS DefConn

Meets(up, down, ticking, ends, breaks) ==
  [segs |-> [s \in Side |-> IF s = Client THEN up ELSE down],
   ticking |-> ticking, ends |-> ends, breaks |-> breaks]

Calm     == Meets(2, 1, {}, FALSE, FALSE)
Ticks    == Meets(3, 0, {Client}, FALSE, FALSE)
Answers  == Meets(0, 2, Side, FALSE, FALSE)
Breaks   == Meets(1, 1, {}, TRUE, TRUE)
Uploads  == Meets(2, 0, {}, TRUE, TRUE)

Interleaved == {Ticks, Answers, Breaks, Uploads}
Winding     == {Calm, Uploads}
RaceOnly    == {Ticks}
=============================================================================
