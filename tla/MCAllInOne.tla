----------------------------- MODULE MCAllInOne -----------------------------
(* Four rows, three of them with one key, through queues of one place: the   *)
(* producer and both hand-overs block, two fetchers race for the key, and a  *)
(* duplicate can arrive before, during and after its twin.                   *)
EXTENDS AllInOne

KeysOfRows == <<"k1", "k1", "k2", "k1">>
=============================================================================
