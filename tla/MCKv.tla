-------------------------------- MODULE MCKv --------------------------------
(* A small instance of SimpleKV for TLC: keys at the limit of the short      *)
(* strings and above it, three of them in one bucket, which grows.           *)
EXTENDS SimpleKV

MCKeyLen == [k \in {"a", "b", "c", "d"} |->
               CASE k = "b" -> 23 [] k = "c" -> 24 [] OTHER -> 1]
MCHash == [k \in {"a", "b", "c", "d"} |-> IF k = "d" THEN 1 ELSE 0]
=============================================================================
