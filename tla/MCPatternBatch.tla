--------------------------- MODULE MCPatternBatch ---------------------------
(* PatternBatch on small instances: bytes of two values, images of two     *)
(* sizes, a batch of any one pattern of up to three bytes and wildcards,   *)
(* or of two patterns where each may be found or missing.                  *)
EXTENDS PatternBatch, TLC

Signatures == UNION {[0..n - 1 -> Bytes \cup {Wild}] : n \in 1..MaxLength}
Pair(a, b) == 0 :> a @@ 1 :> b
MCBatches  == {<<s>> : s \in Signatures} \cup {<<Pair(0, 1), Pair(1, Wild)>>}
=============================================================================
