--------------------------- MODULE MCIdentityFilter ---------------------------
(* Model-checking instance of IdentityFilter.                                *)
EXTENDS IdentityFilter

(* A frame with byte 2 in it bears identity, wherever that byte comes; one of *)
(* one byte is too short to classify.                                         *)
MCExcluded ==
  LET Contents == UNION {[1 .. n -> Bytes] : n \in 1 .. MaxChunks * MaxChunkBytes}
  IN {s \in Contents : 2 \in {s[i] : i \in DOMAIN s} \/ Len(s) = 1}
===============================================================================
