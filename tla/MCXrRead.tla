------------------------------ MODULE MCXrRead ------------------------------
(* Instances of XrRead for TLC: the constants are given in the cfg files.  *)
(* The bytes of an URB are XrDecode's; short URBs are tried here.          *)
EXTENDS XrRead, XrDecode

Short(n) == UNION {[1..l -> {1, 2, 12, 48}] : l \in 0..n}

\* The theorems of XrDecodeProofs, on short URBs.
ASSUME DecodesPairs ==
  \A a \in Short(4), b \in Short(3) :
    IF Len(a) % 2 = 0 THEN Splits(a, b)
    ELSE KeptWhole(a, b) /\ (Len(b) >= 2 => BreaksPair(a, b))
=============================================================================
