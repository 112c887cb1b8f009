------------------------------ MODULE MCLoader ------------------------------
EXTENDS Loader

CONSTANTS a, b, std, reg

\* b can be imported under two names.
MCSpelling ==
  [s \in {"a", "b", "./b", "std", "reg", "gone"} |->
     CASE s = "a" -> a
       [] s \in {"b", "./b"} -> b
       [] s = "std" -> std
       [] s = "reg" -> reg
       [] s = "gone" -> Missing]

\* a imports up to two files and b up to one; the library imports nothing.
UpTo(S, n) == UNION {[1..m -> S] : m \in 0..n}
MCSources ==
  {[k \in {a, b, std, reg} |-> CASE k = a -> sa [] k = b -> sb [] k = std -> <<>> [] k = reg -> sr] :
     sa \in UpTo({"a", "b", "./b", "std", "reg"}, 2),
     sb \in UpTo({"a", "b", "reg", "gone"}, 1),
     sr \in {<<>>, <<"std">>, <<"b">>}}
=============================================================================
