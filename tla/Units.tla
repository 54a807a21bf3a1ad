-------------------------------- MODULE Units --------------------------------
(***************************************************************************)
(* The numbers of the command line, units.c, and how one is printed.  An   *)
(* argument is a record: the number sscanf finds at its front (NoNumber if *)
(* none) and the letters after it, at most two, in lower case since case   *)
(* does not count.                                                         *)
(***************************************************************************)
EXTENDS Integers, Sequences, SequencesExt

CONSTANT Word           \* 2^64: arithmetic on uint64_t is modulo this

ASSUME UnitsAssumption == Word \in Nat \ {0}

NoNumber == -1

time_units_s == [scale |-> 60,   base |-> "s", units |-> <<"m", "h">>]
metric_units == [scale |-> 1000, base |-> "",  units |-> <<"k", "m", "g", "t", "p">>]

Refused == [ok |-> FALSE, n |-> 0]

\* The scale of the k-th unit, multiplied up unit by unit.
ScaleOf(m, k) ==
    LET scale[j \in 0..k] == IF j = 0 THEN 1 ELSE (scale[j - 1] * m.scale) % Word
    IN  scale[k]

\* The product is not tested: what does not fit is accepted with another value.
scan_units(arg, m) ==
    LET known == {k \in DOMAIN m.units : m.units[k] = arg.unit}
    IN  IF arg.n = NoNumber THEN Refused
        ELSE IF arg.unit \in {"", m.base} THEN [ok |-> TRUE, n |-> arg.n]
        ELSE IF known = {} THEN Refused
        ELSE [ok |-> TRUE, n |-> (arg.n * ScaleOf(m, CHOOSE k \in known : TRUE)) % Word]

\* The amount is divided by the scale while a unit follows that it can go to
\* and it is at least 0.85 of the scale: the last unit is never reached.  It is
\* printed rounded, a half to either side (the binary fraction decides).
Divided(n, m) ==
    CHOOSE k \in 0..(Len(m.units) - 1) :
      /\ \A j \in 0..(k - 1) : 100 * n >= 85 * m.scale * m.scale^j
      /\ k = Len(m.units) - 1 \/ 100 * n < 85 * m.scale * m.scale^k

format_units(n, m) ==
    LET k == Divided(n, m)
        whole == n \div m.scale^k
        twice == 2 * (n % m.scale^k)
    IN  [n |-> {r \in {whole, whole + 1} : (r = whole /\ twice <= m.scale^k)
                                          \/ (r # whole /\ twice >= m.scale^k)},
         unit |-> IF k = 0 THEN m.base ELSE m.units[k]]

format_time_s(n) == format_units(n, time_units_s)

scan_metric(arg) == scan_units(arg, metric_units)
scan_time(arg)   == scan_units(arg, time_units_s)
=============================================================================
