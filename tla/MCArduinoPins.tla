---------------------------- MODULE MCArduinoPins ---------------------------
EXTENDS ArduinoPins

MCPin == {0, 1, 2}

MCCall(op, pin, val) == [op |-> op, pin |-> pin, val |-> val]

(* Pin 0 and pin 1 go from PWM to digital and back; pin 2 is the one the   *)
(* interrupt function of pin 1 or 2 writes, and it is digital ...          *)
Digital ==
  {MCCall("analogWrite", 1, 1)}
  \cup {MCCall("analogWrite", 0, v) : v \in {0, 3, 4, 5}}
  \cup {MCCall("digitalWrite", p, 1) : p \in {0, 2}}
  \cup {MCCall("digitalRead", 1, 0), MCCall("pinMode", 2, 1),
        MCCall("pinMode", 2, 0)}
  \cup {MCCall(op, p, 0) : op \in {"attachInterrupt", "detachInterrupt"},
                           p \in {1, 2}}

(* ... or goes under PWM too.                                              *)
Shared ==
  {MCCall("analogWrite", 1, 1), MCCall("analogWrite", 2, 3)}
  \cup {MCCall("analogWrite", 0, v) : v \in {0, 4, 5}}
  \cup {MCCall("digitalWrite", p, 1) : p \in {0, 2}}
  \cup {MCCall("digitalRead", 1, 0), MCCall("pinMode", 2, 0),
        MCCall("attachInterrupt", 1, 0), MCCall("detachInterrupt", 1, 0)}

MCSketches == {Digital, Shared}
=============================================================================
