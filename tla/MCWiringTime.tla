---------------------------- MODULE MCWiringTime ----------------------------
EXTENDS WiringTime

MCWaits ==
  {[op |-> "delay", time |-> t] : t \in {0, 2}}
  \cup {[op |-> "delayMicroseconds", time |-> 3]}

DelaysOnly == {[op |-> "delay", time |-> 2]}
=============================================================================
