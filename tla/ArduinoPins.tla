----------------------------- MODULE ArduinoPins ----------------------------
(***************************************************************************)
(* Digital pins of the Arduino library: writes by the sketch and by its    *)
(* interrupt functions, the software PWM that the handler of timer B runs  *)
(* on the same output register, and the GPIO handler with attachInterrupt  *)
(* and detachInterrupt (wiring_digital.c, wiring_analog.c, WInterrupts.c). *)
(* A handler runs to its end with interrupts off: one action.  The sketch  *)
(* makes one access to a location that a handler also writes at a time.    *)
(* Timer B may match at any time.                                          *)
(***************************************************************************)
EXTENDS Integers, FiniteSetsExt

CONSTANTS
  Pin,           (* numbers of pins                                        *)
  Led,           (* the pin an interrupt function writes                   *)
  PWM_MAX_COUNT, (* 31 in the program                                      *)
  PWM_STEP,      (* 1 << PWM_PRE: 8                                        *)
  CountMod,      (* 256: PWM_global_en is a uint8_t                        *)
  Sketches       (* the programs, each the set of the calls it makes       *)

LOW  == 0
HIGH == 1
Full == (PWM_MAX_COUNT + 1) * PWM_STEP - 1                  (* 255         *)
Handlers == {"GPIO", "TimerB"}

ASSUME PinsAssumption ==
  /\ Pin \subseteq Nat /\ Led \in Pin
  /\ IsFiniteSet(Pin) /\ Cardinality(Pin) < CountMod
  /\ CountMod \in Nat /\ PWM_MAX_COUNT \in Nat /\ PWM_STEP \in Nat \ {0}
  /\ \A s \in Sketches :
       s \subseteq [op : {"digitalWrite", "analogWrite", "digitalRead",
                         "pinMode", "attachInterrupt", "detachInterrupt"},
                   pin : Pin, val : 0..Full]

VARIABLES
  PADDIR,        (* the pins that are outputs                              *)
  PADOUT,        (* the output register, by pin                            *)
  INTEN, INTSTATUS,
  IER,           (* the handlers enabled                                   *)
  enabled,       (* PWM_status_arr: the pins with PWM_enabled              *)
  value,         (* and PWM_value of each                                  *)
  PWM_global_en, PWM_count,
  intFunc,       (* of each pin: "nothing" or "write", a function that     *)
                 (* writes Led                                             *)
  ie,            (* interrupts are enabled                                 *)
  sketch,        (* the program                                            *)
  call,          (* the call the sketch is in                              *)
  place,         (* where it is, and what it has loaded: PADOUT, the count *)
  seen,          (* and IER                                                *)
  written,       (* measures: of each pin, the level written last, -1 when *)
                 (* it was left to the PWM                                 *)
  settled        (* measures: the pins whose PWM has kept its value since  *)
                 (* the start of the present period                        *)

irq  == <<INTEN, INTSTATUS, intFunc>>
flow == <<sketch, call, place, seen>>
ghosts == <<written, settled>>
pinVars == <<PADDIR, PADOUT, IER, irq, enabled, value, PWM_global_en,
             PWM_count, ie, flow, ghosts>>

NoCall == [op |-> "none", pin |-> Led, val |-> 0]

NothingSeen == [out |-> [p \in Pin |-> LOW], count |-> 0, ier |-> {}]

PinsInit ==
  /\ PADDIR = {} /\ PADOUT = [p \in Pin |-> LOW] /\ IER = {}
  /\ INTEN = {} /\ INTSTATUS = {} /\ intFunc = [p \in Pin |-> "nothing"]
  /\ enabled = {} /\ value = [p \in Pin |-> 0]
  /\ PWM_global_en = 0 /\ PWM_count = 0
  /\ ie = TRUE
  /\ sketch \in Sketches
  /\ call = NoCall /\ place = "idle" /\ seen = NothingSeen
  /\ written = [p \in Pin |-> LOW] /\ settled = {}

-----------------------------------------------------------------------------
(* The sketch.                                                             *)

FirstStep(c) ==
  CASE c.op \in {"digitalWrite", "digitalRead"} -> "test"
    [] c.op \in {"analogWrite", "pinMode"}      -> "direction"
    [] c.op = "attachInterrupt"                 -> "function"
    [] c.op = "detachInterrupt"                 -> "disable"

CallPin ==
  /\ place = "idle"
  /\ call' \in sketch /\ place' = FirstStep(call')
  /\ UNCHANGED <<PADDIR, PADOUT, IER, irq, enabled, value, PWM_global_en,
                 PWM_count, ie, sketch, seen, ghosts>>

At(from) == place = from

Goto(to) == place' = to /\ UNCHANGED <<sketch, call, seen>>

Done == /\ call' = NoCall /\ place' = "idle" /\ seen' = NothingSeen
        /\ UNCHANGED sketch

(* analogWrite of a value in between puts the pin under PWM.               *)
Starting == call.op = "analogWrite" /\ call.val \notin {0, Full}

(* After turnOffPWM: digitalRead only looks at the pin, digitalWrite goes  *)
(* on to PADOUT.                                                           *)
TurnedOff == IF call.op = "digitalRead" THEN Done ELSE Goto("mask")

(* pinMode: masked as a whole, and no handler writes PADDIR.               *)
SetDirection ==
  /\ At("direction")
  /\ PADDIR' = IF call.op = "pinMode" /\ call.val = 0 THEN PADDIR \ {call.pin}
               ELSE PADDIR \cup {call.pin}
  /\ IF call.op = "pinMode" THEN Done
     ELSE IF Starting THEN Goto("enable") ELSE Goto("test")
  /\ UNCHANGED <<PADOUT, IER, irq, enabled, value, PWM_global_en, PWM_count, ie,
                 ghosts>>

(* Mutant: the count goes down whether or not the pin was under PWM.       *)
TestNothing ==
  /\ At("test") /\ Goto("clear")
  /\ UNCHANGED <<PADDIR, PADOUT, IER, irq, enabled, value, PWM_global_en,
                 PWM_count, ie, ghosts>>

(* turnOffPWM: the test of the flag, with interrupts on, ...               *)
TestEnabled ==
  /\ At("test")
  /\ IF call.pin \in enabled THEN Goto("clear") ELSE TurnedOff
  /\ UNCHANGED <<PADDIR, PADOUT, IER, irq, enabled, value, PWM_global_en,
                 PWM_count, ie, ghosts>>

(* ... the flag, and then the count and the handler.                       *)
ClearEnabled ==
  /\ At("clear") /\ Goto("count")
  /\ enabled' = enabled \ {call.pin} /\ settled' = settled \ {call.pin}
  /\ UNCHANGED <<PADDIR, PADOUT, IER, irq, value, PWM_global_en, PWM_count, ie,
                 written>>

(* analogWrite: the flag, then the count and the handler, then the value.  *)
(* A handler only clears the flag, so its test and its setting are one     *)
(* step.                                                                   *)
Enable ==
  /\ At("enable")
  /\ enabled' = enabled \cup {call.pin}
  /\ written' = [written EXCEPT ![call.pin] = -1]
  /\ IF call.pin \in enabled THEN Goto("value") ELSE Goto("count")
  /\ UNCHANGED <<PADDIR, PADOUT, IER, irq, value, PWM_global_en, PWM_count, ie,
                 settled>>

(* PWM_global_en-- and PWM_global_en++: a load and a store, and the value  *)
(* stored is the one that is compared with 0.                              *)
LoadCount ==
  /\ At("count") /\ place' = "recount"
  /\ seen' = [seen EXCEPT !.count = PWM_global_en]
  /\ UNCHANGED <<PADDIR, PADOUT, IER, irq, enabled, value, PWM_global_en,
                 PWM_count, ie, sketch, call, ghosts>>

StoreCount ==
  /\ At("recount")
  /\ PWM_global_en' = (seen.count + (IF Starting THEN 1 ELSE -1)) % CountMod
  /\ IF Starting \/ PWM_global_en' = 0 THEN Goto("handlers") ELSE TurnedOff
  /\ UNCHANGED <<PADDIR, PADOUT, IER, irq, enabled, value, PWM_count, ie, ghosts>>

(* IER |= and IER &= ~: of analogWrite, turnOffPWM and attachInterrupt.    *)
LoadIER ==
  /\ At("handlers") /\ place' = "rewrite"
  /\ seen' = [seen EXCEPT !.ier = IER]
  /\ UNCHANGED <<PADDIR, PADOUT, IER, irq, enabled, value, PWM_global_en,
                 PWM_count, ie, sketch, call, ghosts>>

StoreIER ==
  /\ At("rewrite")
  /\ \/ /\ call.op = "attachInterrupt" /\ Done
        /\ IER' = seen.ier \cup {"GPIO"}
     \/ /\ Starting /\ Goto("value")
        /\ IER' = seen.ier \cup {"TimerB"}
     \/ /\ call.op # "attachInterrupt" /\ ~Starting /\ TurnedOff
        /\ IER' = seen.ier \ {"TimerB"}
  /\ UNCHANGED <<PADDIR, PADOUT, irq, enabled, value, PWM_global_en, PWM_count,
                 ie, ghosts>>

SetValue ==
  /\ At("value") /\ Done
  /\ value' = [value EXCEPT ![call.pin] = call.val \div PWM_STEP]
  /\ settled' = settled \ {call.pin}
  /\ UNCHANGED <<PADDIR, PADOUT, IER, irq, enabled, PWM_global_en, PWM_count, ie,
                 written>>

(* Mutant: interrupts stay as they are.                                    *)
MaskNothing ==
  /\ At("mask") /\ Goto("load")
  /\ UNCHANGED <<ie, PADDIR, PADOUT, IER, irq, enabled, value, PWM_global_en,
                 PWM_count, ghosts>>

(* digitalWrite: interrupts are disabled around the update of PADOUT.      *)
MaskInterrupts ==
  /\ At("mask") /\ Goto("load")
  /\ ie' = FALSE
  /\ UNCHANGED <<PADDIR, PADOUT, IER, irq, enabled, value, PWM_global_en,
                 PWM_count, ghosts>>

Load ==
  /\ At("load") /\ place' = "store"
  /\ seen' = [seen EXCEPT !.out = PADOUT]
  /\ UNCHANGED <<PADDIR, PADOUT, IER, irq, enabled, value, PWM_global_en,
                 PWM_count, ie, sketch, call, ghosts>>

Store ==
  LET level == IF call.val = 0 THEN LOW ELSE HIGH
  IN /\ At("store") /\ Goto("unmask")
     /\ PADOUT' = [seen.out EXCEPT ![call.pin] = level]
     /\ written' = [written EXCEPT ![call.pin] = level]
     /\ UNCHANGED <<PADDIR, IER, irq, enabled, value, PWM_global_en, PWM_count,
                    ie, settled>>

Unmask ==
  /\ At("unmask") /\ Done
  /\ ie' = TRUE
  /\ UNCHANGED <<PADDIR, PADOUT, IER, irq, enabled, value, PWM_global_en,
                 PWM_count, ghosts>>

(* attachInterrupt: the function first, the pin's enable bit, then the     *)
(* handler's.                                                              *)
SetFunction ==
  /\ At("function") /\ Goto("inten")
  /\ intFunc' = [intFunc EXCEPT ![call.pin] = "write"]
  /\ UNCHANGED <<PADDIR, PADOUT, INTEN, INTSTATUS, IER, enabled, value,
                 PWM_global_en, PWM_count, ie, ghosts>>

EnableInput ==
  /\ At("inten") /\ Goto("handlers")
  /\ INTEN' = INTEN \cup {call.pin}
  /\ UNCHANGED <<PADDIR, PADOUT, INTSTATUS, intFunc, IER, enabled, value,
                 PWM_global_en, PWM_count, ie, ghosts>>

(* detachInterrupt                                                         *)
DisableInput ==
  /\ At("disable") /\ Goto("forget")
  /\ INTEN' = INTEN \ {call.pin}
  /\ UNCHANGED <<PADDIR, PADOUT, INTSTATUS, intFunc, IER, enabled, value,
                 PWM_global_en, PWM_count, ie, ghosts>>

ForgetFunction ==
  /\ At("forget") /\ Done
  /\ intFunc' = [intFunc EXCEPT ![call.pin] = "nothing"]
  /\ UNCHANGED <<PADDIR, PADOUT, INTEN, INTSTATUS, IER, enabled, value,
                 PWM_global_en, PWM_count, ie, ghosts>>

SketchStep ==
  \/ CallPin \/ SetDirection \/ TestEnabled \/ ClearEnabled \/ Enable
  \/ LoadCount \/ StoreCount \/ LoadIER \/ StoreIER \/ SetValue
  \/ MaskInterrupts \/ Load \/ Store \/ Unmask
  \/ SetFunction \/ EnableInput \/ DisableInput \/ ForgetFunction

-----------------------------------------------------------------------------
(* The handlers.                                                           *)

Edge ==
  \E p \in INTEN :
    /\ INTSTATUS' = INTSTATUS \cup {p}
    /\ UNCHANGED <<PADDIR, PADOUT, INTEN, intFunc, IER, enabled, value,
                   PWM_global_en, PWM_count, ie, flow, ghosts>>

(* digitalWrite in an interrupt function: nobody comes in between.         *)
WriteLed(level) ==
  LET on == Led \in enabled
      left == IF on THEN (PWM_global_en - 1) % CountMod ELSE PWM_global_en
  IN /\ enabled' = enabled \ {Led} /\ settled' = settled \ {Led}
     /\ PWM_global_en' = left
     /\ IER' = IF on /\ left = 0 THEN IER \ {"TimerB"} ELSE IER
     /\ PADOUT' = [PADOUT EXCEPT ![Led] = level]
     /\ written' = [written EXCEPT ![Led] = level]

(* ISR_GPIO: one pin is served, the highest.                               *)
ISR_GPIO ==
  /\ ie /\ "GPIO" \in IER /\ INTSTATUS # {}
  /\ INTSTATUS' = {}
  /\ \/ /\ intFunc[Max(INTSTATUS)] = "nothing"
        /\ UNCHANGED <<PADOUT, IER, enabled, PWM_global_en, ghosts>>
     \/ /\ intFunc[Max(INTSTATUS)] = "write"
        /\ \E level \in {LOW, HIGH} : WriteLed(level)
  /\ UNCHANGED <<PADDIR, INTEN, intFunc, value, PWM_count, ie, flow>>

(* Mutant: the pins at their value are lowered one count late.             *)
ISR_TB_CMP_Late ==
  /\ ie /\ "TimerB" \in IER
  /\ IF PWM_count = PWM_MAX_COUNT
     THEN /\ PADOUT' = [p \in Pin |-> IF p \in enabled THEN HIGH ELSE PADOUT[p]]
          /\ PWM_count' = 0 /\ settled' = enabled
     ELSE /\ PWM_count' = PWM_count + 1
          /\ PADOUT' = [p \in Pin |-> IF p \in enabled /\ value[p] = PWM_count'
                                      THEN LOW ELSE PADOUT[p]]
          /\ UNCHANGED settled
  /\ UNCHANGED <<PADDIR, irq, IER, enabled, value, PWM_global_en, ie, flow,
                 written>>

ISR_TB_CMP ==
  /\ ie /\ "TimerB" \in IER
  /\ IF PWM_count = PWM_MAX_COUNT
     THEN /\ PADOUT' = [p \in Pin |-> IF p \in enabled THEN HIGH ELSE PADOUT[p]]
          /\ PWM_count' = 0 /\ settled' = enabled
     ELSE /\ PADOUT' = [p \in Pin |-> IF p \in enabled /\ value[p] = PWM_count
                                      THEN LOW ELSE PADOUT[p]]
          /\ PWM_count' = PWM_count + 1 /\ UNCHANGED settled
  /\ UNCHANGED <<PADDIR, irq, IER, enabled, value, PWM_global_en, ie, flow,
                 written>>

PinsNext == SketchStep \/ Edge \/ ISR_GPIO \/ ISR_TB_CMP

PinsSpec == PinsInit /\ [][PinsNext]_pinVars

-----------------------------------------------------------------------------
(* A pin keeps the level that was written to it last, whoever wrote it and *)
(* whatever the other pins of the register do meanwhile (wiring_digital.c: *)
(* 85).                                                                    *)
LevelsKept == \A p \in Pin : written[p] # -1 => PADOUT[p] = written[p]

(* A pin under PWM is high from the start of the period up to its value    *)
(* and low from there on, once the value has stood for the start of a      *)
(* period: no write to another pin, and no interrupt function that takes   *)
(* pins out of the PWM, lengthens or shortens the pulse (wiring_analog.c:  *)
(* 66).                                                                    *)
PulseWidth == \A p \in settled : (PADOUT[p] = HIGH) <=> (PWM_count <= value[p])

(* The handler that makes the pulses is enabled as long as a pin is under  *)
(* PWM; only analogWrite is past the flag before it is there               *)
(* (wiring_analog.c:41, 56-58).                                            *)
Counting == {"count", "recount", "handlers", "rewrite"}

PwmOn == enabled # {} => "TimerB" \in IER \/ (Starting /\ place \in Counting)

(* turnOffPWM (wiring_digital.c:64-68) takes the handler away with the     *)
(* last pin under PWM and with no other, in a program that never puts the  *)
(* pin its interrupt function writes under PWM.                            *)
LedIsDigital == \A c \in sketch :
  c.op = "analogWrite" /\ c.val \notin {0, Full} => c.pin # Led

PwmServed == LedIsDigital => PwmOn
=============================================================================
