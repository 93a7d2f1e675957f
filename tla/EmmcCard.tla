------------------------------ MODULE EmmcCard ------------------------------
(***************************************************************************)
(* The SD card at the other end of the command line, as emmc.c uses it:    *)
(* the current state a CMD13 reports (Card_state of emmc.h) and the        *)
(* commands it obeys in each.  The card is not in the repository.  It      *)
(* answers no command that is illegal in its state; a command or its       *)
(* answer may be lost on the way.                                          *)
(***************************************************************************)
EXTENDS Naturals

VARIABLE card   (* CURRENT_STATE of the card                               *)

CardState == {"idle", "ready", "ident", "stby", "tran", "data", "rcv",
              "prg", "dis"}
Addressed == {"stby", "tran", "data", "rcv", "prg", "dis"}

(* Command, state before it, state after it.                               *)
Obeys ==
       {<<"CMD0", s, "idle">> : s \in CardState}
  \union {<<"ACMD41", "idle", "ready">>, <<"CMD2", "ready", "ident">>,
          <<"CMD3", "ident", "stby">>, <<"CMD3", "stby", "stby">>,
          <<"CMD3", "idle", "stby">>,              (* an SDIO card *)
          <<"CMD9", "stby", "stby">>, <<"CMD7", "stby", "tran">>,
          <<"CMD7", "dis", "prg">>}
  \union {<<"CMD13", s, s>> : s \in Addressed}
  \union {<<"CMD55", s, s>> : s \in Addressed \union {"idle"}}
  \union {<<c, "idle", "idle">> : c \in {"CMD5", "CMD8", "ACMD41"}}
  \union {<<c, "tran", "tran">> : c \in {"CMD16", "CMD52", "ACMD6", "ACMD42"}}
  \union {<<c, "tran", "rcv">>  : c \in {"CMD24", "CMD25"}}
  \union {<<c, "tran", "data">> : c \in {"CMD17", "CMD18"}}
  \union {<<"CMD12", "data", "tran">>, <<"CMD12", "rcv", "prg">>,
          <<"UNADD_CMD7", "tran", "stby">>, <<"UNADD_CMD7", "data", "stby">>,
          <<"UNADD_CMD7", "prg", "dis">>}

Heard(c) == \E s \in CardState : <<c, card, s>> \in Obeys /\ card' = s
Lost     == UNCHANGED card

(* emmc_send_serial_command for a command without data, as its caller sees *)
(* it (CommandService): success means that the card obeyed, failure leaves *)
(* open whether it did.  Of a command without a response nothing tells.    *)
Exchange(c, result) ==
  \/ result = "OK"     /\ Heard(c)
  \/ result = "ERRCMD" /\ (Heard(c) \/ Lost)
Announce(c) == Heard(c) \/ Lost

(* The card finishes programming by itself.                                *)
Programmed ==
  \/ card = "prg" /\ card' = "tran"
  \/ card = "dis" /\ card' = "stby"
=============================================================================
