--------------------------- MODULE MCEmmcCommand ---------------------------
(* Finite instances of EmmcCommand for TLC.                                *)
EXTENDS EmmcCommand

(* One command of each callback, and of each way to form it.               *)
AllCommands == {"CMD0", "CMD3", "CMD7", "CMD8", "CMD10", "CMD13", "ACMD6",
                "CMD17", "CMD24", "ACMD51"}
=============================================================================
