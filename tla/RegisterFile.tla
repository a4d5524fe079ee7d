---------------------------- MODULE RegisterFile ----------------------------
(***************************************************************************)
(* What the SPI link promises its user: registers on a card that change    *)
(* only as they are asked to, once for each request and before the next    *)
(* one; only a restart of the card clears them and may lose a request.     *)
(***************************************************************************)
EXTENDS Naturals, Sequences

CONSTANTS Registers, Cell, Request, Nothing,
          Overwrite(_, _)   \* a cell after the value of a request

VARIABLES mem, owed, shaken

fileVars == <<mem, owed, shaken>>

Cleared == [r \in Registers |-> <<0, 0, 0, 0>>]

FileInit == mem = Cleared /\ owed = Nothing /\ shaken = FALSE

(* The link may have come to rest since the card restarted.                 *)
Ask ==
  /\ owed = Nothing /\ owed' \in Request
  /\ shaken' \in {shaken, FALSE} /\ UNCHANGED mem

Perform ==
  /\ owed # Nothing /\ owed' = Nothing
  /\ mem' = IF owed.fun = 1
            THEN [mem EXCEPT ![owed.reg] = Overwrite(@, owed)] ELSE mem
  /\ UNCHANGED shaken

Lose == shaken /\ owed # Nothing /\ owed' = Nothing /\ UNCHANGED <<mem, shaken>>

Misread ==
  /\ shaken /\ owed' \in {owed, Nothing}
  /\ \A r \in Registers : mem'[r] \in Cell
  /\ UNCHANGED shaken

Clear == mem' = Cleared /\ shaken' = TRUE /\ UNCHANGED owed

FileNext == Ask \/ Perform \/ Lose \/ Misread \/ Clear

FileSpec == FileInit /\ [][FileNext]_fileVars
=============================================================================
