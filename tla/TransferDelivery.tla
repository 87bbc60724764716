-------------------------- MODULE TransferDelivery --------------------------
(***************************************************************************)
(* Transfer implements Delivery.                                           *)
(*                                                                         *)
(* A round is announced when the SIGINT handler has scanned the directory, *)
(* although Client_0 resets the semaphores before it writes the count.     *)
(* It is taken up when the server reads the count from FIFO1.              *)
(***************************************************************************)
EXTENDS Transfer

CountUnread ==
  \/ pc0 \in ResetPC \cup {"send"}
  \/ \E j \in DOMAIN fifo[Fifo1] : fifo[Fifo1][j].kind = "count"

D == INSTANCE Delivery WITH
       asked   <- IF CountUnread THEN n ELSE -1,
       n       <- filesCounter,
       phase   <- IF Listening THEN "idle"
                  ELSE IF spc = "finito" THEN "written" ELSE "serving",
       arrived <- {<<p.file, p.medium>> : p \in messages},
       output  <- {p \in Files \X Media : p[2] \in out[p[1]]},
       closed  <- Finitos

\* Every step of the program is a step of the abstract round, or changes
\* nothing of it: the server works on the announced number of files, a part
\* arrives once and only while its own round is served, the outputs hold the
\* four parts of every announced file, and no closing message is ever taken.
ImplementsDelivery == D!Spec
=============================================================================
