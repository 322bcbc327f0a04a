-------------------------------- MODULE WsHubMC --------------------------------
(***************************************************************************)
(* The instance of WsHub that TLC checks.                                  *)
(***************************************************************************)
EXTENDS WsHub

\* Everything but got, which no action reads. HubKeepsContract asks of a step only that
\* it appends to it the event that is taken from what is due, so states that differ in
\* nothing else allow the same steps and give the same answer.
View == <<rooms, joined, queue, closed, conn, reader, ask, writer, pub, published>>

===============================================================================
