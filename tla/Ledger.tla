------------------------------- MODULE Ledger -------------------------------
(***************************************************************************)
(* What the server promises its players about their stock: whatever        *)
(* crashes, restarts, failed saves and concurrent sessions there are, an   *)
(* account's stock only grows, by whole gains, and no player is ever shown *)
(* more than there is.  Server implements it (LedgerSpec there).           *)
(***************************************************************************)
EXTENDS Naturals

CONSTANTS
  Uuids,
  NoStock,  \* the stock of an account that does not exist; no number
  Gain,     \* what one update of one session adds
  MaxGains  \* how many sessions one tick can serve

VARIABLES
  stock,  \* uuid -> what a restart would find
  shown   \* uuid -> the most that any client was sent

vars == <<stock, shown>>

Amount(id) == IF stock[id] = NoStock THEN 0 ELSE stock[id]

Init ==
  /\ stock = [id \in Uuids |-> NoStock]
  /\ shown = [id \in Uuids |-> 0]

(* A registration. *)
Open(id) ==
  /\ stock[id] = NoStock
  /\ stock' = [stock EXCEPT ![id] = 0]
  /\ UNCHANGED shown

(* A tick, or the part of it before the process died.  It may be the first  *)
(* to save an account whose registration was not saved.                     *)
Credit ==
  /\ \E gains \in [Uuids -> 0 .. MaxGains], opened \in SUBSET Uuids :
       stock' = [id \in Uuids |->
                   IF stock[id] = NoStock /\ id \notin opened THEN NoStock
                   ELSE Amount(id) + Gain * gains[id]]
  /\ UNCHANGED shown

(* A client is sent an amount, of now or of earlier. *)
Show(id) ==
  /\ stock[id] # NoStock
  /\ \E amount \in shown[id] + 1 .. stock[id] : shown' = [shown EXCEPT ![id] = amount]
  /\ UNCHANGED stock

Next == Credit \/ \E id \in Uuids : Open(id) \/ Show(id)

Spec == Init /\ [][Next]_vars
=============================================================================
