------------------------------ MODULE EventInbox ------------------------------
(***************************************************************************)
(* What the billing inbox promises a provider and its operators: an event  *)
(* that has a record is not taken in again, it counts as processed only    *)
(* together with its effect, the provider is told of it only once it is on *)
(* record, and nothing but a settled record is ever forgotten.             *)
(* BillingWebhooks implements this with sessions, a unique index and rows  *)
(* that are read without locks.                                            *)
(***************************************************************************)
CONSTANTS
  Events,       \* the events of a provider
  Ignorable     \* those that concern no subscription

VARIABLES
  record,       \* the status on record of each event, "none" if there is none
  effects,      \* events that have had their effect on a subscription
  told,         \* events the provider has been told to stop sending
  forgotten     \* events whose record has been dropped

vars == <<record, effects, told, forgotten>>

\* What an event comes to once it has been dealt with.
Outcomes(e) == IF e \in Ignorable THEN {"ignored"} ELSE {"processed", "failed"}

Init ==
  /\ record = [e \in Events |-> "none"]
  /\ effects = {}
  /\ told = {}
  /\ forgotten = {}

\* The outcome and the effect appear in one step.
Settle(e) ==
  \E s \in Outcomes(e) :
    /\ record' = [record EXCEPT ![e] = s]
    /\ effects' = IF s = "processed" THEN effects \cup {e} ELSE effects
    /\ UNCHANGED <<told, forgotten>>

TakeIn(e) == record[e] = "none" /\ Settle(e)

\* An attempt that broke down leaves a record and no effect.
TakeNote(e) ==
  /\ record[e] = "none"
  /\ record' = [record EXCEPT ![e] = "received"]
  /\ UNCHANGED <<effects, told, forgotten>>

\* An operator has an event on record dealt with again.
TryAgain(e) == record[e] # "none" /\ Settle(e)

Tell(e) ==
  /\ record[e] # "none" \/ e \in forgotten
  /\ told' = told \cup {e}
  /\ UNCHANGED <<record, effects, forgotten>>

Forget(S) ==
  /\ \A e \in S : record[e] \in {"processed", "ignored"}
  /\ record' = [e \in Events |-> IF e \in S THEN "none" ELSE record[e]]
  /\ forgotten' = forgotten \cup S
  /\ UNCHANGED <<effects, told>>

Next ==
  \/ \E e \in Events : TakeIn(e) \/ TakeNote(e) \/ TryAgain(e) \/ Tell(e)
  \/ \E S \in SUBSET Events : Forget(S)

Spec == Init /\ [][Next]_vars

==============================================================================
