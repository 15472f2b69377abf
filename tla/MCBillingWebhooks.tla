--------------------------- MODULE MCBillingWebhooks ---------------------------
(***************************************************************************)
(* Instances of BillingWebhooks for TLC: events of one user.               *)
(***************************************************************************)
EXTENDS BillingWebhooks, TLC

CONSTANTS c1, sub1, sub2, started, unpaid, invoice, blank, keyless

\* "unpaid" names its user in the metadata only.
MCEventCustomer == [e \in Events |-> IF e = unpaid THEN "none" ELSE c1]

\* An invoice carries its own id where a subscription event has the subscription's;
\* "keyless" carries none.
MCEventSub ==
  [e \in Events |-> CASE e = invoice -> sub2 [] e = keyless -> NoSubId [] OTHER -> sub1]

MCEventStatus ==
  [e \in Events |-> CASE e = started -> "active"
                      [] e = unpaid -> "past_due"
                      [] OTHER -> "unknown"]

MCSymmetry == Permutations(Hooks) \cup Permutations(SubRows)

===============================================================================
