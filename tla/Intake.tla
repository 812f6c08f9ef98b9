------------------------------- MODULE Intake -------------------------------
(***************************************************************************)
(* What lead intake promises, without its transactions, limiters and lost  *)
(* answers ("a valid submission always produces exactly one CRM lead",     *)
(* submitLead in features/leads/actions.ts): each rendered form becomes    *)
(* one lead at most, whose wording stands; and who is told that an enquiry *)
(* was received is told the truth. Crm implements it statement by          *)
(* statement, LeadForm from the browser's side of the same action.         *)
(***************************************************************************)
CONSTANTS Keys,   \* idempotency keys, one per rendered form
          Forms   \* what may be sent under a key

VARIABLES made,   \* per key: what was sent, once it is a lead
          told    \* keys whose sender was told "received"

intakeVars == <<made, told>>

Init == made = [k \in Keys |-> {}] /\ told = {}

(* The first of a key makes the lead; its sender may never hear of it.     *)
Take(k, f) ==
  /\ made[k] = {}
  /\ made' = [made EXCEPT ![k] = {f}]
  /\ told' = told \/ told' = told \union {k}

(* An answer that arrives, to the first or to a repetition.                *)
Tell(k) ==
  /\ made[k] # {}
  /\ told' = told \union {k} /\ UNCHANGED made

Next == \E k \in Keys : Tell(k) \/ \E f \in Forms : Take(k, f)

Spec == Init /\ [][Next]_intakeVars
=============================================================================
