------------------------------ MODULE LeadForm ------------------------------
(***************************************************************************)
(* The enquiry form between a visitor's browser and the CRM                *)
(* (features/leads/lead-dialog.tsx, lead-dialog-context.tsx, actions.ts,   *)
(* dwell-token.ts, schema.ts, lib/rate-limit.ts).                          *)
(*                                                                         *)
(* The transaction of submitLead is one step here; Crm takes it apart.     *)
(* Visitors share one network address and have a phone number each. What   *)
(* they ask for is a wish; "blank" is what the schema refuses.             *)
(***************************************************************************)
EXTENDS Naturals, Functions

CONSTANTS Visitors, Wishes,
          Limit,      \* RATE_LIMIT_PER_HOUR
          Keys,       \* bound: dialogs opened, each with a key of its own
          MaxCalls    \* bound: submissions sent

Address == "address"

ASSUME LeadFormAssumption == /\ Limit \in Nat \ {0} /\ MaxCalls \in Nat
                             /\ "blank" \notin Wishes /\ "none" \notin Keys
                             /\ Address \notin Visitors

VARIABLES
  panel,   \* what the dialog shows; "closed" when it is not there
  key,     \* idempotencyKeyRef, of a dialog that is open
  token,   \* dwellTokenRef: not there or too "fresh", then "ripe", then "old"
  calls,   \* submissions under way, by number
  leads,   \* what was stored, by idempotency key
  used     \* rate_limits of this window: the address, and each phone

VARIABLES  \* bounds and history
  minted, sent,
  thanked,  \* submissions answered by a thank-you the visitor saw
  unheard,  \* keys of which an answer never reached the form
  passed    \* submissions the limiter counted and let through in this window

browser == <<panel, key, token>>
formVars == <<browser, calls, leads, used, minted, sent, thanked, unheard, passed>>

FormInit ==
  /\ panel = [v \in Visitors |-> "closed"] /\ key = [v \in Visitors |-> "none"]
  /\ token = [v \in Visitors |-> "fresh"]
  /\ calls = << >> /\ leads = << >>
  /\ used = [k \in Visitors \union {Address} |-> 0]
  /\ minted = {} /\ sent = 0 /\ thanked = {} /\ unheard = {} /\ passed = 0

(* A call: whose, under which key, with which wish and token; where it is; *)
(* and whether the form still waits for it.                                *)
Pending(v) ==
  \E n \in DOMAIN calls : calls[n].by = v /\ calls[n].key = key[v] /\ calls[n].heard
Put(n, c) == calls' = [calls EXCEPT ![n] = c]
Done(n) == calls' = Restrict(calls, (DOMAIN calls) \ {n})

(* A function with one more argument, unless it has it.                    *)
With(f, k, x) == [y \in (DOMAIN f) \union {k} |-> IF y \in DOMAIN f THEN f[y] ELSE x]
-----------------------------------------------------------------------------
(* The panel mounts: a new key, and a token asked for of the server.       *)
Open(v) ==
  /\ panel[v] = "closed"
  /\ \E k \in Keys \ minted :
       /\ key' = [key EXCEPT ![v] = k] /\ minted' = minted \union {k}
  /\ panel' = [panel EXCEPT ![v] = "form"]
  /\ token' = [token EXCEPT ![v] = "fresh"]
  /\ UNCHANGED <<calls, leads, used, sent, thanked, unheard, passed>>

(* startLeadForm has answered, or never does, and MIN_DWELL_MS has gone    *)
(* by; then MAX_DWELL_MS does.                                             *)
TokenAges(v) ==
  /\ panel[v] \notin {"closed", "thanks"} /\ token[v] # "old"
  /\ token' = [token EXCEPT ![v] = IF @ = "fresh" THEN "ripe" ELSE "old"]
  /\ UNCHANGED <<panel, key, calls, leads, used, minted, sent, thanked, unheard, passed>>

(* Closing unmounts the panel; a call under way is on its own.             *)
Close(v) ==
  /\ panel[v] # "closed"
  /\ panel' = [panel EXCEPT ![v] = "closed"]
  /\ calls' = [n \in DOMAIN calls |->
                IF calls[n].by = v THEN [calls[n] EXCEPT !.heard = FALSE] ELSE calls[n]]
  /\ unheard' = unheard \union {k \in {key[v]} : Pending(v)}
  /\ key' = [key EXCEPT ![v] = "none"] /\ token' = [token EXCEPT ![v] = "fresh"]
  /\ UNCHANGED <<leads, used, minted, sent, thanked, passed>>

(* onSubmit, with what the visitor has entered by then, unless one is      *)
(* pending.                                                                *)
Submit(v, w) ==
  /\ panel[v] \notin {"closed", "thanks"} /\ ~Pending(v) /\ sent < MaxCalls
  /\ sent' = sent + 1
  /\ calls' = With(calls, sent + 1,
                   [by |-> v, key |-> key[v], wish |-> w, timely |-> token[v] = "ripe",
                    at |-> "arriving", heard |-> TRUE])
  /\ UNCHANGED <<browser, leads, used, minted, thanked, unheard, passed>>
-----------------------------------------------------------------------------
(* submitLead: bots get a thank-you; then the schema; then the limiter,    *)
(* address before phone, which counts what it refuses and lets pass what   *)
(* it cannot count. Slips: time measured by a clock that runs fast; one    *)
(* more than allowed.                                                      *)
TrustedByFastClock(c) == FALSE
Trusted(c) == c.timely
OneTooMany(n) == n > Limit + 1
Exceeds(n) == n > Limit

Answered(n, a) == Put(n, [calls[n] EXCEPT !.at = a])
Arriving(n) == calls[n].at = "arriving"
Unlimited == UNCHANGED <<used, passed>>

Filter(n) ==
  /\ Arriving(n)
  /\ \/ ~Trusted(calls[n]) /\ Answered(n, "thanks")
     \/ Trusted(calls[n]) /\ calls[n].wish = "blank" /\ Answered(n, "invalid")
  /\ Unlimited
  /\ UNCHANGED <<browser, leads, minted, sent, thanked, unheard>>

Genuine(n) == Arriving(n) /\ Trusted(calls[n]) /\ calls[n].wish # "blank"

Admit(n) ==
  LET v == calls[n].by
      byAddress == used[Address] + 1
      byPhone == used[v] + 1
  IN
  /\ Genuine(n)
  /\ used' = IF Exceeds(byAddress) THEN [used EXCEPT ![Address] = byAddress]
             ELSE [used EXCEPT ![Address] = byAddress, ![v] = byPhone]
  /\ IF Exceeds(byAddress) \/ Exceeds(byPhone)
     THEN Answered(n, "limited") /\ UNCHANGED passed
     ELSE Answered(n, "admitted") /\ passed' = passed + 1
  /\ UNCHANGED <<browser, leads, minted, sent, thanked, unheard>>

LimiterFails(n) ==
  /\ Genuine(n)
  /\ Answered(n, "admitted")
  /\ UNCHANGED <<browser, leads, used, minted, sent, thanked, unheard, passed>>

(* The next window: a row of its own for every key.                        *)
WindowEnds ==
  /\ passed > 0 \/ \E k \in DOMAIN used : used[k] > 0
  /\ used' = [k \in DOMAIN used |-> 0] /\ passed' = 0
  /\ UNCHANGED <<browser, calls, leads, minted, sent, thanked, unheard>>

(* The gate: the first of a key is stored, the others answered with it.    *)
(* Slip: the last one is.                                                  *)
KeepsLast(c) == [With(leads, c.key, c.wish) EXCEPT ![c.key] = c.wish]
Keeps(c) == With(leads, c.key, c.wish)

StoreLead(n) ==
  /\ calls[n].at = "admitted"
  /\ leads' = Keeps(calls[n])
  /\ Answered(n, "thanks")
  /\ UNCHANGED <<browser, used, minted, sent, thanked, unheard, passed>>

(* The transaction throws; or it committed and what follows throws.        *)
(* Slip: the lead is stored outside the transaction.                       *)
HalfDone(c) == Keeps(c)
Undone(c) == leads

Fails(n) ==
  /\ calls[n].at = "admitted"
  /\ leads' = Undone(calls[n])
  /\ Answered(n, "generic")
  /\ UNCHANGED <<browser, used, minted, sent, thanked, unheard, passed>>

FailsAfterwards(n) ==
  /\ calls[n].at = "admitted"
  /\ leads' = Keeps(calls[n])
  /\ Answered(n, "generic") /\ unheard' = unheard \union {calls[n].key}
  /\ UNCHANGED <<browser, used, minted, sent, thanked, passed>>
-----------------------------------------------------------------------------
Answers == {"thanks", "invalid", "limited", "generic"}

Receive(n) ==
  LET c == calls[n] IN
  /\ c.at \in Answers
  /\ panel' = IF c.heard THEN [panel EXCEPT ![c.by] = c.at] ELSE panel
  /\ thanked' = IF c.heard /\ c.at = "thanks"
                THEN thanked \union {[key |-> c.key, wish |-> c.wish, timely |-> c.timely]}
                ELSE thanked
  /\ Done(n)
  /\ UNCHANGED <<key, token, leads, used, minted, sent, unheard, passed>>

(* The connection breaks: the form says so, the server may go on.          *)
Breaks(n) ==
  LET c == calls[n] IN
  /\ c.heard
  /\ panel' = [panel EXCEPT ![c.by] = "generic"]
  /\ unheard' = unheard \union {c.key}
  /\ \/ Put(n, [c EXCEPT !.heard = FALSE])
     \/ c.at = "arriving" /\ Done(n)
  /\ UNCHANGED <<key, token, leads, used, minted, sent, thanked, passed>>

FormNext ==
  \/ \E v \in Visitors :
       \/ Open(v) \/ TokenAges(v) \/ Close(v)
       \/ \E w \in Wishes \union {"blank"} : Submit(v, w)
  \/ \E n \in DOMAIN calls :
       \/ Filter(n) \/ Admit(n) \/ LimiterFails(n)
       \/ StoreLead(n) \/ Fails(n) \/ FailsAfterwards(n)
       \/ Receive(n) \/ Breaks(n)
  \/ WindowEnds

FormSpec == FormInit /\ [][FormNext]_formVars
-----------------------------------------------------------------------------
Call == [by : Visitors, key : Keys, wish : Wishes \union {"blank"},
         timely : BOOLEAN, at : {"arriving", "admitted"} \union Answers, heard : BOOLEAN]

(* Every variable keeps its type.                                          *)
FormTypeOK ==
  /\ panel \in [Visitors -> {"closed", "form"} \union Answers]
  /\ key \in [Visitors -> Keys \union {"none"}]
  /\ token \in [Visitors -> {"fresh", "ripe", "old"}]
  /\ DOMAIN calls \subseteq 1..sent /\ \A n \in DOMAIN calls : calls[n] \in Call
  /\ DOMAIN leads \subseteq Keys /\ \A k \in DOMAIN leads : leads[k] \in Wishes
  /\ used \in [Visitors \union {Address} -> Nat]
  /\ minted \subseteq Keys /\ sent \in 0..MaxCalls
  /\ thanked \subseteq [key : Keys, wish : Wishes \union {"blank"}, timely : BOOLEAN]
  /\ unheard \subseteq Keys /\ passed \in Nat

(* A visitor who is thanked has a lead with what they asked for, under     *)
(* every order of retries, unless the form had no fresh token (which looks *)
(* like a bot) or an earlier answer was lost and they changed their mind   *)
(* (the gate of submitLead answers with the first wording).                *)
ThanksMeansLead ==
  \A c \in thanked :
    c.timely => /\ c.key \in DOMAIN leads
                /\ leads[c.key] = c.wish \/ c.key \in unheard

(* A form that shows an error has stored nothing, so that filling it in    *)
(* again makes one lead, but where the answer of an earlier submission was *)
(* lost: only then may the limiter, which comes before the gate, turn away *)
(* the retry of an enquiry that is stored.                                 *)
ErrorMeansNoLead ==
  \A v \in Visitors :
    panel[v] \in {"invalid", "limited", "generic"} /\ ~Pending(v) =>
      key[v] \notin DOMAIN leads \/ key[v] \in unheard

(* No more submissions than allowed get past the limiter from one address  *)
(* in a window, but for those it fails on (RATE_LIMIT_PER_HOUR).           *)
LimitHolds == passed <= Limit

(* "so every enquiry lands in the CRM" (lead-dialog.tsx).                  *)
EveryEnquiryLands == \A c \in thanked : c.key \in DOMAIN leads
-----------------------------------------------------------------------------
(* Only what was sent with a fresh token counts as told: bots are thanked. *)
Promise == INSTANCE Intake WITH
  Forms <- Wishes,
  made <- [k \in Keys |-> {leads[j] : j \in {k} \intersect DOMAIN leads}],
  told <- {c.key : c \in {d \in thanked : d.timely}}

(* However often a form is sent, refused, answered in vain and sent again, *)
(* its key has one lead with the first wording, and nobody who waited long *)
(* enough is thanked before it is there (lead-dialog.tsx, submitLead).     *)
ImplementsIntake == Promise!Spec
=============================================================================
