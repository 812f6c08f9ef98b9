------------------------------ MODULE Webhook ------------------------------
(***************************************************************************)
(* Meta's webhook: the POST handler of app/api/whatsapp/webhook/route.ts   *)
(* and applyEvent of lib/whatsapp/webhook.ts over the table                *)
(* whatsapp_webhook_events.                                                *)
(*                                                                         *)
(* A handler inserts the events of its envelope one by one, remembers in   *)
(* memory those that were new to the table, answers 200, and only then     *)
(* applies what it remembered. Meta delivers an envelope until it gets a   *)
(* 200, and sometimes again. Requests with a bad signature, no JSON or no  *)
(* events change nothing and are left out.                                 *)
(***************************************************************************)
EXTENDS Naturals, Sequences

CONSTANTS Messages,   \* inbound messages (event key msg:<wamid>)
          Statuses,   \* delivery reports (event key st:<wamid>:<status>)
          Notices,    \* template and quality updates
          Customers, Sender, At,  \* who wrote a message, and when
          Wamids, About, Report,  \* the sent message a report is about
          Envelopes,  \* the POSTs of Meta: sequences of events
          Handlers,   \* concurrent requests
          MaxMishaps, \* bound: database failures, crashes, lost answers
          MaxRepeats  \* bound: redeliveries Meta did not need to make

Events  == Messages \cup Statuses \cup Notices
Reports == {"sent", "delivered", "read", "failed"}

ASSUME WebhookAssumption ==
  /\ Messages \cap (Statuses \cup Notices) = {} /\ Statuses \cap Notices = {}
  /\ Sender \in [Messages -> Customers] /\ At \in [Messages -> Nat \ {0}]
  /\ About \in [Statuses -> Wamids] /\ Report \in [Statuses -> Reports]
  /\ Envelopes \subseteq Seq(Events) \ {<<>>}
  /\ MaxMishaps \in Nat /\ MaxRepeats \in Nat

VARIABLES
  row,       \* whatsapp_webhook_events: "none", "stored", "processed", "pruned"
  pc,        \* per handler: "idle", "storing" or (after the 200) "applying"
  env,       \* per handler: its envelope
  next,      \* per handler: position of the event to insert
  stored,    \* per handler: positions of the events it must still apply
  inbound,   \* contacts.last_inbound_at, 0 while there is no contact row
  thread,    \* inbound rows of whatsapp_messages (unique wamid)
  card,      \* "wa_in" lines on lead cards, per message
  timeline   \* status of an outbound whatsapp_messages row, or "absent"

VARIABLES
  meta,      \* per envelope: "owed", "acked", or "over" (no more redeliveries)
  orphans,   \* events whose handler was lost or failed before applying them
  mishaps, repeats

handlers == <<pc, env, next, stored>>
crm      == <<inbound, thread, card, timeline>>
vars     == <<row, handlers, crm, meta, orphans, mishaps, repeats>>

Init ==
  /\ row = [e \in Events |-> "none"]
  /\ pc = [h \in Handlers |-> "idle"]
  /\ env = [h \in Handlers |-> <<>>]
  /\ next = [h \in Handlers |-> 1]
  /\ stored = [h \in Handlers |-> {}]
  /\ inbound = [c \in Customers |-> 0]
  /\ thread = {}
  /\ card = [m \in Messages |-> 0]
  /\ timeline = [w \in Wamids |-> "absent"]
  /\ meta = [v \in Envelopes |-> "owed"]
  /\ orphans = {}
  /\ mishaps = 0
  /\ repeats = 0

Mishap == mishaps < MaxMishaps /\ mishaps' = mishaps + 1
InFlight(v) == \E h \in Handlers : pc[h] # "idle" /\ env[h] = v
EventsOf(v) == {v[i] : i \in DOMAIN v}

(* The handler returns: its request and what it remembered are gone.       *)
Return(h) ==
  /\ pc' = [pc EXCEPT ![h] = "idle"]
  /\ env' = [env EXCEPT ![h] = <<>>]
  /\ next' = [next EXCEPT ![h] = 1]
  /\ stored' = [stored EXCEPT ![h] = {}]

-----------------------------------------------------------------------------
(* Meta posts an envelope it has no 200 for, or repeats one.               *)
Deliver(h, v) ==
  /\ pc[h] = "idle"
  /\ \/ meta[v] = "owed" /\ ~InFlight(v) /\ UNCHANGED repeats
     \/ /\ meta[v] = "acked" \/ (meta[v] = "owed" /\ InFlight(v))
        /\ repeats < MaxRepeats /\ repeats' = repeats + 1
  /\ pc' = [pc EXCEPT ![h] = "storing"]
  /\ env' = [env EXCEPT ![h] = v]
  /\ UNCHANGED <<row, next, stored, crm, meta, orphans, mishaps>>

(* The insert, ON CONFLICT (event_key) DO NOTHING RETURNING id.            *)
(* Slip: applying whatever the envelope holds, new to the table or not.    *)
FreshAlways(e) == TRUE
Fresh(e) == row[e] \in {"none", "pruned"}

(* Slip: leaving at the first duplicate as if the whole POST were one.     *)
PositionAfterConflict(h) ==
  IF Fresh(env[h][next[h]]) THEN next[h] + 1 ELSE Len(env[h]) + 1
Following(h) == next[h] + 1

Store(h) ==
  LET e == env[h][next[h]] IN
  /\ pc[h] = "storing" /\ next[h] <= Len(env[h])
  /\ next' = [next EXCEPT ![h] = Following(h)]
  /\ \/ /\ Fresh(e)
        /\ row' = [row EXCEPT ![e] = "stored"]
        /\ stored' = [stored EXCEPT ![h] = @ \cup {next[h]}]
     \/ /\ ~Fresh(e)
        /\ UNCHANGED <<row, stored>>
  /\ UNCHANGED <<pc, env, crm, meta, orphans, mishaps, repeats>>

(* An insert throws, committed or not: 500, and Meta will retry. The rows  *)
(* this request did insert stay, and the retry will take them for done.    *)
Remembered(h) == {env[h][i] : i \in stored[h]}

StoreFails(h) ==
  LET e == env[h][next[h]] IN
  /\ pc[h] = "storing" /\ next[h] <= Len(env[h])
  /\ Mishap
  /\ \/ /\ Fresh(e)
        /\ row' = [row EXCEPT ![e] = "stored"]
        /\ orphans' = orphans \cup Remembered(h) \cup {e}
     \/ /\ orphans' = orphans \cup Remembered(h)
        /\ UNCHANGED row
  /\ Return(h)
  /\ UNCHANGED <<crm, meta, repeats>>

(* The 200, which Meta may fail to see, and after().                       *)
Answer(h) ==
  /\ pc[h] = "storing" /\ next[h] > Len(env[h])
  /\ \/ /\ meta' = [meta EXCEPT ![env[h]] = "acked"]
        /\ UNCHANGED mishaps
     \/ UNCHANGED meta /\ Mishap
  /\ \/ /\ stored[h] # {}
        /\ pc' = [pc EXCEPT ![h] = "applying"]
        /\ UNCHANGED <<env, next, stored>>
     \/ stored[h] = {} /\ Return(h)
  /\ UNCHANGED <<row, crm, orphans, repeats>>

(* What is left of the list after its first entry. Slip: an exception that *)
(* ends the whole loop.                                                    *)
NothingLeft(list, i) == {}
Left(list, i) == list \ {i}

Proceed(h, list) ==
  \/ /\ list # {}
     /\ stored' = [stored EXCEPT ![h] = list]
     /\ UNCHANGED <<pc, env, next>>
  \/ list = {} /\ Return(h)

First(h, i) ==
  pc[h] = "applying" /\ i \in stored[h] /\ \A k \in stored[h] : i <= k

(* applyEvent, a transaction for each kind. A message upserts its contact  *)
(* and adds a line to the newest lead, if there is one. A report updates   *)
(* the rows with its wamid, if the worker has recorded them yet.           *)
ApplyMessage(m) ==
  /\ inbound' = [inbound EXCEPT ![Sender[m]] = At[m]]
  /\ thread' = thread \cup {m}
  /\ \E openLead \in {0, 1} : card' = [card EXCEPT ![m] = @ + openLead]
  /\ UNCHANGED timeline

(* Slip: writing the event where its status belongs.                       *)
ApplyStatusAsEvent(s) ==
  /\ timeline' = [w \in Wamids |->
       IF w = About[s] /\ timeline[w] # "absent" THEN s ELSE timeline[w]]
  /\ UNCHANGED <<inbound, thread, card>>

ApplyStatus(s) ==
  /\ timeline' = [w \in Wamids |->
       IF w = About[s] /\ timeline[w] # "absent" THEN Report[s]
                                                 ELSE timeline[w]]
  /\ UNCHANGED <<inbound, thread, card>>

Apply(h, i) ==
  LET e == env[h][i] IN
  /\ First(h, i)
  /\ \/ e \in Messages /\ ApplyMessage(e)
     \/ e \in Statuses /\ ApplyStatus(e)
     \/ e \in Notices /\ UNCHANGED crm
  /\ row' = [row EXCEPT ![e] = "processed"]
  /\ Proceed(h, stored[h] \ {i})
  /\ UNCHANGED <<meta, orphans, mishaps, repeats>>

ApplyFails(h, i) ==
  /\ First(h, i)
  /\ Mishap
  /\ orphans' = orphans \cup {env[h][i]}
  /\ Proceed(h, Left(stored[h], i))
  /\ UNCHANGED <<row, crm, meta, repeats>>

(* The server dies or is redeployed under the request.                     *)
Crash(h) ==
  /\ pc[h] # "idle"
  /\ Mishap
  /\ orphans' = orphans \cup Remembered(h)
  /\ Return(h)
  /\ UNCHANGED <<row, crm, meta, repeats>>

-----------------------------------------------------------------------------
(* The outbox worker settles a send: the row the reports are about.        *)
RecordSent(w) ==
  /\ timeline[w] = "absent"
  /\ timeline' = [timeline EXCEPT ![w] = "sent"]
  /\ UNCHANGED <<row, handlers, inbound, thread, card, meta, orphans, mishaps,
                 repeats>>

(* Meta redelivers for seven days at most; runMaintenance deletes an event *)
(* after WEBHOOK_EVENT_RETENTION_DAYS = 90, if it is processed.            *)
Expire(v) ==
  /\ meta[v] = "acked" /\ ~InFlight(v)
  /\ meta' = [meta EXCEPT ![v] = "over"]
  /\ UNCHANGED <<row, handlers, crm, orphans, mishaps, repeats>>

(* Slip: pruning by age alone.                                             *)
PrunableByAge(e) ==
  \A v \in Envelopes : e \in EventsOf(v) => meta[v] = "over"
Prunable(e) ==
  /\ row[e] = "processed"
  /\ \A v \in Envelopes : e \in EventsOf(v) => meta[v] = "over"

Prune(e) ==
  /\ Prunable(e) /\ row[e] # "pruned"
  /\ row' = [row EXCEPT ![e] = "pruned"]
  /\ UNCHANGED <<handlers, crm, meta, orphans, mishaps, repeats>>

-----------------------------------------------------------------------------
Next ==
  \/ \E h \in Handlers, v \in Envelopes : Deliver(h, v)
  \/ \E h \in Handlers : Store(h) \/ StoreFails(h) \/ Answer(h) \/ Crash(h)
  \/ \E h \in Handlers : \E i \in stored[h] : Apply(h, i) \/ ApplyFails(h, i)
  \/ \E w \in Wamids : RecordSent(w)
  \/ \E v \in Envelopes : Expire(v)
  \/ \E e \in Events : Prune(e)

Spec == Init /\ [][Next]_vars

(* A request that is not killed runs to its end, and Meta delivers what it *)
(* has no 200 for ("Meta retries a non-200 for up to seven days").         *)
HandlerStep(h) ==
  \/ Store(h) \/ Answer(h)
  \/ \E i \in stored[h] : Apply(h, i)

FairSpec ==
  /\ Spec
  /\ \A h \in Handlers : WF_vars(HandlerStep(h))
  /\ \A v \in Envelopes : WF_vars(\E h \in Handlers :
                                    meta[v] = "owed" /\ Deliver(h, v))
-----------------------------------------------------------------------------
TypeOK ==
  /\ row \in [Events -> {"none", "stored", "processed", "pruned"}]
  /\ pc \in [Handlers -> {"idle", "storing", "applying"}]
  /\ env \in [Handlers -> Envelopes \cup {<<>>}]
  /\ next \in [Handlers -> Nat]
  /\ stored \in [Handlers -> SUBSET Nat]
  /\ inbound \in [Customers -> Nat]
  /\ thread \subseteq Messages
  /\ card \in [Messages -> Nat]
  /\ timeline \in [Wamids -> {"absent"} \cup Reports]
  /\ meta \in [Envelopes -> {"owed", "acked", "over"}]
  /\ orphans \subseteq Events
  /\ mishaps \in Nat
  /\ repeats \in Nat

(* However often Meta delivers a message, in whichever envelopes, and      *)
(* however its handlers interleave and die, its line is on the lead's card *)
(* once at most (lead_activities has no constraint that would refuse it).  *)
OnCardOnce ==
  \A m \in Messages : card[m] <= 1

(* "The 200 tells Meta we own this event, so it has to be durable before   *)
(* the response leaves": every event of an acknowledged envelope has its   *)
(* row, whichever request inserted it. It follows from ImplementsInbox.    *)
AcknowledgedIsDurable ==
  \A v \in Envelopes : meta[v] # "owed" => \A e \in EventsOf(v) : row[e] # "none"

(* A row without processed_at is work in exactly one place: one request    *)
(* will apply it, or a failure took that request away. "An unprocessed row *)
(* is work, not history" (runMaintenance): not even a lost one is pruned.  *)
Owners(e) == {h \in Handlers : e \in Remembered(h)}
UnprocessedIsOwned ==
  \A e \in Events :
    IF row[e] = "stored"
    THEN \/ e \in orphans /\ Owners(e) = {}
         \/ e \notin orphans /\ \E h \in Handlers : Owners(e) = {h}
    ELSE Owners(e) = {} /\ e \notin orphans

(* What Meta has to deliver is acknowledged in the end, and each of its    *)
(* events is applied, unless a failure hit the request that stored it.     *)
DeliverySettles ==
  \A v \in Envelopes :
    meta[v] = "owed" ~>
      /\ meta[v] # "owed"
      /\ \A e \in EventsOf(v) : row[e] \in {"processed", "pruned"} \/ e \in orphans

(* "Anything that fails here can be replayed from whatsapp_webhook_events" *)
(* (lib/whatsapp/webhook.ts:161), and on a database failure "a retry       *)
(* genuinely helps" (route.ts:29): no stored event stays unapplied.        *)
StoredIsApplied ==
  \A e \in Events : row[e] = "stored" ~> row[e] \in {"processed", "pruned"}
-----------------------------------------------------------------------------
(* What has become of an event. Pruning its row changes nothing: it stays  *)
(* done. An unapplied row that no request remembers is lost.               *)
Fate(e) == CASE row[e] = "none" -> "unknown"
             [] row[e] = "stored" -> IF e \in orphans THEN "lost" ELSE "kept"
             [] OTHER -> "done"

Mail == INSTANCE Inbox WITH
  Letters <- Messages, Posts <- Envelopes,
  Within <- [v \in Envelopes |-> EventsOf(v)],
  fate <- [e \in Events |-> Fate(e)], lines <- card,
  acked <- {v \in Envelopes : meta[v] # "owed"}

(* However requests interleave, fail and repeat, and whatever is pruned,   *)
(* the webhook is an inbox that takes each event in once, does it once and *)
(* acknowledges only what it holds (route.ts, applyEvent, runMaintenance). *)
ImplementsInbox == Mail!Spec
=============================================================================
