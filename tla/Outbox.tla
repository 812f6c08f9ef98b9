------------------------------- MODULE Outbox -------------------------------
(***************************************************************************)
(* The WhatsApp outbox: the table whatsapp_outbox, the worker processes    *)
(* that drain it (worker/outbox-worker.ts) and the two server actions with *)
(* which the owner takes a message out of the queue or puts it back        *)
(* (admin/_actions/whatsapp.ts).                                           *)
(*                                                                         *)
(* A worker claims a batch in one UPDATE, then handles its jobs one by one *)
(* in memory: window check, provider call, settlement, email fallback. The *)
(* settlement and every write of an admin are keyed by the row id alone,   *)
(* so what a worker or an admin read earlier may be stale when it writes.  *)
(***************************************************************************)
EXTENDS Naturals, FiniteSets

CONSTANTS Jobs,            \* rows that may be inserted in whatsapp_outbox
          Alerts,          \* those of purpose internal_new_lead
          Texts,           \* those of kind text with requires_window
          Workers,         \* worker processes, a redeployed one included
          Admins,          \* concurrent requeue/cancel server actions
          NoJob,           \* "no current job"
          BatchSize,       \* BATCH_SIZE
          MaxAttempts,     \* whatsapp_outbox.max_attempts
          EmailConfigured, \* RESEND_API_KEY, EMAIL_FROM and a recipient set
          SlowBatches,     \* may a batch outlast LEASE_SECONDS?
          MaxMishaps,      \* bound: crashes, throws, lost answers, slow leases
          MaxRequeues      \* bound: requeues by an admin

ASSUME OutboxAssumption ==
  /\ Alerts \subseteq Jobs
  /\ Texts \subseteq Jobs
  /\ NoJob \notin Jobs
  /\ BatchSize \in Nat \ {0}
  /\ MaxAttempts \in Nat \ {0}
  /\ EmailConfigured \in BOOLEAN
  /\ SlowBatches \in BOOLEAN
  /\ MaxMishaps \in Nat
  /\ MaxRequeues \in Nat

VARIABLES
  status,    \* whatsapp_outbox.status, "absent" before the insert
  attempts,  \* whatsapp_outbox.attempt_count
  lease,     \* claimed_until: "none", "live" (future) or "lapsed" (past)
  due,       \* next_attempt_at <= now()
  batch,     \* per worker: attempt_count of the snapshot it holds, 0 if none
  stage,     \* per worker: "ready", or "settle"/"email" for its current job
  cur,       \* per worker: the job it is settling or emailing about
  result,    \* per worker: the provider's answer for that job
  intent     \* per admin: the write it decided on from what it read

(* What the code does not store and the properties speak of.               *)
VARIABLES
  delivered, \* times the message reached the recipient's phone
  untracked, \* deliveries whose settlement as sent was never committed
  lapses,    \* leases of the job that ran out
  contested, \* held jobs whose lease ran out, or requeued, in the holder's hands
  fallback,  \* fate of the email alert owed since the row was last parked
  mishaps, requeues

table   == <<status, attempts, lease, due>>
memory  == <<batch, stage, cur, result>>
history == <<delivered, untracked, lapses, contested, fallback>>
bounds  == <<mishaps, requeues>>
vars    == <<table, memory, intent, history, bounds>>

Queued  == {"pending", "failed_retryable"}
Parked  == {"dead", "blocked_window", "skipped"}
Status  == {"absent", "claimed", "sent"} \cup Queued \cup Parked
Results == {"sent", "retryable", "permanent", "needs_template", "skipped"}
NoIntent == [op |-> "none", job |-> NoJob]
Intents  == [op : {"requeue", "cancel"}, job : Jobs]

Init ==
  /\ status = [j \in Jobs |-> "absent"]
  /\ attempts = [j \in Jobs |-> 0]
  /\ lease = [j \in Jobs |-> "none"]
  /\ due = [j \in Jobs |-> FALSE]
  /\ batch = [w \in Workers |-> [j \in Jobs |-> 0]]
  /\ stage = [w \in Workers |-> "ready"]
  /\ cur = [w \in Workers |-> NoJob]
  /\ result = [w \in Workers |-> "none"]
  /\ intent = [a \in Admins |-> NoIntent]
  /\ delivered = [j \in Jobs |-> 0]
  /\ untracked = [j \in Jobs |-> 0]
  /\ lapses = [j \in Jobs |-> 0]
  /\ contested = {}
  /\ fallback = [j \in Jobs |-> "none"]
  /\ mishaps = 0
  /\ requeues = 0

Holds(w, j) == batch[w][j] > 0
Busy(w) == stage[w] # "ready" \/ \E j \in Jobs : Holds(w, j)
Mishap == mishaps < MaxMishaps /\ mishaps' = mishaps + 1

(* A held job that another worker may now claim is contested until nobody  *)
(* holds it any more.                                                      *)
Contest(j) ==
  contested' = contested \cup {i \in {j} : \E w \in Workers : Holds(w, i)}
Release == contested' = {j \in contested : \E w \in Workers : Holds(w, j)'}

-----------------------------------------------------------------------------
(* The insert of a lead alert (submitLead), of a manual text or of a       *)
(* template: the row starts with the column defaults, due at once.         *)
Enqueue(j) ==
  /\ status[j] = "absent"
  /\ status' = [status EXCEPT ![j] = "pending"]
  /\ due' = [due EXCEPT ![j] = TRUE]
  /\ UNCHANGED <<attempts, lease, memory, intent, history, bounds>>

(* claimBatch: a row qualifies when it is queued and due, or claimed under *)
(* a lease that ran out. SKIP LOCKED may leave out any row that another    *)
(* transaction has locked, hence any batch within the limit.               *)
(* Slips: forgetting to sweep leases that ran out; sweeping live ones too. *)
ClaimableWithoutSweep(j) == status[j] \in Queued /\ due[j]
ClaimableIgnoringLease(j) == \/ status[j] \in Queued /\ due[j]
                             \/ status[j] = "claimed"

Claimable(j) == \/ status[j] \in Queued /\ due[j]
                \/ status[j] = "claimed" /\ lease[j] = "lapsed"

(* The attempt is counted by the claim. Slip: not counting a re-claim.     *)
CountFirstClaim(j) == IF status[j] = "claimed" THEN attempts[j]
                                               ELSE attempts[j] + 1
Counted(j) == attempts[j] + 1

Claim(w) ==
  /\ ~Busy(w)
  /\ \E S \in SUBSET {j \in Jobs : Claimable(j)} :
       /\ S # {}
       /\ Cardinality(S) <= BatchSize
       /\ status' = [j \in Jobs |-> IF j \in S THEN "claimed" ELSE status[j]]
       /\ lease' = [j \in Jobs |-> IF j \in S THEN "live" ELSE lease[j]]
       /\ attempts' = [j \in Jobs |-> IF j \in S THEN Counted(j)
                                                 ELSE attempts[j]]
       /\ batch' = [batch EXCEPT ![w] =
                      [j \in Jobs |-> IF j \in S THEN Counted(j) ELSE 0]]
  /\ UNCHANGED <<due, stage, cur, result, intent, history, bounds>>

(* processJob, first branch: the recipient's window is shut, so the text   *)
(* is not sent. Whether it is shut is the customer's doing.                *)
WindowShut(w, j) ==
  /\ stage[w] = "ready" /\ Holds(w, j) /\ j \in Texts
  /\ stage' = [stage EXCEPT ![w] = "settle"]
  /\ cur' = [cur EXCEPT ![w] = j]
  /\ result' = [result EXCEPT ![w] = "needs_template"]
  /\ UNCHANGED <<table, batch, intent, history, bounds>>

(* processJob, the provider call and the row recordAttempt writes about it *)
(* (an append-only log the worker never reads). A message may reach the    *)
(* phone although the answer says otherwise: a timeout is "retryable", a   *)
(* 200 without an id is "permanent".                                       *)
Send(w, j, r) ==
  /\ stage[w] = "ready" /\ Holds(w, j)
  /\ stage' = [stage EXCEPT ![w] = "settle"]
  /\ cur' = [cur EXCEPT ![w] = j]
  /\ result' = [result EXCEPT ![w] = r]
  /\ \/ /\ r = "sent"
        /\ delivered' = [delivered EXCEPT ![j] = @ + 1]
        /\ UNCHANGED <<untracked, mishaps>>
     \/ /\ r # "sent"
        /\ UNCHANGED <<delivered, untracked, mishaps>>
     \/ /\ r \in {"retryable", "permanent"} /\ Mishap
        /\ delivered' = [delivered EXCEPT ![j] = @ + 1]
        /\ untracked' = [untracked EXCEPT ![j] = @ + 1]
  /\ UNCHANGED <<table, batch, intent, lapses, contested, fallback, requeues>>

(* settle, by the answer in hand. The row is found by id only, and whether *)
(* the attempts are exhausted is judged on the snapshot taken at the claim.*)
(* Slips: one attempt too many; the delivery log's "failed" as a status.   *)
OutcomeOneMore(r, attempt) ==
  CASE r = "sent" -> "sent"
    [] r = "skipped" -> "skipped"
    [] r = "needs_template" -> "blocked_window"
    [] r = "permanent" \/ (r = "retryable" /\ attempt > MaxAttempts) -> "dead"
    [] OTHER -> "failed_retryable"
OutcomeFailed(r, attempt) ==
  IF r = "retryable" /\ attempt < MaxAttempts THEN "failed"
  ELSE OutcomeOneMore(r, MaxAttempts + 1)

Outcome(r, attempt) ==
  CASE r = "sent" -> "sent"
    [] r = "skipped" -> "skipped"
    [] r = "needs_template" -> "blocked_window"
    [] r = "permanent" \/ (r = "retryable" /\ attempt >= MaxAttempts) -> "dead"
    [] OTHER -> "failed_retryable"

(* emailFallback returns at once unless the job is a lead alert and email  *)
(* is configured. Slip: a skipped send (no provider) counted as success.   *)
FallsBackUnlessSkipped(j, outcome) ==
  outcome \in {"dead", "blocked_window"} /\ j \in Alerts /\ EmailConfigured
FallsBack(j, outcome) == outcome \in Parked /\ j \in Alerts /\ EmailConfigured

Settle(w) ==
  LET j == cur[w]
      outcome == Outcome(result[w], batch[w][j])
  IN
  /\ stage[w] = "settle"
  /\ status' = [status EXCEPT ![j] = outcome]
  /\ lease' = [lease EXCEPT ![j] = "none"]
  /\ due' = [due EXCEPT ![j] = @ /\ outcome # "failed_retryable"]
  /\ batch' = [batch EXCEPT ![w][j] = 0]
  /\ result' = [result EXCEPT ![w] = "none"]
  /\ fallback' = [fallback EXCEPT ![j] = "none"]
  /\ \/ /\ FallsBack(j, outcome)
        /\ stage' = [stage EXCEPT ![w] = "email"]
        /\ UNCHANGED cur
     \/ /\ ~FallsBack(j, outcome)
        /\ stage' = [stage EXCEPT ![w] = "ready"]
        /\ cur' = [cur EXCEPT ![w] = NoJob]
  /\ Release
  /\ UNCHANGED <<attempts, intent, delivered, untracked, lapses, bounds>>

(* emailFallback, after the settlement committed: sent, or failed and      *)
(* reported; the query for the recipient, outside its try block, may throw *)
(* first. Nothing remembers that the email is still to be done.            *)
Email(w) ==
  /\ stage[w] = "email"
  /\ \/ /\ fallback' = [fallback EXCEPT ![cur[w]] = "sent"]
        /\ UNCHANGED mishaps
     \/ /\ \E fate \in {"failed", "dropped"} :
             fallback' = [fallback EXCEPT ![cur[w]] = fate]
        /\ Mishap
  /\ stage' = [stage EXCEPT ![w] = "ready"]
  /\ cur' = [cur EXCEPT ![w] = NoJob]
  /\ UNCHANGED <<table, batch, result, intent, delivered, untracked, lapses,
                 contested, requeues>>

(* A delivery in hand is forgotten when its worker does not settle it.     *)
Forget(w) ==
  untracked' = IF stage[w] = "settle" /\ result[w] = "sent"
               THEN [untracked EXCEPT ![cur[w]] = @ + 1] ELSE untracked

(* drainOnce catches what processJob throws and goes on with the batch,    *)
(* leaving the lease to expire.                                            *)
Throw(w, j) ==
  /\ Holds(w, j)
  /\ stage[w] = "ready" \/ (stage[w] = "settle" /\ cur[w] = j)
  /\ Mishap
  /\ Forget(w)
  /\ batch' = [batch EXCEPT ![w][j] = 0]
  /\ stage' = [stage EXCEPT ![w] = "ready"]
  /\ cur' = [cur EXCEPT ![w] = NoJob]
  /\ result' = [result EXCEPT ![w] = "none"]
  /\ Release
  /\ UNCHANGED <<table, intent, delivered, lapses, fallback, requeues>>

(* The process dies (or is replaced by a deploy) at any point.             *)
Crash(w) ==
  /\ Busy(w)
  /\ Mishap
  /\ Forget(w)
  /\ fallback' = IF stage[w] = "email"
                 THEN [fallback EXCEPT ![cur[w]] = "dropped"] ELSE fallback
  /\ batch' = [batch EXCEPT ![w] = [j \in Jobs |-> 0]]
  /\ stage' = [stage EXCEPT ![w] = "ready"]
  /\ cur' = [cur EXCEPT ![w] = NoJob]
  /\ result' = [result EXCEPT ![w] = "none"]
  /\ Release
  /\ UNCHANGED <<table, intent, delivered, lapses, requeues>>

(* Time: a backoff elapses; LEASE_SECONDS run out, under a live worker     *)
(* only if its batch may take longer than that.                            *)
BackoffElapses(j) ==
  /\ status[j] = "failed_retryable" /\ ~due[j]
  /\ due' = [due EXCEPT ![j] = TRUE]
  /\ UNCHANGED <<status, attempts, lease, memory, intent, history, bounds>>

LeaseLapses(j) ==
  /\ lease[j] = "live"
  /\ \/ (\A w \in Workers : ~Holds(w, j)) /\ UNCHANGED mishaps
     \/ SlowBatches /\ (\E w \in Workers : Holds(w, j)) /\ Mishap
  /\ lease' = [lease EXCEPT ![j] = "lapsed"]
  /\ lapses' = [lapses EXCEPT ![j] = @ + 1]
  /\ Contest(j)
  /\ UNCHANGED <<status, attempts, due, memory, intent, delivered, untracked,
                 fallback, requeues>>

-----------------------------------------------------------------------------
(* requeueOutboxMessage and cancelOutboxMessage read the status, decide,   *)
(* and write in a later transaction that does not look at it again.        *)
(* Slip: requeueing without looking at the status.                         *)
RequeueReadsUnchecked(a, j) ==
  /\ intent[a] = NoIntent
  /\ status[j] \notin {"absent"}
  /\ requeues < MaxRequeues
  /\ requeues' = requeues + 1
  /\ intent' = [intent EXCEPT ![a] = [op |-> "requeue", job |-> j]]
  /\ UNCHANGED <<table, memory, history, mishaps>>

RequeueReads(a, j) ==
  /\ intent[a] = NoIntent
  /\ status[j] \in {"dead", "blocked_window"}
  /\ requeues < MaxRequeues
  /\ requeues' = requeues + 1
  /\ intent' = [intent EXCEPT ![a] = [op |-> "requeue", job |-> j]]
  /\ UNCHANGED <<table, memory, history, mishaps>>

CancelReads(a, j) ==
  /\ intent[a] = NoIntent
  /\ status[j] \notin {"absent", "sent", "skipped", "claimed"}
  /\ intent' = [intent EXCEPT ![a] = [op |-> "cancel", job |-> j]]
  /\ UNCHANGED <<table, memory, history, bounds>>

RequeueWrites(a) ==
  LET j == intent[a].job IN
  /\ intent[a].op = "requeue"
  /\ intent' = [intent EXCEPT ![a] = NoIntent]
  /\ status' = [status EXCEPT ![j] = "pending"]
  /\ attempts' = [attempts EXCEPT ![j] = 0]
  /\ due' = [due EXCEPT ![j] = TRUE]
  /\ Contest(j)
  /\ UNCHANGED <<lease, memory, delivered, untracked, lapses, fallback, bounds>>

CancelWrites(a) ==
  LET j == intent[a].job IN
  /\ intent[a].op = "cancel"
  /\ intent' = [intent EXCEPT ![a] = NoIntent]
  /\ status' = [status EXCEPT ![j] = "skipped"]
  /\ fallback' = [fallback EXCEPT ![j] = "waived"]
  /\ UNCHANGED <<attempts, lease, due, memory, delivered, untracked, lapses,
                 contested, bounds>>

-----------------------------------------------------------------------------
Next ==
  \/ \E j \in Jobs : Enqueue(j) \/ BackoffElapses(j) \/ LeaseLapses(j)
  \/ \E w \in Workers : Claim(w) \/ Settle(w) \/ Email(w) \/ Crash(w)
  \/ \E w \in Workers, j \in Jobs : WindowShut(w, j) \/ Throw(w, j)
  \/ \E w \in Workers, j \in Jobs, r \in Results : Send(w, j, r)
  \/ \E a \in Admins, j \in Jobs : RequeueReads(a, j) \/ CancelReads(a, j)
  \/ \E a \in Admins : RequeueWrites(a) \/ CancelWrites(a)

Spec == Init /\ [][Next]_vars

(* The main loop polls for ever and awaits every job of a batch, time      *)
(* passes, and nothing obliges an admin to act.                            *)
WorkerStep(w) ==
  \/ Claim(w) \/ Settle(w) \/ Email(w)
  \/ \E j \in Jobs : WindowShut(w, j) \/ \E r \in Results : Send(w, j, r)

FairSpec ==
  /\ Spec
  /\ \A w \in Workers : WF_vars(WorkerStep(w))
  /\ \A j \in Jobs : WF_vars(BackoffElapses(j)) /\ WF_vars(LeaseLapses(j))
-----------------------------------------------------------------------------
(* The regime the lease is meant to guarantee: no batch outlasts its lease *)
(* and one person at a time requeues or cancels.                           *)
Exclusive == ~SlowBatches /\ \A a, b \in Admins : a = b

TypeOK ==
  /\ status \in [Jobs -> Status]
  /\ attempts \in [Jobs -> Nat]
  /\ lease \in [Jobs -> {"none", "live", "lapsed"}]
  /\ due \in [Jobs -> BOOLEAN]
  /\ batch \in [Workers -> [Jobs -> Nat]]
  /\ stage \in [Workers -> {"ready", "settle", "email"}]
  /\ cur \in [Workers -> Jobs \cup {NoJob}]
  /\ result \in [Workers -> Results \cup {"none"}]
  /\ intent \in [Admins -> Intents \cup {NoIntent}]
  /\ delivered \in [Jobs -> Nat]
  /\ untracked \in [Jobs -> Nat]
  /\ lapses \in [Jobs -> Nat]
  /\ contested \in SUBSET Jobs
  /\ fallback \in [Jobs -> {"none", "waived", "sent", "failed", "dropped"}]
  /\ mishaps \in Nat
  /\ requeues \in Nat

(* A customer receives a message a second time only when the system lost   *)
(* track of a delivery: an answer that did not arrive, or a worker that    *)
(* died before settling. Two live workers never both deliver it.           *)
DuplicatesExplained ==
  \A j \in Jobs : delivered[j] <= 1 + untracked[j]

(* "Each row goes to exactly one" worker: while a worker holds a job no    *)
(* other does, its lease is live and its snapshot is the row's current     *)
(* attempt, so settling by id alone overwrites nobody's work.              *)
OneHolder ==
  \A w \in Workers, j \in Jobs : Holds(w, j) =>
    /\ \A v \in Workers : Holds(v, j) => v = w
    /\ lease[j] = "live" /\ batch[w][j] = attempts[j]

(* max_attempts caps the attempts except for those a lost lease wasted: a  *)
(* row whose leases never ran out is tried max_attempts times at most.     *)
AttemptsAccounted ==
  \A j \in Jobs : attempts[j] <= MaxAttempts + lapses[j]

(* A lead alert the worker could not deliver over WhatsApp is never left   *)
(* to the CRM alone: whichever way it was parked, the email fallback was   *)
(* tried or a worker is about to try it (or died or threw in between).     *)
AlertBackstopped ==
  \A j \in Alerts :
    EmailConfigured /\ status[j] \in Parked /\ fallback[j] = "none"
      => \E w \in Workers : stage[w] = "email" /\ cur[w] = j

(* Claims of one job carry different attempt numbers, whatever the leases  *)
(* do: the number counted at the claim would fence a late settlement.      *)
DistinctClaims ==
  \A v, w \in Workers, j \in Jobs :
    v # w /\ Holds(v, j) /\ Holds(w, j) => batch[v][j] # batch[w][j]

(* No worker undoes the settlement of another: a sent row leaves that      *)
(* state only by an admin who decided before the message went out. This    *)
(* needs leases that hold; a batch that outlasts its own breaks it.        *)
StaleAdminWrites(j) ==
  \E a \in Admins : intent[a] # NoIntent /\ intent[a].job = j /\ intent'[a] = NoIntent

SentUndoneOnlyByStaleAdmin ==
  [][\A j \in Jobs : status[j] = "sent" /\ status'[j] # "sent" =>
       StaleAdminWrites(j)]_vars

(* Whatever the batches take (ten jobs of fifteen seconds outlast a lease  *)
(* of 120) and however many admins act: the late settlement by id alone is *)
(* the only other way. A worker writes over a sent row only if, since some *)
(* worker took the job, the lease ran out or a requeue went through in the *)
(* hands of a holder, and the job has been in somebody's hands ever since; *)
(* a crash, a throw, a cancel or a claim on time never leads there.        *)
SentUndoneOnlyIfContested ==
  [][\A j \in Jobs : status[j] = "sent" /\ status'[j] # "sent" =>
       StaleAdminWrites(j) \/ j \in contested]_vars

(* Whatever crashes or answers get in the way, a queued message is in the  *)
(* end sent or parked for a human: nothing stays in the queue for ever.    *)
EveryMessageSettles ==
  \A j \in Jobs : (status[j] \in Queued \cup {"claimed"})
                  ~> (status[j] \in {"sent"} \cup Parked)

(* A queued lead alert reaches someone: it is delivered, or its email is   *)
(* tried, or an admin takes it out, or the worker died or threw just       *)
(* before the email.                                                       *)
AlertSurfaces ==
  \A j \in Alerts : (EmailConfigured /\ status[j] = "pending")
                   ~> (status[j] = "sent" \/ fallback[j] # "none")
(* "A message that crashes the worker would otherwise be retried forever"  *)
(* (worker/outbox-worker.ts:74): counting at the claim caps the attempts.  *)
(* No code compares the count before a claim, so it does not.              *)
AttemptsCapped == \A j \in Jobs : attempts[j] <= MaxAttempts

(* "`sent` is refused outright" (admin/_actions/whatsapp.ts:227): a sent   *)
(* row is the proof of what was sent and keeps that status.                *)
SentIsFinal == [][\A j \in Jobs : status[j] = "sent" => status'[j] = "sent"]_vars

(* "When WhatsApp is blocked or `dead`, an email alert fires instead"      *)
(* (docs/architecture.md:187): the email of a parked alert is tried, or in *)
(* progress, or an admin took the row out.                                 *)
AlertNeverDropped ==
  \A j \in Alerts : EmailConfigured /\ status[j] \in Parked =>
    \/ fallback[j] \in {"sent", "failed", "waived"}
    \/ \E w \in Workers : stage[w] = "email" /\ cur[w] = j

(* The table, the leases and the workers' memory implement a queue that    *)
(* hands each message to one worker at a time.                             *)
QueuePhase(j) ==
  IF status[j] = "absent" THEN "absent"
  ELSE IF status[j] = "claimed" \/ \E w \in Workers : Holds(w, j) THEN "out"
  ELSE IF status[j] \in Queued THEN "queued" ELSE "done"

Queue == INSTANCE WorkQueue WITH
           Items <- Jobs, Takers <- Workers,
           phase <- [j \in Jobs |-> QueuePhase(j)],
           takers <- [j \in Jobs |-> {w \in Workers : Holds(w, j)}]

ImplementsWorkQueue == Queue!Spec
=============================================================================
