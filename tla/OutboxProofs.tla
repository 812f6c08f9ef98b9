---------------------------- MODULE OutboxProofs ----------------------------
(***************************************************************************)
(* Proofs about the outbox, for every set of jobs, workers and admins and  *)
(* every value of the bounds.                                              *)
(***************************************************************************)
EXTENDS Outbox, TLAPS

(* What the settlement writes is a status, and never "claimed".            *)
LEMMA OutcomeType ==
  ASSUME NEW r, NEW n
  PROVE  Outcome(r, n) \in {"sent", "failed_retryable"} \cup Parked
  BY DEF Outcome, Parked

(* An intention is about a job.                                            *)
LEMMA IntentJob ==
  ASSUME TypeOK, NEW a \in Admins, intent[a].op # "none"
  PROVE  intent[a] \in Intents /\ intent[a].job \in Jobs
  BY DEF TypeOK, Intents, NoIntent

(* Every action keeps the types.                                           *)
LEMMA TypeStep ==
  ASSUME TypeOK, [Next]_vars
  PROVE  TypeOK'
<1> USE OutboxAssumption DEF TypeOK, Contest, Release,
        table, memory, history, bounds
<1>1. ASSUME NEW j \in Jobs, Enqueue(j) PROVE TypeOK'
  BY <1>1 DEF Enqueue, Status, Queued
<1>2. ASSUME NEW j \in Jobs, BackoffElapses(j) PROVE TypeOK'
  BY <1>2 DEF BackoffElapses
<1>3. ASSUME NEW j \in Jobs, LeaseLapses(j) PROVE TypeOK'
  BY <1>3 DEF LeaseLapses, Mishap
<1>4. ASSUME NEW w \in Workers, Claim(w) PROVE TypeOK'
  BY <1>4 DEF Claim, Counted, Status
<1>5. ASSUME NEW w \in Workers, Settle(w) PROVE TypeOK'
  BY <1>5, OutcomeType DEF Settle, Status, Queued, Parked
<1>6. ASSUME NEW w \in Workers, Email(w) PROVE TypeOK'
  BY <1>6 DEF Email, Mishap
<1>7. ASSUME NEW w \in Workers, Crash(w) PROVE TypeOK'
  <2>1. untracked' \in [Jobs -> Nat]
    <3>1. CASE cur[w] \in Jobs
      BY <1>7, <3>1 DEF Crash, Forget
    <3>2. CASE cur[w] = NoJob
      BY <1>7, <3>2, \A j \in Jobs : j # NoJob DEF Crash, Forget
    <3> QED
      BY <3>1, <3>2
  <2>2. fallback' \in [Jobs -> {"none", "waived", "sent", "failed", "dropped"}]
    BY <1>7 DEF Crash
  <2>3. /\ batch' \in [Workers -> [Jobs -> Nat]]
        /\ stage' \in [Workers -> {"ready", "settle", "email"}]
        /\ cur' \in [Workers -> Jobs \cup {NoJob}]
        /\ result' \in [Workers -> Results \cup {"none"}]
        /\ mishaps' \in Nat
    BY <1>7 DEF Crash, Mishap
  <2> QED
    BY <1>7, <2>1, <2>2, <2>3 DEF Crash
<1>8. ASSUME NEW w \in Workers, NEW j \in Jobs, WindowShut(w, j)
      PROVE TypeOK'
  BY <1>8 DEF WindowShut, Results
<1>9. ASSUME NEW w \in Workers, NEW j \in Jobs, Throw(w, j) PROVE TypeOK'
  BY <1>9 DEF Throw, Forget, Mishap
<1>10. ASSUME NEW w \in Workers, NEW j \in Jobs, NEW r \in Results,
              Send(w, j, r)
       PROVE TypeOK'
  <2>1. /\ delivered' \in [Jobs -> Nat] /\ untracked' \in [Jobs -> Nat]
        /\ mishaps' \in Nat
    <3>1. CASE r = "sent" /\ delivered' = [delivered EXCEPT ![j] = @ + 1]
                         /\ UNCHANGED <<untracked, mishaps>>
      BY <3>1
    <3>2. CASE UNCHANGED <<delivered, untracked, mishaps>>
      BY <3>2
    <3>3. CASE /\ Mishap
               /\ delivered' = [delivered EXCEPT ![j] = @ + 1]
               /\ untracked' = [untracked EXCEPT ![j] = @ + 1]
      BY <3>3 DEF Mishap
    <3> QED
      BY <1>10, <3>1, <3>2, <3>3 DEF Send
  <2> QED
    BY <1>10, <2>1 DEF Send
<1>11. ASSUME NEW a \in Admins, NEW j \in Jobs, RequeueReads(a, j)
       PROVE TypeOK'
  BY <1>11 DEF RequeueReads, Intents
<1>12. ASSUME NEW a \in Admins, NEW j \in Jobs, CancelReads(a, j)
       PROVE TypeOK'
  BY <1>12 DEF CancelReads, Intents
<1>13. ASSUME NEW a \in Admins, RequeueWrites(a) PROVE TypeOK'
  <2>1. contested' \in SUBSET Jobs
    BY <1>13, IntentJob DEF RequeueWrites, NoIntent
  <2>2. status' \in [Jobs -> Status]
    BY <1>13 DEF RequeueWrites, Status, Queued
  <2> QED
    BY <1>13, <2>1, <2>2 DEF RequeueWrites
<1>14. ASSUME NEW a \in Admins, CancelWrites(a) PROVE TypeOK'
  BY <1>14 DEF CancelWrites, Status, Parked
<1>15. CASE UNCHANGED vars
  BY <1>15 DEF vars
<1> QED
  BY <1>1, <1>2, <1>3, <1>4, <1>5, <1>6, <1>7, <1>8, <1>9, <1>10, <1>11,
     <1>12, <1>13, <1>14, <1>15 DEF Next

(* Every column, every worker's memory and every ghost keeps its type.     *)
THEOREM TypeCorrect == Spec => []TypeOK
<1>1. Init => TypeOK
  BY OutboxAssumption DEF Init, TypeOK, Status, Queued, Parked
<1>2. TypeOK /\ [Next]_vars => TypeOK'
  BY TypeStep
<1> QED
  BY <1>1, <1>2, PTL DEF Spec

-----------------------------------------------------------------------------
(***************************************************************************)
(* The exclusive regime. OneHolder is not inductive: a requeue in flight   *)
(* could free a held row, and a settlement without a claim could free any. *)
(* HolderInv adds what the code's order of steps guarantees about both.    *)
(***************************************************************************)
HeldRowInv ==
  \A w \in Workers, j \in Jobs : Holds(w, j) =>
    /\ \A v \in Workers : Holds(v, j) => v = w
    /\ lease[j] = "live"
    /\ batch[w][j] = attempts[j]
    /\ status[j] \in {"claimed", "skipped"}

SettlingInv ==
  \A w \in Workers : stage[w] = "settle" =>
    /\ cur[w] \in Jobs /\ Holds(w, cur[w])
    /\ result[w] \in Results

RequeueInv ==
  \A a \in Admins : intent[a].op = "requeue" =>
    status[intent[a].job] \in {"dead", "blocked_window"}

HolderInv == HeldRowInv /\ SettlingInv /\ RequeueInv

(* A row that can be claimed again still has an attempt left, counting one *)
(* more for every lease that ran out.                                      *)
AttemptsInv ==
  \A j \in Jobs :
    /\ attempts[j] <= MaxAttempts + lapses[j]
    /\ \/ status[j] \in Queued \cup {"absent"}
       \/ status[j] = "claimed" /\ lease[j] = "lapsed"
       => attempts[j] < MaxAttempts + lapses[j]

(* A delivery the system still knows of is in the hands of the worker that *)
(* is about to settle it, or settled for good.                             *)
InFlight(j) ==
  \E w \in Workers : stage[w] = "settle" /\ cur[w] = j /\ result[w] = "sent"

DeliveryInv ==
  \A j \in Jobs :
    /\ delivered[j] <= 1 + untracked[j]
    /\ delivered[j] > untracked[j] =>
         \/ InFlight(j)
         \/ /\ status[j] \in {"sent", "skipped"}
            /\ \A w \in Workers : ~Holds(w, j)
(* No step lets a second worker hold a job or puts a held row in the queue.*)
LEMMA HolderStep ==
  ASSUME Exclusive, TypeOK, HolderInv, [Next]_vars
  PROVE  HolderInv'
<1> USE OutboxAssumption DEF Exclusive, TypeOK, HolderInv, HeldRowInv,
        SettlingInv, RequeueInv, Holds, NoIntent, table, memory, history, bounds
<1>1. ASSUME NEW j \in Jobs, Enqueue(j)
      PROVE  HolderInv'
  <2>1. HeldRowInv'
    BY <1>1 DEF Enqueue
  <2>2. SettlingInv'
    BY <1>1 DEF Enqueue
  <2>3. RequeueInv'
    BY <1>1 DEF Enqueue
  <2> QED
    BY <2>1, <2>2, <2>3 DEF HolderInv
<1>2. ASSUME NEW j \in Jobs, BackoffElapses(j)
      PROVE  HolderInv'
  <2>1. HeldRowInv'
    BY <1>2 DEF BackoffElapses
  <2>2. SettlingInv'
    BY <1>2 DEF BackoffElapses
  <2>3. RequeueInv'
    BY <1>2 DEF BackoffElapses
  <2> QED
    BY <2>1, <2>2, <2>3 DEF HolderInv
<1>3. ASSUME NEW j \in Jobs, LeaseLapses(j)
      PROVE  HolderInv'
  <2>1. HeldRowInv'
    BY <1>3 DEF LeaseLapses
  <2>2. SettlingInv'
    BY <1>3 DEF LeaseLapses
  <2>3. RequeueInv'
    BY <1>3 DEF LeaseLapses
  <2> QED
    BY <2>1, <2>2, <2>3 DEF HolderInv
<1>4. ASSUME NEW w \in Workers, Claim(w)
      PROVE  HolderInv'
  <2> PICK S \in SUBSET {j \in Jobs : Claimable(j)} :
        /\ S # {}
        /\ Cardinality(S) <= BatchSize
        /\ status' = [j \in Jobs |-> IF j \in S THEN "claimed" ELSE status[j]]
        /\ lease' = [j \in Jobs |-> IF j \in S THEN "live" ELSE lease[j]]
        /\ attempts' = [j \in Jobs |-> IF j \in S THEN Counted(j)
                                                  ELSE attempts[j]]
        /\ batch' = [batch EXCEPT ![w] =
                       [j \in Jobs |-> IF j \in S THEN Counted(j) ELSE 0]]
    BY <1>4 DEF Claim
  <2>1. HeldRowInv'
    <3>1. \A j \in S, v \in Workers : ~Holds(v, j)
      BY DEF Claimable, Queued
    <3>2. ~Busy(w) /\ \A j \in Jobs : ~Holds(w, j)
      BY <1>4 DEF Claim, Busy
    <3>3. ASSUME NEW v \in Workers, NEW j \in Jobs, Holds(v, j)'
          PROVE  \/ v = w /\ j \in S
                 \/ v # w /\ j \notin S /\ Holds(v, j)
      BY <3>1, <3>2, <3>3
    <3> QED
      BY <3>1, <3>3 DEF Counted
  <2>2. SettlingInv'
    BY <1>4 DEF Claim, Busy
  <2>3. RequeueInv'
    BY <1>4, IntentJob DEF Claim, Claimable, Queued
  <2> QED
    BY <2>1, <2>2, <2>3 DEF HolderInv
<1>5. ASSUME NEW w \in Workers, Settle(w)
      PROVE  HolderInv'
  <2>1. HeldRowInv'
    BY <1>5 DEF Settle
  <2>2. SettlingInv'
    BY <1>5 DEF Settle
  <2>3. RequeueInv'
    <3>1. status[cur[w]] \in {"claimed", "skipped"}
      BY <1>5 DEF Settle
    <3> QED
      BY <1>5, <3>1, IntentJob DEF Settle
  <2> QED
    BY <2>1, <2>2, <2>3 DEF HolderInv
<1>6. ASSUME NEW w \in Workers, Email(w)
      PROVE  HolderInv'
  <2>1. HeldRowInv'
    BY <1>6 DEF Email
  <2>2. SettlingInv'
    BY <1>6 DEF Email
  <2>3. RequeueInv'
    BY <1>6 DEF Email
  <2> QED
    BY <2>1, <2>2, <2>3 DEF HolderInv
<1>7. ASSUME NEW w \in Workers, Crash(w)
      PROVE  HolderInv'
  <2>1. HeldRowInv'
    BY <1>7 DEF Crash
  <2>2. SettlingInv'
    BY <1>7 DEF Crash
  <2>3. RequeueInv'
    BY <1>7 DEF Crash
  <2> QED
    BY <2>1, <2>2, <2>3 DEF HolderInv
<1>8. ASSUME NEW w \in Workers, NEW j \in Jobs, WindowShut(w, j)
      PROVE  HolderInv'
  <2>1. HeldRowInv'
    BY <1>8 DEF WindowShut, Results
  <2>2. SettlingInv'
    BY <1>8 DEF WindowShut, Results
  <2>3. RequeueInv'
    BY <1>8 DEF WindowShut, Results
  <2> QED
    BY <2>1, <2>2, <2>3 DEF HolderInv
<1>9. ASSUME NEW w \in Workers, NEW j \in Jobs, Throw(w, j)
      PROVE  HolderInv'
  <2>1. HeldRowInv'
    BY <1>9 DEF Throw
  <2>2. SettlingInv'
    BY <1>9 DEF Throw
  <2>3. RequeueInv'
    BY <1>9 DEF Throw
  <2> QED
    BY <2>1, <2>2, <2>3 DEF HolderInv
<1>10. ASSUME NEW w \in Workers, NEW j \in Jobs, NEW r \in Results, Send(w, j, r)
      PROVE  HolderInv'
  <2>1. HeldRowInv'
    BY <1>10 DEF Send
  <2>2. SettlingInv'
    BY <1>10 DEF Send
  <2>3. RequeueInv'
    BY <1>10 DEF Send
  <2> QED
    BY <2>1, <2>2, <2>3 DEF HolderInv
<1>11. ASSUME NEW a \in Admins, NEW j \in Jobs, RequeueReads(a, j)
      PROVE  HolderInv'
  <2>1. HeldRowInv'
    BY <1>11 DEF RequeueReads
  <2>2. SettlingInv'
    BY <1>11 DEF RequeueReads
  <2>3. RequeueInv'
    BY <1>11 DEF RequeueReads
  <2> QED
    BY <2>1, <2>2, <2>3 DEF HolderInv
<1>12. ASSUME NEW a \in Admins, NEW j \in Jobs, CancelReads(a, j)
      PROVE  HolderInv'
  <2>1. HeldRowInv'
    BY <1>12 DEF CancelReads
  <2>2. SettlingInv'
    BY <1>12 DEF CancelReads
  <2>3. RequeueInv'
    BY <1>12 DEF CancelReads
  <2> QED
    BY <2>1, <2>2, <2>3 DEF HolderInv
<1>13. ASSUME NEW a \in Admins, RequeueWrites(a)
      PROVE  HolderInv'
  <2>1. HeldRowInv'
    <3>1. \A v \in Workers : ~Holds(v, intent[a].job)
      BY <1>13, IntentJob DEF RequeueWrites
    <3> QED
      BY <1>13, <3>1, IntentJob DEF RequeueWrites
  <2>2. SettlingInv'
    BY <1>13 DEF RequeueWrites
  <2>3. RequeueInv'
    BY <1>13 DEF RequeueWrites
  <2> QED
    BY <2>1, <2>2, <2>3 DEF HolderInv
<1>14. ASSUME NEW a \in Admins, CancelWrites(a)
      PROVE  HolderInv'
  <2>1. HeldRowInv'
    BY <1>14 DEF CancelWrites
  <2>2. SettlingInv'
    BY <1>14 DEF CancelWrites
  <2>3. RequeueInv'
    BY <1>14 DEF CancelWrites
  <2> QED
    BY <2>1, <2>2, <2>3 DEF HolderInv
<1>15. CASE UNCHANGED vars
  BY <1>15 DEF vars
<1> QED
  BY <1>1, <1>2, <1>3, <1>4, <1>5, <1>6, <1>7,
     <1>8, <1>9, <1>10, <1>11, <1>12, <1>13, <1>14, <1>15 DEF Next

(* No step leaves a claimable row without an attempt to spend.             *)
LEMMA AttemptsStep ==
  ASSUME Exclusive, TypeOK, HolderInv, AttemptsInv, [Next]_vars
  PROVE  AttemptsInv'
<1> USE OutboxAssumption DEF TypeOK, HolderInv, HeldRowInv, SettlingInv, RequeueInv,
        AttemptsInv, Queued, NoIntent, table, memory, history, bounds
<1>1. ASSUME NEW j \in Jobs, Enqueue(j)
      PROVE  AttemptsInv'
  BY <1>1 DEF Enqueue
<1>2. ASSUME NEW j \in Jobs, BackoffElapses(j)
      PROVE  AttemptsInv'
  BY <1>2 DEF BackoffElapses
<1>3. ASSUME NEW j \in Jobs, LeaseLapses(j)
      PROVE  AttemptsInv'
  BY <1>3 DEF LeaseLapses
<1>4. ASSUME NEW w \in Workers, Claim(w)
      PROVE  AttemptsInv'
  BY <1>4 DEF Claim, Claimable, Counted
<1>5. ASSUME NEW w \in Workers, Settle(w)
      PROVE  AttemptsInv'
  <2> DEFINE j == cur[w]
             outcome == Outcome(result[w], batch[w][j])
  <2>1. j \in Jobs /\ batch[w][j] = attempts[j] /\ status' = [status EXCEPT ![j] = outcome]
    BY <1>5 DEF Settle, Holds
  <2>2. outcome # "claimed" /\ outcome # "absent" /\ outcome # "pending"
    <3> HIDE DEF outcome
    <3>1. outcome \in {"sent", "failed_retryable"} \cup Parked
      BY OutcomeType DEF outcome
    <3> QED
      BY <3>1 DEF Parked
  <2>3. outcome = "failed_retryable" => attempts[j] < MaxAttempts
    <3>1. result[w] \in Results /\ attempts[j] \in Nat
      BY <1>5, <2>1 DEF Settle
    <3>2. outcome = "failed_retryable" => ~(batch[w][j] >= MaxAttempts)
      BY <3>1 DEF Outcome, Results
    <3> QED
      BY <2>1, <3>1, <3>2
  <2> QED
    BY <1>5, <2>1, <2>2, <2>3 DEF Settle
<1>6. ASSUME NEW w \in Workers, Email(w)
      PROVE  AttemptsInv'
  BY <1>6 DEF Email
<1>7. ASSUME NEW w \in Workers, Crash(w)
      PROVE  AttemptsInv'
  BY <1>7 DEF Crash
<1>8. ASSUME NEW w \in Workers, NEW j \in Jobs, WindowShut(w, j)
      PROVE  AttemptsInv'
  BY <1>8 DEF WindowShut
<1>9. ASSUME NEW w \in Workers, NEW j \in Jobs, Throw(w, j)
      PROVE  AttemptsInv'
  BY <1>9 DEF Throw
<1>10. ASSUME NEW w \in Workers, NEW j \in Jobs, NEW r \in Results, Send(w, j, r)
      PROVE  AttemptsInv'
  BY <1>10 DEF Send
<1>11. ASSUME NEW a \in Admins, NEW j \in Jobs, RequeueReads(a, j)
      PROVE  AttemptsInv'
  BY <1>11 DEF RequeueReads
<1>12. ASSUME NEW a \in Admins, NEW j \in Jobs, CancelReads(a, j)
      PROVE  AttemptsInv'
  BY <1>12 DEF CancelReads
<1>13. ASSUME NEW a \in Admins, RequeueWrites(a)
      PROVE  AttemptsInv'
  BY <1>13, IntentJob DEF RequeueWrites
<1>14. ASSUME NEW a \in Admins, CancelWrites(a)
      PROVE  AttemptsInv'
  BY <1>14, IntentJob DEF CancelWrites
<1>15. CASE UNCHANGED vars
  BY <1>15 DEF vars
<1> QED
  BY <1>1, <1>2, <1>3, <1>4, <1>5, <1>6, <1>7,
     <1>8, <1>9, <1>10, <1>11, <1>12, <1>13, <1>14, <1>15 DEF Next

(* A job nobody is settling as sent and that is not settled for good has   *)
(* no delivery the system still knows of.                                  *)
LEMMA NothingTracked ==
  ASSUME TypeOK, DeliveryInv, NEW j \in Jobs, ~InFlight(j),
         \/ status[j] \notin {"sent", "skipped"}
         \/ \E w \in Workers : Holds(w, j)
  PROVE  delivered[j] <= untracked[j]
  BY DEF TypeOK, DeliveryInv

(* No step makes a second delivery while an earlier one is accounted for.  *)
LEMMA DeliveryStep ==
  ASSUME Exclusive, TypeOK, HolderInv, DeliveryInv, [Next]_vars
  PROVE  DeliveryInv'
<1> USE OutboxAssumption DEF TypeOK, HolderInv, HeldRowInv, SettlingInv, RequeueInv,
        DeliveryInv, InFlight, Holds, Queued, NoIntent, table, memory, history, bounds
<1>1. ASSUME NEW j \in Jobs, Enqueue(j)
      PROVE  DeliveryInv'
  BY <1>1 DEF Enqueue
<1>2. ASSUME NEW j \in Jobs, BackoffElapses(j)
      PROVE  DeliveryInv'
  BY <1>2 DEF BackoffElapses
<1>3. ASSUME NEW j \in Jobs, LeaseLapses(j)
      PROVE  DeliveryInv'
  BY <1>3 DEF LeaseLapses
<1>4. ASSUME NEW w \in Workers, Claim(w)
      PROVE  DeliveryInv'
  <2> PICK S \in SUBSET {j \in Jobs : Claimable(j)} :
        /\ S # {}
        /\ Cardinality(S) <= BatchSize
        /\ status' = [j \in Jobs |-> IF j \in S THEN "claimed" ELSE status[j]]
        /\ lease' = [j \in Jobs |-> IF j \in S THEN "live" ELSE lease[j]]
        /\ attempts' = [j \in Jobs |-> IF j \in S THEN Counted(j)
                                                  ELSE attempts[j]]
        /\ batch' = [batch EXCEPT ![w] =
                       [j \in Jobs |-> IF j \in S THEN Counted(j) ELSE 0]]
    BY <1>4 DEF Claim
  <2>0. \A j \in S : status[j] \notin {"sent", "skipped"}
    BY DEF Claimable
  <2>1. \A j \in Jobs : status[j] # status'[j] => ~(status[j] \in {"sent", "skipped"})
    BY <2>0
  <2>2. \A v \in Workers, j \in Jobs : Holds(v, j)' =>
          Holds(v, j) \/ status[j] \notin {"sent", "skipped"}
    BY <2>0
  <2>3. UNCHANGED <<delivered, untracked, stage, cur, result>>
    BY <1>4 DEF Claim
  <2> QED
    BY <2>1, <2>2, <2>3
<1>5. ASSUME NEW w \in Workers, Settle(w)
      PROVE  DeliveryInv'
  BY <1>5 DEF Settle, Outcome
<1>6. ASSUME NEW w \in Workers, Email(w)
      PROVE  DeliveryInv'
  BY <1>6 DEF Email
<1>7. ASSUME NEW w \in Workers, Crash(w)
      PROVE  DeliveryInv'
  BY <1>7 DEF Crash, Forget
<1>8. ASSUME NEW w \in Workers, NEW j \in Jobs, WindowShut(w, j)
      PROVE  DeliveryInv'
  BY <1>8 DEF WindowShut
<1>9. ASSUME NEW w \in Workers, NEW j \in Jobs, Throw(w, j)
      PROVE  DeliveryInv'
  BY <1>9 DEF Throw, Forget
<1>10. ASSUME NEW w \in Workers, NEW j \in Jobs, NEW r \in Results, Send(w, j, r)
      PROVE  DeliveryInv'
  <2>1. ~InFlight(j)
    BY <1>10 DEF Send
  <2>2. delivered[j] <= untracked[j]
    BY <1>10, <2>1, NothingTracked DEF Send
  <2>3. r = "sent" => InFlight(j)'
    BY <1>10 DEF Send
  <2>4. ASSUME NEW i \in Jobs, i # j, InFlight(i) PROVE InFlight(i)'
    <3> PICK v \in Workers : stage[v] = "settle" /\ cur[v] = i /\ result[v] = "sent"
      BY <2>4
    <3>1. v # w
      BY <1>10 DEF Send
    <3> QED
      BY <1>10, <3>1 DEF Send
  <2>5. delivered'[j] > untracked'[j] => r = "sent" /\ delivered'[j] = delivered[j] + 1
                                          /\ untracked'[j] = untracked[j]
    <3>1. CASE r = "sent" /\ untracked' = untracked
      BY <1>10, <3>1 DEF Send
    <3>2. CASE UNCHANGED <<delivered, untracked>>
      BY <2>2, <3>2
    <3>3. CASE /\ delivered' = [delivered EXCEPT ![j] = @ + 1]
               /\ untracked' = [untracked EXCEPT ![j] = @ + 1]
      BY <2>2, <3>3
    <3> QED
      BY <1>10, <3>1, <3>2, <3>3 DEF Send
  <2>6. ASSUME NEW i \in Jobs, i # j
        PROVE  delivered'[i] = delivered[i] /\ untracked'[i] = untracked[i]
    BY <1>10, <2>6 DEF Send
  <2>7. UNCHANGED <<status, batch>>
    BY <1>10 DEF Send
  <2> QED
    <3> HIDE DEF InFlight
    <3>1. delivered'[j] <= 1 + untracked'[j]
      <4>1. delivered'[j] \in Nat /\ untracked'[j] \in Nat
        BY TypeStep
      <4> QED
        BY <4>1, <2>2, <2>5
    <3>2. ASSUME NEW i \in Jobs, delivered'[i] > untracked'[i]
          PROVE  \/ InFlight(i)'
                 \/ /\ status'[i] \in {"sent", "skipped"}
                    /\ \A v \in Workers : ~(batch'[v][i] > 0)
      BY <3>2, <2>3, <2>4, <2>5, <2>6, <2>7
    <3> QED
      BY <3>1, <3>2, <2>6
<1>11. ASSUME NEW a \in Admins, NEW j \in Jobs, RequeueReads(a, j)
      PROVE  DeliveryInv'
  BY <1>11 DEF RequeueReads
<1>12. ASSUME NEW a \in Admins, NEW j \in Jobs, CancelReads(a, j)
      PROVE  DeliveryInv'
  BY <1>12 DEF CancelReads
<1>13. ASSUME NEW a \in Admins, RequeueWrites(a)
      PROVE  DeliveryInv'
  <2> DEFINE j == intent[a].job
  <2>1. j \in Jobs /\ status[j] \in {"dead", "blocked_window"}
    BY <1>13, IntentJob DEF RequeueWrites
  <2>2. ~InFlight(j)
    BY <2>1
  <2>3. delivered[j] <= untracked[j]
    BY <2>1, <2>2, NothingTracked
  <2> QED
    BY <1>13, <2>1, <2>3 DEF RequeueWrites
<1>14. ASSUME NEW a \in Admins, CancelWrites(a)
      PROVE  DeliveryInv'
  BY <1>14, IntentJob DEF CancelWrites
<1>15. CASE UNCHANGED vars
  BY <1>15 DEF vars
<1> QED
  BY <1>1, <1>2, <1>3, <1>4, <1>5, <1>6, <1>7,
     <1>8, <1>9, <1>10, <1>11, <1>12, <1>13, <1>14, <1>15 DEF Next

-----------------------------------------------------------------------------
(* What each run of the exclusive regime checks, for every instance.       *)
IInv == TypeOK /\ HolderInv /\ AttemptsInv /\ DeliveryInv

LEMMA ExclusiveInvariant == Exclusive => (Spec => []IInv)
<1> SUFFICES ASSUME Exclusive PROVE Spec => []IInv
  OBVIOUS
<1>1. Init => HolderInv /\ AttemptsInv /\ DeliveryInv
  BY OutboxAssumption DEF Init, HolderInv, HeldRowInv, SettlingInv, RequeueInv,
     AttemptsInv, DeliveryInv, Holds, NoIntent, Queued
<1>2. TypeOK /\ HolderInv /\ AttemptsInv /\ DeliveryInv /\ [Next]_vars
        => (HolderInv /\ AttemptsInv /\ DeliveryInv)'
  BY HolderStep, AttemptsStep, DeliveryStep
<1> QED
  BY <1>1, <1>2, TypeCorrect, PTL DEF Spec, IInv

(* While a worker holds a job no other does, its lease is live and its     *)
(* snapshot is current: claimBatch gives a row to exactly one worker.      *)
THEOREM ExclusiveOneHolder == Exclusive => (Spec => []OneHolder)
<1>1. IInv => OneHolder
  BY DEF IInv, HolderInv, HeldRowInv, OneHolder
<1> QED
  BY <1>1, ExclusiveInvariant, PTL

(* A customer gets a message twice only if the system lost track of a      *)
(* delivery: no interleaving of claims, settlements and cancels does it.   *)
THEOREM ExclusiveDuplicates == Exclusive => (Spec => []DuplicatesExplained)
<1>1. IInv => DuplicatesExplained
  BY DEF IInv, DeliveryInv, DuplicatesExplained
<1> QED
  BY <1>1, ExclusiveInvariant, PTL

(* max_attempts is exceeded only by the attempts that lost leases wasted.  *)
THEOREM ExclusiveAttempts == Exclusive => (Spec => []AttemptsAccounted)
<1>1. IInv => AttemptsAccounted
  BY DEF IInv, AttemptsInv, AttemptsAccounted
<1> QED
  BY <1>1, ExclusiveInvariant, PTL
-----------------------------------------------------------------------------
(***************************************************************************)
(* Every regime: leases that lapse under a live worker and any number of   *)
(* admins included.                                                        *)
(***************************************************************************)
(* Who can write over whom. As long as a job is not contested, the worker  *)
(* that holds it is alone with it, under a live lease, and the row is      *)
(* still claimed (or cancelled): it cannot have been settled by another.   *)
UncontestedInv ==
  \A w \in Workers, j \in Jobs : Holds(w, j) /\ j \notin contested =>
    /\ \A v \in Workers : Holds(v, j) => v = w
    /\ lease[j] = "live"
    /\ status[j] \in {"claimed", "skipped"}

WriterInv == UncontestedInv /\ SettlingInv

LEMMA WriterStep ==
  ASSUME TypeOK, WriterInv, [Next]_vars
  PROVE  WriterInv'
<1> USE OutboxAssumption DEF TypeOK, WriterInv, UncontestedInv, SettlingInv, Holds,
        Contest, Release, table, memory, history, bounds
<1>1. ASSUME NEW j \in Jobs, Enqueue(j)
      PROVE  WriterInv'
  <2>1. UncontestedInv'
    BY <1>1 DEF Enqueue
  <2>2. SettlingInv'
    BY <1>1 DEF Enqueue
  <2> QED
    BY <2>1, <2>2
<1>2. ASSUME NEW j \in Jobs, BackoffElapses(j)
      PROVE  WriterInv'
  <2>1. UncontestedInv'
    BY <1>2 DEF BackoffElapses
  <2>2. SettlingInv'
    BY <1>2 DEF BackoffElapses
  <2> QED
    BY <2>1, <2>2
<1>3. ASSUME NEW j \in Jobs, LeaseLapses(j)
      PROVE  WriterInv'
  <2>1. UncontestedInv'
    BY <1>3 DEF LeaseLapses
  <2>2. SettlingInv'
    BY <1>3 DEF LeaseLapses
  <2> QED
    BY <2>1, <2>2
<1>4. ASSUME NEW w \in Workers, Claim(w)
      PROVE  WriterInv'
  <2> PICK S \in SUBSET {j \in Jobs : Claimable(j)} :
        /\ S # {}
        /\ Cardinality(S) <= BatchSize
        /\ status' = [j \in Jobs |-> IF j \in S THEN "claimed" ELSE status[j]]
        /\ lease' = [j \in Jobs |-> IF j \in S THEN "live" ELSE lease[j]]
        /\ attempts' = [j \in Jobs |-> IF j \in S THEN Counted(j)
                                                  ELSE attempts[j]]
        /\ batch' = [batch EXCEPT ![w] =
                       [j \in Jobs |-> IF j \in S THEN Counted(j) ELSE 0]]
    BY <1>4 DEF Claim
  <2>1. UncontestedInv'
    <3>1. \A j \in S, v \in Workers : Holds(v, j) => j \in contested
      BY DEF Claimable, Queued
    <3>2. \A j \in Jobs : ~Holds(w, j)
      BY <1>4 DEF Claim, Busy
    <3>3. ASSUME NEW v \in Workers, NEW j \in Jobs, Holds(v, j)'
          PROVE  \/ v = w /\ j \in S
                 \/ v # w /\ Holds(v, j)
      BY <3>2, <3>3
    <3>4. contested' = contested
      BY <1>4 DEF Claim
    <3> QED
      BY <3>1, <3>3, <3>4
  <2>2. SettlingInv'
    BY <1>4 DEF Claim, Busy
  <2> QED
    BY <2>1, <2>2
<1>5. ASSUME NEW w \in Workers, Settle(w)
      PROVE  WriterInv'
  <2>1. UncontestedInv'
    BY <1>5 DEF Settle
  <2>2. SettlingInv'
    BY <1>5 DEF Settle
  <2> QED
    BY <2>1, <2>2
<1>6. ASSUME NEW w \in Workers, Email(w)
      PROVE  WriterInv'
  <2>1. UncontestedInv'
    BY <1>6 DEF Email
  <2>2. SettlingInv'
    BY <1>6 DEF Email
  <2> QED
    BY <2>1, <2>2
<1>7. ASSUME NEW w \in Workers, Crash(w)
      PROVE  WriterInv'
  <2>1. UncontestedInv'
    BY <1>7 DEF Crash
  <2>2. SettlingInv'
    BY <1>7 DEF Crash
  <2> QED
    BY <2>1, <2>2
<1>8. ASSUME NEW w \in Workers, NEW j \in Jobs, WindowShut(w, j)
      PROVE  WriterInv'
  <2>1. UncontestedInv'
    BY <1>8 DEF WindowShut, Results
  <2>2. SettlingInv'
    BY <1>8 DEF WindowShut, Results
  <2> QED
    BY <2>1, <2>2
<1>9. ASSUME NEW w \in Workers, NEW j \in Jobs, Throw(w, j)
      PROVE  WriterInv'
  <2>1. UncontestedInv'
    BY <1>9 DEF Throw
  <2>2. SettlingInv'
    BY <1>9 DEF Throw
  <2> QED
    BY <2>1, <2>2
<1>10. ASSUME NEW w \in Workers, NEW j \in Jobs, NEW r \in Results, Send(w, j, r)
      PROVE  WriterInv'
  <2>1. UncontestedInv'
    BY <1>10 DEF Send
  <2>2. SettlingInv'
    BY <1>10 DEF Send
  <2> QED
    BY <2>1, <2>2
<1>11. ASSUME NEW a \in Admins, NEW j \in Jobs, RequeueReads(a, j)
      PROVE  WriterInv'
  <2>1. UncontestedInv'
    BY <1>11 DEF RequeueReads
  <2>2. SettlingInv'
    BY <1>11 DEF RequeueReads
  <2> QED
    BY <2>1, <2>2
<1>12. ASSUME NEW a \in Admins, NEW j \in Jobs, CancelReads(a, j)
      PROVE  WriterInv'
  <2>1. UncontestedInv'
    BY <1>12 DEF CancelReads
  <2>2. SettlingInv'
    BY <1>12 DEF CancelReads
  <2> QED
    BY <2>1, <2>2
<1>13. ASSUME NEW a \in Admins, RequeueWrites(a)
      PROVE  WriterInv'
  <2>1. UncontestedInv'
    BY <1>13, IntentJob DEF RequeueWrites, NoIntent
  <2>2. SettlingInv'
    BY <1>13, IntentJob DEF RequeueWrites, NoIntent
  <2> QED
    BY <2>1, <2>2
<1>14. ASSUME NEW a \in Admins, CancelWrites(a)
      PROVE  WriterInv'
  <2>1. UncontestedInv'
    BY <1>14, IntentJob DEF CancelWrites, NoIntent
  <2>2. SettlingInv'
    BY <1>14, IntentJob DEF CancelWrites, NoIntent
  <2> QED
    BY <2>1, <2>2
<1>15. CASE UNCHANGED vars
  BY <1>15 DEF vars
<1> QED
  BY <1>1, <1>2, <1>3, <1>4, <1>5, <1>6, <1>7,
     <1>8, <1>9, <1>10, <1>11, <1>12, <1>13, <1>14, <1>15 DEF Next

(* A sent row is left only by an admin whose decision predates the send,   *)
(* or by a worker while the job is contested: a batch outlasted its lease, *)
(* or a requeue put back a job in somebody's hands. For any number of      *)
(* workers and admins, any batch size and batches of any length.           *)
THEOREM SentUndoneExplained == Spec => SentUndoneOnlyIfContested
<1> DEFINE SentStep ==
      \A j \in Jobs : status[j] = "sent" /\ status'[j] # "sent" =>
        StaleAdminWrites(j) \/ j \in contested
<1>1. Init => WriterInv
  BY OutboxAssumption DEF Init, WriterInv, UncontestedInv, SettlingInv, Holds
<1>2. TypeOK /\ WriterInv /\ [Next]_vars => WriterInv'
  BY WriterStep
<1>3. TypeOK /\ WriterInv /\ [Next]_vars => [SentStep]_vars
  <2> SUFFICES ASSUME TypeOK, WriterInv, [Next]_vars, NEW j \in Jobs,
                      status[j] = "sent", status'[j] # "sent", j \notin contested
               PROVE  StaleAdminWrites(j)
    OBVIOUS
  <2> USE DEF TypeOK, table, memory, history, bounds
  <2>1. ASSUME NEW w \in Workers, Claim(w) PROVE FALSE
    <3> PICK S \in SUBSET {i \in Jobs : Claimable(i)} :
          status' = [i \in Jobs |-> IF i \in S THEN "claimed" ELSE status[i]]
      BY <2>1 DEF Claim
    <3>1. j \notin S
      BY DEF Claimable, Queued
    <3> QED
      BY <3>1
  <2>2. ASSUME NEW w \in Workers, Settle(w) PROVE FALSE
    <3>1. cur[w] \in Jobs /\ Holds(w, cur[w])
      BY <2>2 DEF Settle, WriterInv, SettlingInv
    <3>2. cur[w] = j
      BY <2>2 DEF Settle
    <3> QED
      BY <3>1, <3>2 DEF WriterInv, UncontestedInv
  <2>3. \A i \in Jobs : ~Enqueue(i) /\ ~BackoffElapses(i) /\ ~LeaseLapses(i)
    BY DEF Enqueue, BackoffElapses, LeaseLapses
  <2>4. \A w \in Workers : ~Email(w) /\ ~Crash(w)
    BY DEF Email, Crash
  <2>5. \A w \in Workers, i \in Jobs : ~WindowShut(w, i) /\ ~Throw(w, i)
    BY DEF WindowShut, Throw
  <2>6. \A w \in Workers, i \in Jobs, r \in Results : ~Send(w, i, r)
    BY DEF Send
  <2>7. \A a \in Admins, i \in Jobs : ~RequeueReads(a, i) /\ ~CancelReads(a, i)
    BY DEF RequeueReads, CancelReads
  <2>8. ASSUME NEW a \in Admins, RequeueWrites(a) \/ CancelWrites(a)
        PROVE  intent[a] # NoIntent /\ intent[a].job = j /\ intent'[a] = NoIntent
    <3>1. intent[a].op # "none" /\ intent[a] # NoIntent
      BY <2>8 DEF RequeueWrites, CancelWrites, NoIntent
    <3>2. \E x \in Status : status' = [status EXCEPT ![intent[a].job] = x]
      BY <2>8 DEF RequeueWrites, CancelWrites, Status, Queued, Parked
    <3>3. intent' = [intent EXCEPT ![a] = NoIntent]
      BY <2>8 DEF RequeueWrites, CancelWrites
    <3> QED
      BY <3>1, <3>2, <3>3
  <2>9. ~UNCHANGED vars
    BY DEF vars
  <2> QED
    BY <2>1, <2>2, <2>3, <2>4, <2>5, <2>6, <2>7, <2>8, <2>9
    DEF Next, StaleAdminWrites
<1> QED
  BY <1>1, <1>2, <1>3, TypeCorrect, PTL DEF Spec, SentUndoneOnlyIfContested

(* The exclusive regime is a special case: there no job is ever contested, *)
(* since leases do not run out in a holder's hands and a requeue was       *)
(* decided on a row nobody has taken since.                                *)
THEOREM ExclusiveSentUndone ==
  Exclusive => (Spec => SentUndoneOnlyByStaleAdmin)
<1> SUFFICES ASSUME Exclusive PROVE Spec => SentUndoneOnlyByStaleAdmin
  OBVIOUS
<1> DEFINE Apart == contested = {}
           Explained == \A j \in Jobs : status[j] = "sent" /\ status'[j] # "sent" =>
                          StaleAdminWrites(j) \/ j \in contested
           ByAdmin == \A j \in Jobs : status[j] = "sent" /\ status'[j] # "sent" =>
                        StaleAdminWrites(j)
<1>1. Init => Apart
  BY DEF Init
<1>2. IInv /\ Apart /\ [Next]_vars => Apart'
  <2> SUFFICES ASSUME IInv, Apart, [Next]_vars PROVE Apart'
    OBVIOUS
  <2> USE DEF history
  <2>1. ASSUME NEW j \in Jobs, LeaseLapses(j) PROVE Apart'
    BY <2>1 DEF LeaseLapses, Contest, Exclusive
  <2>2. ASSUME NEW a \in Admins, RequeueWrites(a) PROVE Apart'
    <3>1. \A w \in Workers : ~Holds(w, intent[a].job)
      BY <2>2, IntentJob DEF RequeueWrites, IInv, HolderInv, HeldRowInv, RequeueInv
    <3> QED
      BY <2>2, <3>1 DEF RequeueWrites, Contest
  <2>3. ASSUME NEW w \in Workers, Settle(w) \/ Crash(w) \/ \E j \in Jobs : Throw(w, j)
        PROVE  Apart'
    BY <2>3 DEF Settle, Crash, Throw, Release
  <2> QED
    BY <2>1, <2>2, <2>3
    DEF Next, vars, Enqueue, BackoffElapses, Claim, Email, WindowShut, Send, RequeueReads,
        CancelReads, CancelWrites
<1>3. Apart /\ [Explained]_vars => [ByAdmin]_vars
  OBVIOUS
<1> QED
  BY <1>1, <1>2, <1>3, ExclusiveInvariant, SentUndoneExplained, PTL
  DEF Spec, SentUndoneOnlyIfContested, SentUndoneOnlyByStaleAdmin

(* The fallback of a parked lead alert is done, dropped by a crash, waived *)
(* by an admin, or at hand: no interleaving makes the worker skip it.      *)
LEMMA BackstopStep ==
  ASSUME TypeOK, AlertBackstopped, [Next]_vars
  PROVE  AlertBackstopped'
<1> USE OutboxAssumption DEF TypeOK, AlertBackstopped, table, memory, history, bounds
<1>1. ASSUME NEW j \in Jobs, Enqueue(j)
      PROVE  AlertBackstopped'
  BY <1>1 DEF Enqueue, Parked
<1>2. ASSUME NEW j \in Jobs, BackoffElapses(j)
      PROVE  AlertBackstopped'
  BY <1>2 DEF BackoffElapses
<1>3. ASSUME NEW j \in Jobs, LeaseLapses(j)
      PROVE  AlertBackstopped'
  BY <1>3 DEF LeaseLapses
<1>4. ASSUME NEW w \in Workers, Claim(w)
      PROVE  AlertBackstopped'
  BY <1>4 DEF Claim, Parked
<1>5. ASSUME NEW w \in Workers, Settle(w)
      PROVE  AlertBackstopped'
  <2> DEFINE outcome == Outcome(result[w], batch[w][cur[w]])
  <2>1. CASE FallsBack(cur[w], outcome)
    BY <1>5, <2>1 DEF Settle
  <2>2. CASE ~FallsBack(cur[w], outcome)
    <3>1. /\ status' = [status EXCEPT ![cur[w]] = outcome]
          /\ fallback' = [fallback EXCEPT ![cur[w]] = "none"]
          /\ stage' = [stage EXCEPT ![w] = "ready"]
          /\ cur' = [cur EXCEPT ![w] = NoJob]
          /\ stage[w] = "settle"
      BY <1>5, <2>2 DEF Settle
    <3>2. cur[w] \in Alerts /\ EmailConfigured => outcome \notin Parked
      BY <2>2 DEF FallsBack
    <3> QED
      BY <3>1, <3>2
  <2> QED
    BY <2>1, <2>2
<1>6. ASSUME NEW w \in Workers, Email(w)
      PROVE  AlertBackstopped'
  BY <1>6 DEF Email
<1>7. ASSUME NEW w \in Workers, Crash(w)
      PROVE  AlertBackstopped'
  BY <1>7 DEF Crash, Busy
<1>8. ASSUME NEW w \in Workers, NEW j \in Jobs, WindowShut(w, j)
      PROVE  AlertBackstopped'
  BY <1>8 DEF WindowShut
<1>9. ASSUME NEW w \in Workers, NEW j \in Jobs, Throw(w, j)
      PROVE  AlertBackstopped'
  BY <1>9 DEF Throw
<1>10. ASSUME NEW w \in Workers, NEW j \in Jobs, NEW r \in Results, Send(w, j, r)
      PROVE  AlertBackstopped'
  BY <1>10 DEF Send
<1>11. ASSUME NEW a \in Admins, NEW j \in Jobs, RequeueReads(a, j)
      PROVE  AlertBackstopped'
  BY <1>11 DEF RequeueReads
<1>12. ASSUME NEW a \in Admins, NEW j \in Jobs, CancelReads(a, j)
      PROVE  AlertBackstopped'
  BY <1>12 DEF CancelReads
<1>13. ASSUME NEW a \in Admins, RequeueWrites(a)
      PROVE  AlertBackstopped'
  BY <1>13, IntentJob DEF RequeueWrites, Parked, NoIntent
<1>14. ASSUME NEW a \in Admins, CancelWrites(a)
      PROVE  AlertBackstopped'
  BY <1>14, IntentJob DEF CancelWrites, NoIntent
<1>15. CASE UNCHANGED vars
  BY <1>15 DEF vars
<1> QED
  BY <1>1, <1>2, <1>3, <1>4, <1>5, <1>6, <1>7,
     <1>8, <1>9, <1>10, <1>11, <1>12, <1>13, <1>14, <1>15 DEF Next

(* A lead alert WhatsApp did not deliver is never left to the CRM alone    *)
(* except by the death (or a throw) of the worker about to email it.       *)
THEOREM Backstopped == Spec => []AlertBackstopped
<1>1. Init => AlertBackstopped
  BY OutboxAssumption DEF Init, AlertBackstopped, Parked
<1>2. TypeOK /\ AlertBackstopped /\ [Next]_vars => AlertBackstopped'
  BY BackstopStep
<1> QED
  BY <1>1, <1>2, TypeCorrect, PTL DEF Spec

(* Without requeues the attempt number only grows, so claims never share   *)
(* one and none is ahead of the row.                                       *)
ClaimsInv ==
  /\ DistinctClaims
  /\ \A w \in Workers, j \in Jobs : batch[w][j] <= attempts[j]

(* A claim of a job carries the number it just counted; the other workers  *)
(* keep what they hold.                                                    *)
LEMMA ClaimCounts ==
  ASSUME TypeOK, NEW w \in Workers, Claim(w)
  PROVE  \A j \in Jobs :
           /\ attempts[j] \in Nat /\ attempts'[j] \in Nat
           /\ \/ batch'[w][j] = 0 /\ attempts'[j] = attempts[j]
              \/ batch'[w][j] = attempts'[j] /\ attempts'[j] = attempts[j] + 1
           /\ \A v \in Workers : v # w => batch'[v][j] = batch[v][j]
  BY DEF TypeOK, Claim, Counted

LEMMA ClaimsStep ==
  ASSUME Admins = {}, TypeOK, ClaimsInv, [Next]_vars
  PROVE  ClaimsInv'
<1> USE OutboxAssumption DEF TypeOK, ClaimsInv, DistinctClaims, Holds, table, memory, history, bounds
<1>1. ASSUME NEW j \in Jobs, Enqueue(j)
      PROVE  ClaimsInv'
  BY <1>1 DEF Enqueue
<1>2. ASSUME NEW j \in Jobs, BackoffElapses(j)
      PROVE  ClaimsInv'
  BY <1>2 DEF BackoffElapses
<1>3. ASSUME NEW j \in Jobs, LeaseLapses(j)
      PROVE  ClaimsInv'
  BY <1>3 DEF LeaseLapses
<1>4. ASSUME NEW w \in Workers, Claim(w)
      PROVE  ClaimsInv'
  <2> HIDE DEF TypeOK, ClaimsInv, DistinctClaims, Holds, table, memory, history,
               bounds
  <2>0. \A j \in Jobs :
          /\ attempts[j] \in Nat /\ attempts'[j] \in Nat
          /\ \/ batch'[w][j] = 0 /\ attempts'[j] = attempts[j]
             \/ batch'[w][j] = attempts'[j] /\ attempts'[j] = attempts[j] + 1
          /\ \A v \in Workers : v # w => batch'[v][j] = batch[v][j]
    BY <1>4, ClaimCounts
  <2>1. \A v \in Workers, j \in Jobs : batch[v][j] <= attempts[j] /\ batch[v][j] \in Nat
    BY DEF ClaimsInv, TypeOK
  <2>2. \A v \in Workers, j \in Jobs : batch'[v][j] <= attempts'[j]
    <3> TAKE v \in Workers, j \in Jobs
    <3>1. CASE v = w
      BY <2>0, <3>1
    <3>2. CASE v # w
      BY <2>0, <2>1, <3>2
    <3> QED
      BY <3>1, <3>2
  <2>3. ASSUME NEW v \in Workers, NEW u \in Workers, NEW j \in Jobs, v # u,
               batch'[v][j] > 0, batch'[u][j] > 0
        PROVE  batch'[v][j] # batch'[u][j]
    <3>1. CASE v # w /\ u # w
      <4>1. batch'[v][j] = batch[v][j] /\ batch'[u][j] = batch[u][j]
        BY <2>0, <3>1
      <4> QED
        BY <2>3, <4>1 DEF ClaimsInv, DistinctClaims, Holds
    <3>2. CASE v = w
      BY <2>0, <2>1, <2>3, <3>2
    <3>3. CASE u = w
      BY <2>0, <2>1, <2>3, <3>3
    <3> QED
      BY <3>1, <3>2, <3>3
  <2> QED
    BY <2>2, <2>3 DEF ClaimsInv, DistinctClaims, Holds
<1>5. ASSUME NEW w \in Workers, Settle(w)
      PROVE  ClaimsInv'
  BY <1>5 DEF Settle
<1>6. ASSUME NEW w \in Workers, Email(w)
      PROVE  ClaimsInv'
  BY <1>6 DEF Email
<1>7. ASSUME NEW w \in Workers, Crash(w)
      PROVE  ClaimsInv'
  BY <1>7 DEF Crash
<1>8. ASSUME NEW w \in Workers, NEW j \in Jobs, WindowShut(w, j)
      PROVE  ClaimsInv'
  BY <1>8 DEF WindowShut
<1>9. ASSUME NEW w \in Workers, NEW j \in Jobs, Throw(w, j)
      PROVE  ClaimsInv'
  BY <1>9 DEF Throw
<1>10. ASSUME NEW w \in Workers, NEW j \in Jobs, NEW r \in Results, Send(w, j, r)
      PROVE  ClaimsInv'
  BY <1>10 DEF Send
<1>11. ASSUME NEW a \in Admins, NEW j \in Jobs, RequeueReads(a, j)
      PROVE  ClaimsInv'
  BY <1>11 DEF RequeueReads
<1>12. ASSUME NEW a \in Admins, NEW j \in Jobs, CancelReads(a, j)
      PROVE  ClaimsInv'
  BY <1>12 DEF CancelReads
<1>13. ASSUME NEW a \in Admins, RequeueWrites(a)
      PROVE  ClaimsInv'
  BY <1>13 DEF RequeueWrites
<1>14. ASSUME NEW a \in Admins, CancelWrites(a)
      PROVE  ClaimsInv'
  BY <1>14 DEF CancelWrites
<1>15. CASE UNCHANGED vars
  BY <1>15 DEF vars
<1> QED
  BY <1>1, <1>2, <1>3, <1>4, <1>5, <1>6, <1>7,
     <1>8, <1>9, <1>10, <1>11, <1>12, <1>13, <1>14, <1>15 DEF Next

(* However leases lapse, two workers holding one job hold different claims *)
(* of it: the count made at the claim would fence a late settlement.       *)
THEOREM ClaimsDistinct == Admins = {} => (Spec => []DistinctClaims)
<1> SUFFICES ASSUME Admins = {} PROVE Spec => []DistinctClaims
  OBVIOUS
<1>1. Init => ClaimsInv
  BY DEF Init, ClaimsInv, DistinctClaims, Holds
<1>2. TypeOK /\ ClaimsInv /\ [Next]_vars => ClaimsInv'
  BY ClaimsStep
<1>3. ClaimsInv => DistinctClaims
  BY DEF ClaimsInv
<1> QED
  BY <1>1, <1>2, <1>3, TypeCorrect, PTL DEF Spec

-----------------------------------------------------------------------------
(***************************************************************************)
(* The refinement. In the exclusive regime a step of the outbox takes,     *)
(* returns, loses, puts, withdraws or reopens items of the abstract queue, *)
(* or is invisible to it.                                                  *)
(***************************************************************************)
Holders(j) == {w \in Workers : Holds(w, j)}

Invisible == \A j \in Jobs : /\ QueuePhase(j)' = QueuePhase(j)
                             /\ Holders(j)' = Holders(j)

LEMMA InvisibleStep == Invisible => UNCHANGED Queue!queueVars
  BY DEF Invisible, Holders, Queue!queueVars

(* One item changes its phase and nobody takes or leaves it.               *)
LEMMA HumanStep ==
  ASSUME NEW j \in Jobs, Holders(j) = {},
         NEW p, QueuePhase(j)' = p,
         \/ QueuePhase(j) = "absent" /\ p = "queued"
         \/ QueuePhase(j) \in {"queued", "out"} /\ p = "done"
         \/ QueuePhase(j) = "done" /\ p = "queued",
         \A i \in Jobs \ {j} : QueuePhase(i)' = QueuePhase(i),
         \A i \in Jobs : Holders(i)' = Holders(i)
  PROVE  Queue!Next
<1> DEFINE phase == [i \in Jobs |-> QueuePhase(i)]
           takers == [i \in Jobs |-> {w \in Workers : Holds(w, i)}]
<1>1. phase' = [phase EXCEPT ![j] = p] /\ takers' = takers
  BY DEF Holders
<1>2. phase[j] = QueuePhase(j) /\ takers[j] = {}
  BY DEF Holders
<1>3. Queue!Put(j) \/ Queue!Withdraw(j) \/ Queue!Reopen(j)
  BY <1>1, <1>2 DEF Queue!Put, Queue!Withdraw, Queue!Reopen
<1> QED
  BY <1>3 DEF Queue!Next

LEMMA TakeStep ==
  ASSUME NEW w \in Workers, NEW S \in SUBSET Jobs,
         \A j \in S : Holders(j) = {} /\ QueuePhase(j) \in {"queued", "out"},
         \A j \in Jobs : /\ QueuePhase(j)' = IF j \in S THEN "out" ELSE QueuePhase(j)
                         /\ Holders(j)' = IF j \in S THEN {w} ELSE Holders(j)
  PROVE  Queue!Next
<1>1. Queue!Take(w, S)
  BY DEF Queue!Take, Holders
<1> QED
  BY <1>1 DEF Queue!Next

LEMMA ReturnStep ==
  ASSUME NEW w \in Workers, NEW j \in Jobs, Holders(j) = {w},
         NEW p \in {"queued", "done"}, QueuePhase(j)' = p, Holders(j)' = {},
         \A i \in Jobs \ {j} : /\ QueuePhase(i)' = QueuePhase(i)
                               /\ Holders(i)' = Holders(i)
  PROVE  Queue!Next
<1> DEFINE phase == [i \in Jobs |-> QueuePhase(i)]
           takers == [i \in Jobs |-> {v \in Workers : Holds(v, i)}]
<1>1. phase' = [phase EXCEPT ![j] = p] /\ takers' = [takers EXCEPT ![j] = {}]
  BY DEF Holders
<1>2. takers[j] = {w}
  BY DEF Holders
<1>3. Queue!Return(w, j)
  BY <1>1, <1>2 DEF Queue!Return
<1> QED
  BY <1>3 DEF Queue!Next

LEMMA LoseStep ==
  ASSUME NEW w \in Workers, NEW S \in SUBSET Jobs, NEW D \in SUBSET S,
         \A j \in S : Holders(j) = {w},
         \A j \in Jobs : /\ QueuePhase(j)' = IF j \in D THEN "done" ELSE QueuePhase(j)
                         /\ Holders(j)' = IF j \in S THEN {} ELSE Holders(j)
  PROVE  Queue!Next
<1>1. Queue!Lose(w, S)
  BY DEF Queue!Lose, Holders
<1> QED
  BY <1>1 DEF Queue!Next

(* A job an admin is about to cancel is in the table.                      *)
CancelInv ==
  \A a \in Admins : intent[a].op = "cancel" => status[intent[a].job] # "absent"

LEMMA CancelStep ==
  ASSUME TypeOK, CancelInv, [Next]_vars
  PROVE  CancelInv'
<1> USE DEF TypeOK, CancelInv, NoIntent, table, memory, history, bounds
<1>1. ASSUME NEW j \in Jobs, status[j] # "absent" PROVE status'[j] # "absent"
  <2>1. ASSUME NEW w \in Workers, Settle(w) PROVE status'[j] # "absent"
    BY <1>1, <2>1, OutcomeType DEF Settle, Parked
  <2>2. ASSUME NEW w \in Workers, Claim(w) PROVE status'[j] # "absent"
    BY <1>1, <2>2 DEF Claim
  <2>3. ASSUME NEW a \in Admins, RequeueWrites(a) \/ CancelWrites(a)
        PROVE  status'[j] # "absent"
    BY <1>1, <2>3, IntentJob DEF RequeueWrites, CancelWrites
  <2> QED
    BY <1>1, <2>1, <2>2, <2>3
    DEF Next, vars, Enqueue, BackoffElapses, LeaseLapses, Email, Crash, WindowShut, Throw,
        Send, RequeueReads, CancelReads
<1>2. ASSUME NEW a \in Admins, intent'[a].op = "cancel"
      PROVE  \/ intent'[a] = intent[a]
             \/ \E j \in Jobs : CancelReads(a, j)
  <2>1. ASSUME NEW b \in Admins, NEW j \in Jobs, RequeueReads(b, j)
        PROVE  intent'[a] = intent[a]
    BY <1>2, <2>1 DEF RequeueReads
  <2>2. ASSUME NEW b \in Admins, NEW j \in Jobs, CancelReads(b, j)
        PROVE  intent'[a] = intent[a] \/ CancelReads(a, j)
    BY <1>2, <2>2 DEF CancelReads
  <2>3. ASSUME NEW b \in Admins, RequeueWrites(b) \/ CancelWrites(b)
        PROVE  intent'[a] = intent[a]
    BY <1>2, <2>3 DEF RequeueWrites, CancelWrites
  <2> QED
    BY <2>1, <2>2, <2>3
    DEF Next, vars, Enqueue, BackoffElapses, LeaseLapses, Claim, Settle, Email, Crash,
        WindowShut, Throw, Send
<1>3. ASSUME NEW a \in Admins, intent'[a].op = "cancel"
      PROVE  status'[intent'[a].job] # "absent"
  <2>1. CASE intent'[a] = intent[a]
    BY <1>1, <1>3, <2>1, IntentJob
  <2>2. ASSUME NEW j \in Jobs, CancelReads(a, j) PROVE status'[intent'[a].job] # "absent"
    BY <2>2 DEF CancelReads
  <2> QED
    BY <1>2, <1>3, <2>1, <2>2
<1> QED
  BY <1>3

(* What a phase is, by who holds the item and by its status.               *)
LEMMA Phases ==
  ASSUME TypeOK, HolderInv, NEW j \in Jobs
  PROVE  /\ Holders(j) # {} => status[j] \in {"claimed", "skipped"} /\ QueuePhase(j) = "out"
         /\ Holders(j) = {} => QueuePhase(j) =
              CASE status[j] = "absent" -> "absent"
                [] status[j] = "claimed" -> "out"
                [] status[j] \in Queued -> "queued"
                [] OTHER -> "done"
         /\ \A w \in Workers : Holds(w, j) => Holders(j) = {w}
<1>1. \A w \in Workers : Holds(w, j) => /\ Holders(j) = {w}
                                        /\ status[j] \in {"claimed", "skipped"}
  BY DEF HolderInv, HeldRowInv, Holders
<1>2. Holders(j) # {} <=> \E w \in Workers : Holds(w, j)
  BY DEF Holders
<1> QED
  BY <1>1, <1>2 DEF QueuePhase, Queued

LEMMA QueueInit == Init => Queue!Init
<1> SUFFICES ASSUME Init PROVE Queue!Init
  OBVIOUS
<1>1. \A j \in Jobs : QueuePhase(j) = "absent" /\ {w \in Workers : Holds(w, j)} = {}
  BY DEF Init, QueuePhase, Holds
<1> QED
  BY <1>1 DEF Queue!Init

LEMMA QueueStep ==
  ASSUME Exclusive, TypeOK, HolderInv, CancelInv, [Next]_vars
  PROVE  Queue!Next \/ UNCHANGED Queue!queueVars
<1> USE OutboxAssumption DEF TypeOK, table, memory, history, bounds
<1>0. TypeOK' /\ HolderInv'
  BY TypeStep, HolderStep
<1>1. ASSUME status' = status, batch' = batch
      PROVE  Queue!Next \/ UNCHANGED Queue!queueVars
  <2>1. Invisible
    BY <1>1 DEF Invisible, QueuePhase, Holders, Holds
  <2> QED
    BY <2>1, InvisibleStep
<1>2. ASSUME NEW j \in Jobs, Enqueue(j)
      PROVE  Queue!Next \/ UNCHANGED Queue!queueVars
  <2>1. /\ status[j] = "absent" /\ status'[j] = "pending"
        /\ \A i \in Jobs \ {j} : status'[i] = status[i]
        /\ batch' = batch
    BY <1>2 DEF Enqueue
  <2>2. \A i \in Jobs : Holders(i)' = Holders(i)
    BY <2>1 DEF Holders, Holds
  <2>3. Holders(j) = {} /\ QueuePhase(j) = "absent" /\ QueuePhase(j)' = "queued"
    BY <2>1, <2>2, Phases DEF QueuePhase, Holders, Queued
  <2>4. \A i \in Jobs \ {j} : QueuePhase(i)' = QueuePhase(i)
    BY <2>1 DEF QueuePhase, Holds
  <2> QED
    BY <2>2, <2>3, <2>4, HumanStep
<1>3. ASSUME NEW w \in Workers, Claim(w)
      PROVE  Queue!Next \/ UNCHANGED Queue!queueVars
  <2>1. PICK S \in SUBSET {j \in Jobs : Claimable(j)} :
          /\ status' = [j \in Jobs |-> IF j \in S THEN "claimed" ELSE status[j]]
          /\ batch' = [batch EXCEPT ![w] =
                         [j \in Jobs |-> IF j \in S THEN Counted(j) ELSE 0]]
    BY <1>3 DEF Claim
  <2>2. \A j \in S : Holders(j) = {} /\ QueuePhase(j) \in {"queued", "out"}
    <3> SUFFICES ASSUME NEW j \in S
                 PROVE  Holders(j) = {} /\ QueuePhase(j) \in {"queued", "out"}
      OBVIOUS
    <3>1. Holders(j) = {}
      BY DEF HolderInv, HeldRowInv, Claimable, Queued, Holders
    <3> QED
      BY <3>1, Phases DEF Claimable, Queued
  <2>3. \A j \in Jobs : Holders(j)' = IF j \in S THEN {w} ELSE Holders(j)
    <3>1. \A j \in Jobs : ~Holds(w, j)
      BY <1>3 DEF Claim, Busy
    <3>2. \A j \in Jobs, v \in Workers :
            Holds(v, j)' <=> IF v = w THEN j \in S ELSE Holds(v, j)
      BY <2>1 DEF Holds, Counted
    <3> QED
      BY <2>2, <3>1, <3>2 DEF Holders
  <2>4. \A j \in Jobs : QueuePhase(j)' = IF j \in S THEN "out" ELSE QueuePhase(j)
    BY <2>1, <2>3 DEF QueuePhase, Holders
  <2>5. \A j \in Jobs : /\ QueuePhase(j)' = IF j \in S THEN "out" ELSE QueuePhase(j)
                        /\ Holders(j)' = IF j \in S THEN {w} ELSE Holders(j)
    BY <2>3, <2>4
  <2>6. S \in SUBSET Jobs
    OBVIOUS
  <2> HIDE DEF TypeOK, table, memory, history, bounds
  <2>7. Queue!Next
    BY <2>2, <2>5, <2>6, TakeStep
  <2> QED
    BY <2>7
<1>4. ASSUME NEW w \in Workers, Settle(w)
      PROVE  Queue!Next \/ UNCHANGED Queue!queueVars
  <2>0. PICK j \in Jobs : j = cur[w]
    BY <1>4 DEF Settle, HolderInv, SettlingInv
  <2>1. Holds(w, j)
    BY <1>4, <2>0 DEF Settle, HolderInv, SettlingInv
  <2>2. /\ status'[j] \in {"sent", "failed_retryable"} \cup Parked
        /\ \A i \in Jobs \ {j} : status'[i] = status[i]
        /\ batch' = [batch EXCEPT ![w][j] = 0]
    BY <1>4, <2>0, OutcomeType DEF Settle
  <2>3. Holders(j) = {w} /\ Holders(j)' = {} /\ \A i \in Jobs \ {j} : Holders(i)' = Holders(i)
    <3>1. Holders(j) = {w}
      BY <2>1, Phases
    <3>2. /\ \A v \in Workers : Holds(v, j)' <=> v # w /\ Holds(v, j)
          /\ \A i \in Jobs \ {j}, v \in Workers : Holds(v, i)' <=> Holds(v, i)
      BY <2>1, <2>2 DEF Holds
    <3> QED
      BY <3>1, <3>2 DEF Holders
  <2>4. QueuePhase(j)' \in {"queued", "done"}
    <3>1. \A v \in Workers : ~Holds(v, j)'
      BY <2>3 DEF Holders
    <3>2. status'[j] # "absent" /\ status'[j] # "claimed"
      BY <2>2 DEF Parked
    <3> QED
      BY <3>1, <3>2 DEF QueuePhase
  <2>5. \A i \in Jobs \ {j} : QueuePhase(i)' = QueuePhase(i)
    BY <2>2, <2>3 DEF QueuePhase, Holders
  <2>6. \A i \in Jobs \ {j} : /\ QueuePhase(i)' = QueuePhase(i)
                              /\ Holders(i)' = Holders(i)
    BY <2>3, <2>5
  <2>7. Queue!Next
    BY <2>3, <2>4, <2>6, ReturnStep
  <2> QED
    BY <2>7
<1>5. ASSUME NEW w \in Workers, NEW S \in SUBSET Jobs, \A j \in S : Holds(w, j),
             status' = status,
             \A j \in Jobs, v \in Workers :
               Holds(v, j)' <=> Holds(v, j) /\ ~(v = w /\ j \in S)
      PROVE  Queue!Next
  <2> DEFINE D == {j \in S : status[j] = "skipped"}
  <2>1. \A j \in S : Holders(j) = {w} /\ QueuePhase(j) = "out"
    BY <1>5, Phases
  <2>2. \A j \in Jobs : Holders(j)' = IF j \in S THEN {} ELSE Holders(j)
    BY <1>5, <2>1 DEF Holders
  <2>3. \A j \in S : status[j] \in {"claimed", "skipped"}
    BY <1>5 DEF HolderInv, HeldRowInv
  <2>4. \A j \in Jobs : QueuePhase(j)' = IF j \in D THEN "done" ELSE QueuePhase(j)
    <3> SUFFICES ASSUME NEW j \in Jobs
                 PROVE  QueuePhase(j)' = IF j \in D THEN "done" ELSE QueuePhase(j)
      OBVIOUS
    <3>1. CASE j \in D
      BY <1>5, <2>2, <3>1 DEF QueuePhase, Holders, Queued
    <3>2. CASE j \in S \ D
      BY <1>5, <2>1, <2>3, <3>2 DEF QueuePhase
    <3>3. CASE j \notin S
      BY <1>5, <2>2, <3>3 DEF QueuePhase, Holders
    <3> QED
      BY <3>1, <3>2, <3>3
  <2>5. \A j \in Jobs : /\ QueuePhase(j)' = IF j \in D THEN "done" ELSE QueuePhase(j)
                        /\ Holders(j)' = IF j \in S THEN {} ELSE Holders(j)
    BY <2>2, <2>4
  <2>6. D \in SUBSET S
    OBVIOUS
  <2> HIDE DEF D
  <2> QED
    BY <2>1, <2>5, <2>6, LoseStep
<1>6. ASSUME NEW w \in Workers, NEW j \in Jobs, Throw(w, j)
      PROVE  Queue!Next \/ UNCHANGED Queue!queueVars
  <2>1. Holds(w, j) /\ status' = status /\ batch' = [batch EXCEPT ![w][j] = 0]
    BY <1>6 DEF Throw
  <2>2. \A i \in Jobs, v \in Workers :
          Holds(v, i)' <=> Holds(v, i) /\ ~(v = w /\ i \in {j})
    BY <2>1 DEF Holds
  <2> QED
    BY <1>5, <2>1, <2>2
<1>7. ASSUME NEW w \in Workers, Crash(w)
      PROVE  Queue!Next \/ UNCHANGED Queue!queueVars
  <2> DEFINE S == {j \in Jobs : Holds(w, j)}
  <2>1. status' = status /\ batch' = [batch EXCEPT ![w] = [j \in Jobs |-> 0]]
    BY <1>7 DEF Crash
  <2>2. \A i \in Jobs, v \in Workers :
          Holds(v, i)' <=> Holds(v, i) /\ ~(v = w /\ i \in S)
    BY <2>1 DEF Holds
  <2> QED
    BY <1>5, <2>1, <2>2
<1>8. ASSUME NEW a \in Admins, RequeueWrites(a) \/ CancelWrites(a)
      PROVE  Queue!Next \/ UNCHANGED Queue!queueVars
  <2>0. PICK j \in Jobs : j = intent[a].job
    BY <1>8, IntentJob DEF RequeueWrites, CancelWrites, NoIntent
  <2>1. batch' = batch /\ \A i \in Jobs \ {j} : status'[i] = status[i]
    BY <1>8, <2>0 DEF RequeueWrites, CancelWrites
  <2>2. \A i \in Jobs : Holders(i)' = Holders(i)
    BY <2>1 DEF Holders, Holds
  <2>3. \A i \in Jobs \ {j} : QueuePhase(i)' = QueuePhase(i)
    BY <2>1, <2>2 DEF QueuePhase, Holders
  <2>4. /\ Holders(j) # {} => QueuePhase(j) = "out"
        /\ QueuePhase(j)' = IF status'[j] = "absent" THEN "absent"
             ELSE IF status'[j] = "claimed" \/ Holders(j)' # {} THEN "out"
             ELSE IF status'[j] \in Queued THEN "queued" ELSE "done"
    <3>1. Holders(j)' # {} <=> \E w \in Workers : Holds(w, j)'
      BY DEF Holders
    <3> QED
      BY <3>1, Phases DEF QueuePhase
  <2>5. ASSUME RequeueWrites(a) PROVE Queue!Next
    <3>1. status[j] \in {"dead", "blocked_window"} /\ status'[j] = "pending"
      BY <2>0, <2>5 DEF RequeueWrites, HolderInv, RequeueInv
    <3>2. Holders(j) = {} /\ QueuePhase(j) = "done"
      BY <3>1, Phases DEF Queued
    <3>3. Holders(j)' = {}
      BY <2>2, <3>2
    <3>4. QueuePhase(j)' = "queued"
      BY <2>4, <3>1, <3>3 DEF Queued
    <3> QED
      BY <2>2, <2>3, <3>2, <3>4, HumanStep
  <2>6. ASSUME CancelWrites(a) PROVE Queue!Next \/ UNCHANGED Queue!queueVars
    <3>1. status'[j] = "skipped" /\ status[j] # "absent"
      BY <2>0, <2>6 DEF CancelWrites, CancelInv
    <3>2. QueuePhase(j)' = IF Holders(j)' # {} THEN "out" ELSE "done"
      BY <2>4, <3>1 DEF Queued
    <3>3. QueuePhase(j) \in {"queued", "out", "done"}
      BY <3>1 DEF QueuePhase
    <3>4. CASE QueuePhase(j)' = QueuePhase(j)
      <4>1. \A i \in Jobs : /\ QueuePhase(i)' = QueuePhase(i)
                             /\ Holders(i)' = Holders(i)
        BY <2>2, <2>3, <3>4
      <4> QED
        BY <4>1, InvisibleStep DEF Invisible
    <3>5. CASE QueuePhase(j)' # QueuePhase(j)
      <4>1. Holders(j) = {}
        <5>1. Holders(j)' = Holders(j)
          BY <2>2
        <5> QED
          BY <2>4, <3>2, <3>5, <5>1
      <4>2. QueuePhase(j)' = "done" /\ QueuePhase(j) \in {"queued", "out"}
        <5>1. Holders(j)' = {}
          BY <2>2, <4>1
        <5> QED
          BY <3>2, <3>3, <3>5, <5>1
      <4> QED
        BY <2>2, <2>3, <4>1, <4>2, HumanStep
    <3> QED
      BY <3>4, <3>5
  <2> QED
    BY <1>8, <2>5, <2>6
<1> QED
  BY <1>1, <1>2, <1>3, <1>4, <1>6, <1>7, <1>8
  DEF Next, vars, BackoffElapses, LeaseLapses, Email, WindowShut, Send, RequeueReads,
      CancelReads

(* With leases that hold and one admin at a time, the outbox is a queue    *)
(* that hands each message to one worker at a time, whoever dies or throws *)
(* and whatever the owner takes out or puts back.                          *)
THEOREM QueueImplemented == Exclusive => (Spec => ImplementsWorkQueue)
<1> SUFFICES ASSUME Exclusive PROVE Spec => ImplementsWorkQueue
  OBVIOUS
<1>1. Init => Queue!Init
  BY QueueInit
<1>2. Init => CancelInv
  BY DEF Init, CancelInv, NoIntent
<1>3. IInv /\ CancelInv /\ [Next]_vars => CancelInv'
  BY CancelStep DEF IInv
<1>4. IInv /\ CancelInv /\ [Next]_vars => [Queue!Next]_(Queue!queueVars)
  BY QueueStep DEF IInv
<1> QED
  BY <1>1, <1>2, <1>3, <1>4, ExclusiveInvariant, PTL
  DEF Spec, ImplementsWorkQueue, Queue!Spec
=============================================================================
