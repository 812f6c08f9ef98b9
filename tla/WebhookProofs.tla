--------------------------- MODULE WebhookProofs ---------------------------
(***************************************************************************)
(* Proofs about Webhook: for every set of envelopes, any number of         *)
(* concurrent requests, failures and redeliveries, an acknowledged event   *)
(* has its row, an unapplied row belongs to one request or is known to be  *)
(* lost, and a message is written once on a lead's card.                   *)
(*                                                                         *)
(* A request in memory is a position in an envelope and the set of earlier *)
(* positions whose insert it won. The inductive invariant says that every  *)
(* event it passed has a row (PassedInv), that a won position is a row     *)
(* nobody else won (WonInv), that what is "stored" is won or orphaned and  *)
(* never both (OwnedInv), that a pruned event is in no envelope Meta may   *)
(* still send (OverInv), and that a line on the card means a row that is   *)
(* past "stored" (CardInv).                                                *)
(***************************************************************************)
EXTENDS Webhook, TLAPS

(* The request in memory: nothing while idle, a position in a real         *)
(* envelope and won positions before it otherwise.                         *)
RequestInv ==
  \A h \in Handlers :
    /\ pc[h] = "idle" => env[h] = <<>> /\ next[h] = 1 /\ stored[h] = {}
    /\ pc[h] # "idle" => env[h] \in Envelopes
    /\ next[h] \in 1 .. Len(env[h]) + 1
    /\ stored[h] \subseteq 1 .. next[h] - 1

(* Every event a request has passed has its row.                           *)
PassedInv ==
  \A h \in Handlers : \A i \in 1 .. next[h] - 1 : row[env[h][i]] # "none"

(* Each won position is a row of its own, still to be applied.             *)
WonInv ==
  \A g, h \in Handlers : \A i \in stored[g], k \in stored[h] :
    env[g][i] = env[h][k] => g = h /\ i = k

(* A row is "stored" exactly while it is won or orphaned, and never both.  *)
OwnedInv ==
  /\ \A e \in orphans : row[e] = "stored"
  /\ \A h \in Handlers : \A i \in stored[h] :
       row[env[h][i]] = "stored" /\ env[h][i] \notin orphans
  /\ \A e \in Events : row[e] = "stored" =>
       e \in orphans \/ \E h \in Handlers : \E i \in stored[h] : env[h][i] = e

(* An envelope that is over is in no request, and a pruned event is only   *)
(* in such envelopes.                                                      *)
OverInv ==
  /\ \A h \in Handlers : pc[h] # "idle" => meta[env[h]] # "over"
  /\ \A e \in Events : row[e] = "pruned" =>
       \A v \in Envelopes : e \in EventsOf(v) => meta[v] = "over"

(* A message is on the card only once its row is processed.                *)
CardInv ==
  \A m \in Messages :
    card[m] <= 1 /\ (row[m] \in {"none", "stored"} => card[m] = 0)

IInv ==
  /\ TypeOK /\ RequestInv /\ PassedInv /\ WonInv /\ OwnedInv /\ OverInv
  /\ CardInv /\ AcknowledgedIsDurable

-----------------------------------------------------------------------------
(* An envelope is a sequence of one event or more.                         *)
LEMMA EnvelopeFacts ==
  ASSUME NEW v \in Envelopes
  PROVE  /\ v # <<>> /\ Len(v) \in Nat \ {0} /\ DOMAIN v = 1 .. Len(v)
         /\ \A i \in 1 .. Len(v) : v[i] \in Events /\ v[i] \in EventsOf(v)
<1>1. v \in Seq(Events) /\ v # <<>>
  BY WebhookAssumption DEF WebhookAssumption
<1> QED
  BY <1>1 DEF EventsOf

(* The won positions of a request are events of its envelope.              *)
LEMMA WonFacts ==
  ASSUME TypeOK, RequestInv, NEW h \in Handlers, NEW i \in 1 .. next[h] - 1
  PROVE  /\ pc[h] # "idle" /\ env[h] \in Envelopes /\ i \in 1 .. Len(env[h])
         /\ env[h][i] \in Events
<1>1. next[h] \in Nat /\ next[h] \in 1 .. Len(env[h]) + 1
  BY DEF TypeOK, RequestInv
<1>2. pc[h] # "idle"
  BY <1>1 DEF RequestInv
<1>3. env[h] \in Envelopes
  BY <1>2 DEF RequestInv
<1>4. Len(env[h]) \in Nat
  BY <1>3, EnvelopeFacts
<1>5. i \in 1 .. Len(env[h])
  BY <1>1, <1>4
<1> QED
  BY <1>2, <1>3, <1>5, EnvelopeFacts

-----------------------------------------------------------------------------
(* Nothing is remembered, stored or acknowledged at the start.             *)
LEMMA InitIInv == Init => IInv
<1> SUFFICES ASSUME Init PROVE IInv
  OBVIOUS
<1>1. TypeOK
  BY WebhookAssumption DEF Init, TypeOK, WebhookAssumption
<1>2. RequestInv
  BY DEF Init, RequestInv
<1>3. PassedInv /\ WonInv /\ OwnedInv /\ CardInv
  BY WebhookAssumption
  DEF Init, PassedInv, WonInv, OwnedInv, CardInv, Events, WebhookAssumption
<1>4. OverInv /\ AcknowledgedIsDurable
  BY DEF Init, OverInv, AcknowledgedIsDurable
<1> QED
  BY <1>1, <1>2, <1>3, <1>4 DEF IInv

(* Delivering puts an envelope that is not over in an idle request.        *)
LEMMA DeliverKeeps ==
  ASSUME IInv, NEW h \in Handlers, NEW v \in Envelopes, Deliver(h, v)
  PROVE  IInv'
<1> USE DEF IInv
<1>1. /\ pc[h] = "idle" /\ meta[v] # "over" /\ env[h] = <<>>
      /\ next[h] = 1 /\ stored[h] = {}
  BY DEF Deliver, RequestInv
<1>2. /\ pc' = [pc EXCEPT ![h] = "storing"]
      /\ env' = [env EXCEPT ![h] = v]
      /\ UNCHANGED <<row, next, stored, crm, meta, orphans, mishaps>>
  BY DEF Deliver
<1>3. repeats' \in Nat
  BY WebhookAssumption DEF Deliver, TypeOK, WebhookAssumption
<1>4. TypeOK'
  BY <1>2, <1>3 DEF TypeOK, crm
<1>5. RequestInv'
  BY <1>1, <1>2, EnvelopeFacts DEF TypeOK, RequestInv
<1>6. PassedInv'
  BY <1>1, <1>2 DEF TypeOK, PassedInv
<1>7. WonInv'
  BY <1>1, <1>2 DEF TypeOK, WonInv
<1>8. OwnedInv'
  BY <1>1, <1>2 DEF TypeOK, OwnedInv
<1>9. OverInv'
  BY <1>1, <1>2 DEF TypeOK, OverInv
<1>10. CardInv' /\ AcknowledgedIsDurable'
  BY <1>2 DEF CardInv, AcknowledgedIsDurable, crm
<1> QED
  BY <1>4, <1>5, <1>6, <1>7, <1>8, <1>9, <1>10

(* A request that returns takes its won positions along: they must be      *)
(* orphaned or none, and the rest of the state may only gain rows.         *)
LEMMA ReturnKeeps ==
  ASSUME IInv, NEW h \in Handlers, Return(h),
         row' = row, orphans' = orphans \cup Remembered(h)
  PROVE  RequestInv' /\ PassedInv' /\ WonInv' /\ OwnedInv'
<1> USE DEF IInv
<1>1. /\ pc' = [pc EXCEPT ![h] = "idle"] /\ env' = [env EXCEPT ![h] = <<>>]
      /\ next' = [next EXCEPT ![h] = 1] /\ stored' = [stored EXCEPT ![h] = {}]
  BY DEF Return
<1>2. RequestInv'
  BY <1>1 DEF TypeOK, RequestInv
<1>3. PassedInv'
  BY <1>1 DEF TypeOK, PassedInv
<1>4. WonInv'
  BY <1>1 DEF TypeOK, WonInv
<1>5. OwnedInv'
  BY <1>1 DEF TypeOK, OwnedInv, WonInv, Remembered
<1> QED
  BY <1>2, <1>3, <1>4, <1>5

-----------------------------------------------------------------------------
(* What an inserting request holds in its hand: an event of an envelope    *)
(* that is not over, so one that was not pruned, and a position it has not *)
(* won.                                                                    *)
LEMMA InHand ==
  ASSUME IInv, NEW h \in Handlers, pc[h] = "storing", next[h] <= Len(env[h])
  PROVE  /\ env[h] \in Envelopes /\ next[h] \in 1 .. Len(env[h])
         /\ env[h][next[h]] \in Events /\ row[env[h][next[h]]] # "pruned"
         /\ next[h] \notin stored[h] /\ Len(env[h]) \in Nat
<1> USE DEF IInv
<1>1. env[h] \in Envelopes /\ next[h] \in 1 .. Len(env[h]) + 1 /\ next[h] \in Nat
  BY DEF RequestInv, TypeOK
<1>2. Len(env[h]) \in Nat /\ next[h] \in 1 .. Len(env[h])
  BY <1>1, EnvelopeFacts
<1>3. env[h][next[h]] \in Events /\ env[h][next[h]] \in EventsOf(env[h])
  BY <1>1, <1>2, EnvelopeFacts
<1>4. row[env[h][next[h]]] # "pruned"
  BY <1>1, <1>3 DEF OverInv
<1>5. next[h] \notin stored[h]
  BY <1>1 DEF RequestInv
<1> QED
  BY <1>1, <1>2, <1>3, <1>4, <1>5

(* The insert wins a row that had never been there, or passes over one.    *)
LEMMA StoreKeeps ==
  ASSUME IInv, NEW h \in Handlers, Store(h)
  PROVE  IInv'
<1> USE DEF IInv
<1> DEFINE p == next[h]
           e == env[h][p]
<1>1. /\ pc[h] = "storing" /\ p <= Len(env[h])
      /\ next' = [next EXCEPT ![h] = p + 1]
      /\ UNCHANGED <<pc, env, crm, meta, orphans, mishaps, repeats>>
  BY DEF Store, Following
<1>2. /\ env[h] \in Envelopes /\ p \in 1 .. Len(env[h]) /\ e \in Events
      /\ row[e] # "pruned" /\ p \notin stored[h] /\ Len(env[h]) \in Nat
  BY <1>1, InHand
<1>3. next \in [Handlers -> Nat] /\ stored \in [Handlers -> SUBSET Nat]
      /\ row \in [Events -> {"none", "stored", "processed", "pruned"}]
  BY DEF TypeOK
<1>4. \A g \in Handlers : next[g] \in Nat /\ stored[g] \subseteq 1 .. next[g] - 1
  BY <1>3 DEF RequestInv
<1>5. CASE row[e] = "none" /\ row' = [row EXCEPT ![e] = "stored"]
           /\ stored' = [stored EXCEPT ![h] = @ \cup {p}]
  <2>1. TypeOK'
    BY <1>1, <1>2, <1>3, <1>5 DEF TypeOK, crm
  <2>2. RequestInv'
    BY <1>1, <1>2, <1>3, <1>5 DEF RequestInv
  <2>3. PassedInv'
    <3> SUFFICES ASSUME NEW g \in Handlers, NEW i \in 1 .. next'[g] - 1
                 PROVE  row'[env[g][i]] # "none"
      BY <1>1 DEF PassedInv
    <3>1. CASE g = h /\ i = p
      BY <3>1, <1>2, <1>3, <1>5
    <3>2. CASE ~(g = h /\ i = p)
      <4>1. i \in 1 .. next[g] - 1
        BY <3>2, <1>1, <1>2, <1>3
      <4> QED
        BY <4>1, <1>3, <1>5 DEF PassedInv
    <3> QED
      BY <3>1, <3>2
  <2>4. \A g \in Handlers : \A i \in stored[g] : env[g][i] # e
    BY <1>5 DEF OwnedInv
  <2>5. WonInv'
    BY <2>4, <1>1, <1>3, <1>5 DEF WonInv
  <2>6. OwnedInv'
    <3>1. \A x \in orphans' : row'[x] = "stored"
      BY <1>1, <1>3, <1>5 DEF OwnedInv, TypeOK
    <3>2. e \notin orphans
      BY <1>5 DEF OwnedInv
    <3>3. \A g \in Handlers : \A i \in stored'[g] :
            row'[env'[g][i]] = "stored" /\ env'[g][i] \notin orphans'
      <4> SUFFICES ASSUME NEW g \in Handlers, NEW i \in stored'[g]
                   PROVE  row'[env[g][i]] = "stored" /\ env[g][i] \notin orphans
        BY <1>1
      <4>1. i \in stored[g] \/ (g = h /\ i = p)
        BY <1>3, <1>5
      <4>2. CASE i \in stored[g]
        BY <4>2, <1>3, <1>5, <2>4 DEF OwnedInv
      <4>3. CASE g = h /\ i = p
        BY <4>3, <3>2, <1>2, <1>3, <1>5
      <4> QED
        BY <4>1, <4>2, <4>3
    <3>4. \A x \in Events : row'[x] = "stored" =>
            x \in orphans' \/ \E g \in Handlers : \E i \in stored'[g] : env'[g][i] = x
      <4> SUFFICES ASSUME NEW x \in Events, row'[x] = "stored"
                   PROVE  x \in orphans \/ \E g \in Handlers : \E i \in stored'[g] : env[g][i] = x
        BY <1>1
      <4>1. CASE x = e
        BY <4>1, <1>3, <1>5
      <4>2. CASE x # e
        <5>1. row[x] = "stored"
          BY <4>2, <1>3, <1>5
        <5> QED
          BY <5>1, <1>3, <1>5 DEF OwnedInv
      <4> QED
        BY <4>1, <4>2
    <3> QED
      BY <3>1, <3>3, <3>4 DEF OwnedInv
  <2>7. OverInv'
    BY <1>1, <1>2, <1>3, <1>5 DEF OverInv
  <2>8. CardInv'
    BY <1>1, <1>2, <1>3, <1>5 DEF CardInv, crm
  <2>9. AcknowledgedIsDurable'
    BY <1>1, <1>2, <1>3, <1>5 DEF AcknowledgedIsDurable
  <2> QED
    BY <2>1, <2>2, <2>3, <2>5, <2>6, <2>7, <2>8, <2>9
<1>6. CASE row[e] # "none" /\ UNCHANGED <<row, stored>>
  <2>1. TypeOK'
    BY <1>1, <1>2, <1>3, <1>6 DEF TypeOK, crm
  <2>2. RequestInv'
    BY <1>1, <1>2, <1>3, <1>4, <1>6 DEF RequestInv
  <2>3. PassedInv'
    <3> SUFFICES ASSUME NEW g \in Handlers, NEW i \in 1 .. next'[g] - 1
                 PROVE  row[env[g][i]] # "none"
      BY <1>1, <1>6 DEF PassedInv
    <3>1. CASE g = h /\ i = p
      BY <3>1, <1>6
    <3>2. CASE ~(g = h /\ i = p)
      <4>1. i \in 1 .. next[g] - 1
        BY <3>2, <1>1, <1>2, <1>3
      <4> QED
        BY <4>1 DEF PassedInv
    <3> QED
      BY <3>1, <3>2
  <2>4. WonInv' /\ OwnedInv' /\ OverInv'
    BY <1>1, <1>6 DEF WonInv, OwnedInv, OverInv
  <2>5. CardInv' /\ AcknowledgedIsDurable'
    BY <1>1, <1>6 DEF CardInv, AcknowledgedIsDurable, crm
  <2> QED
    BY <2>1, <2>2, <2>3, <2>4, <2>5
<1> QED
  BY <1>1, <1>2, <1>3, <1>5, <1>6 DEF Store, Fresh

(* A failed insert orphans what the request had won, and the row it may    *)
(* have made.                                                              *)
LEMMA StoreFailsKeeps ==
  ASSUME IInv, NEW h \in Handlers, StoreFails(h)
  PROVE  IInv'
<1> USE DEF IInv
<1> DEFINE p == next[h]
           e == env[h][p]
<1>1. /\ pc[h] = "storing" /\ p <= Len(env[h]) /\ Return(h)
      /\ mishaps' \in Nat /\ UNCHANGED <<crm, meta, repeats>>
  BY DEF StoreFails, Mishap, TypeOK
<1>2. env[h] \in Envelopes /\ e \in Events /\ row[e] # "pruned"
  BY <1>1, InHand
<1>3. Remembered(h) \subseteq Events
  BY WonFacts DEF RequestInv, Remembered
<1>4. /\ pc' = [pc EXCEPT ![h] = "idle"] /\ env' = [env EXCEPT ![h] = <<>>]
      /\ next' = [next EXCEPT ![h] = 1] /\ stored' = [stored EXCEPT ![h] = {}]
  BY <1>1 DEF Return
<1>5. row' \in [Events -> {"none", "stored", "processed", "pruned"}]
      /\ orphans' \subseteq Events
  BY <1>2, <1>3 DEF StoreFails, TypeOK
<1>6. TypeOK'
  BY <1>1, <1>4, <1>5 DEF TypeOK, crm
<1>7. CASE row[e] = "none" /\ row' = [row EXCEPT ![e] = "stored"]
           /\ orphans' = orphans \cup Remembered(h) \cup {e}
  <2>1. \A g \in Handlers : \A i \in stored[g] : env[g][i] # e
    BY <1>7 DEF OwnedInv
  <2>2. RequestInv'
    BY <1>4 DEF TypeOK, RequestInv
  <2>3. PassedInv'
    BY <1>2, <1>4, <1>7 DEF TypeOK, PassedInv
  <2>4. WonInv'
    BY <1>4 DEF TypeOK, WonInv
  <2>5. OwnedInv'
    BY <1>2, <1>4, <1>7, <2>1 DEF TypeOK, OwnedInv, WonInv, Remembered
  <2>6. OverInv'
    BY <1>1, <1>2, <1>4, <1>7 DEF TypeOK, OverInv
  <2>7. CardInv'
    BY <1>1, <1>2, <1>7 DEF TypeOK, CardInv, crm
  <2>8. AcknowledgedIsDurable'
    BY <1>1, <1>2, <1>7 DEF TypeOK, AcknowledgedIsDurable
  <2> QED
    BY <1>6, <2>2, <2>3, <2>4, <2>5, <2>6, <2>7, <2>8
<1>8. CASE row' = row /\ orphans' = orphans \cup Remembered(h)
  <2>1. RequestInv' /\ PassedInv' /\ WonInv' /\ OwnedInv'
    BY <1>1, <1>8, ReturnKeeps
  <2>2. OverInv'
    BY <1>1, <1>4, <1>8 DEF TypeOK, OverInv
  <2>3. CardInv' /\ AcknowledgedIsDurable'
    BY <1>1, <1>8 DEF CardInv, AcknowledgedIsDurable, crm
  <2> QED
    BY <1>6, <2>1, <2>2, <2>3
<1> QED
  BY <1>2, <1>7, <1>8 DEF StoreFails, Fresh

(* A request whose server dies orphans what it had won.                    *)
LEMMA CrashKeeps ==
  ASSUME IInv, NEW h \in Handlers, Crash(h)
  PROVE  IInv'
<1> USE DEF IInv
<1>1. /\ Return(h) /\ orphans' = orphans \cup Remembered(h)
      /\ mishaps' \in Nat /\ UNCHANGED <<row, crm, meta, repeats>>
  BY DEF Crash, Mishap, TypeOK
<1>2. Remembered(h) \subseteq Events
  BY WonFacts DEF RequestInv, Remembered
<1>3. RequestInv' /\ PassedInv' /\ WonInv' /\ OwnedInv'
  BY <1>1, ReturnKeeps
<1>4. TypeOK'
  BY <1>1, <1>2 DEF TypeOK, Return, crm
<1>5. OverInv'
  BY <1>1 DEF TypeOK, OverInv, Return
<1>6. CardInv' /\ AcknowledgedIsDurable'
  BY <1>1 DEF CardInv, AcknowledgedIsDurable, crm
<1> QED
  BY <1>3, <1>4, <1>5, <1>6

(* The 200 comes after the last insert: the whole envelope has its rows.   *)
LEMMA AnswerKeeps ==
  ASSUME IInv, NEW h \in Handlers, Answer(h)
  PROVE  IInv'
<1> USE DEF IInv
<1>1. /\ pc[h] = "storing" /\ next[h] > Len(env[h])
      /\ UNCHANGED <<row, crm, orphans, repeats>>
  BY DEF Answer
<1>2. env[h] \in Envelopes /\ Len(env[h]) \in Nat /\ next[h] = Len(env[h]) + 1
  BY <1>1, EnvelopeFacts DEF RequestInv
<1>3. \A e \in EventsOf(env[h]) : row[e] # "none"
  <2> SUFFICES ASSUME NEW e \in EventsOf(env[h]) PROVE row[e] # "none"
    OBVIOUS
  <2>1. PICK i \in 1 .. Len(env[h]) : e = env[h][i]
    BY <1>2, EnvelopeFacts DEF EventsOf
  <2> QED
    BY <2>1, <1>2 DEF PassedInv
<1>4. /\ meta' = [meta EXCEPT ![env[h]] = "acked"] \/ UNCHANGED meta
      /\ mishaps' \in Nat
  BY DEF Answer, Mishap, TypeOK
<1>5. AcknowledgedIsDurable'
  BY <1>1, <1>2, <1>3, <1>4 DEF TypeOK, AcknowledgedIsDurable
<1>6. meta[env[h]] # "over"
  BY <1>1 DEF OverInv
<1>7. \A v \in Envelopes : meta'[v] = "over" <=> meta[v] = "over"
  BY <1>2, <1>4, <1>6 DEF TypeOK
<1>8. CASE pc' = [pc EXCEPT ![h] = "applying"] /\ UNCHANGED <<env, next, stored>>
  <2>1. TypeOK'
    BY <1>1, <1>4, <1>8 DEF TypeOK, crm
  <2>2. RequestInv' /\ PassedInv' /\ WonInv' /\ OwnedInv'
    BY <1>1, <1>8 DEF TypeOK, RequestInv, PassedInv, WonInv, OwnedInv
  <2>3. OverInv'
    <3>1. \A g \in Handlers : pc'[g] # "idle" => meta'[env'[g]] # "over"
      <4> SUFFICES ASSUME NEW g \in Handlers, pc'[g] # "idle"
                   PROVE  meta'[env[g]] # "over"
        BY <1>8
      <4>1. pc[g] # "idle"
        BY <1>1, <1>8 DEF TypeOK
      <4> QED
        BY <4>1, <1>7 DEF OverInv, RequestInv
    <3> QED
      BY <3>1, <1>1, <1>7 DEF OverInv
  <2>4. CardInv'
    BY <1>1 DEF CardInv, crm
  <2> QED
    BY <1>5, <2>1, <2>2, <2>3, <2>4
<1>9. CASE stored[h] = {} /\ Return(h)
  <2>1. TypeOK'
    BY <1>1, <1>4, <1>9 DEF TypeOK, crm, Return
  <2>2. Remembered(h) = {}
    BY <1>9 DEF Remembered
  <2>3. RequestInv' /\ PassedInv' /\ WonInv' /\ OwnedInv'
    BY <1>1, <1>9, <2>2, ReturnKeeps
  <2>4. OverInv'
    <3>1. \A g \in Handlers : pc'[g] # "idle" => meta'[env'[g]] # "over"
      <4> SUFFICES ASSUME NEW g \in Handlers, pc'[g] # "idle"
                   PROVE  meta'[env'[g]] # "over"
        OBVIOUS
      <4>1. g # h /\ pc[g] # "idle" /\ env'[g] = env[g]
        BY <1>9 DEF TypeOK, Return
      <4> QED
        BY <4>1, <1>7 DEF OverInv, RequestInv
    <3> QED
      BY <3>1, <1>1, <1>7 DEF OverInv
  <2>5. CardInv'
    BY <1>1 DEF CardInv, crm
  <2> QED
    BY <1>5, <2>1, <2>3, <2>4, <2>5
<1> QED
  BY <1>8, <1>9 DEF Answer

-----------------------------------------------------------------------------
(* Striking one won position from a request: what is left stays where it   *)
(* was, and a request left with nothing is idle again.                     *)
LEMMA ProceedFacts ==
  ASSUME IInv, NEW h \in Handlers, NEW i \in stored[h],
         Proceed(h, stored[h] \ {i})
  PROVE  /\ pc' \in [Handlers -> {"idle", "storing", "applying"}]
         /\ env' \in [Handlers -> Envelopes \cup {<<>>}]
         /\ next' \in [Handlers -> Nat] /\ stored' \in [Handlers -> SUBSET Nat]
         /\ stored'[h] = stored[h] \ {i}
         /\ \A g \in Handlers :
              /\ g # h => stored'[g] = stored[g]
              /\ stored'[g] # {} \/ g # h =>
                   pc'[g] = pc[g] /\ env'[g] = env[g] /\ next'[g] = next[g]
              /\ \/ pc'[g] = pc[g] /\ env'[g] = env[g] /\ next'[g] = next[g]
                 \/ /\ pc'[g] = "idle" /\ env'[g] = <<>> /\ next'[g] = 1
                    /\ stored'[g] = {}
         /\ RequestInv'
<1> USE DEF IInv
<1>1. CASE /\ stored[h] \ {i} # {}
           /\ stored' = [stored EXCEPT ![h] = stored[h] \ {i}]
           /\ UNCHANGED <<pc, env, next>>
  <2>1. RequestInv'
    BY <1>1 DEF TypeOK, RequestInv
  <2> QED
    BY <1>1, <2>1 DEF TypeOK
<1>2. CASE stored[h] \ {i} = {} /\ Return(h)
  <2>1. RequestInv'
    BY <1>2 DEF TypeOK, RequestInv, Return
  <2> QED
    BY <1>2, <2>1 DEF TypeOK, Return
<1> QED
  BY <1>1, <1>2 DEF Proceed

(* Whether an event is applied or its request gives up on it, its row is   *)
(* past "none", no envelope is over that was not, and the won rows are the *)
(* others.                                                                 *)
LEMMA StrikeKeeps ==
  ASSUME IInv, NEW h \in Handlers, NEW i \in stored[h],
         Proceed(h, stored[h] \ {i}), UNCHANGED <<meta>>,
         \/ row' = [row EXCEPT ![env[h][i]] = "processed"] /\ UNCHANGED orphans
         \/ UNCHANGED row /\ orphans' = orphans \cup {env[h][i]}
  PROVE  /\ RequestInv' /\ PassedInv' /\ WonInv' /\ OwnedInv' /\ OverInv'
         /\ AcknowledgedIsDurable'
<1> USE DEF IInv
<1> DEFINE e == env[h][i]
<1>1. i \in 1 .. next[h] - 1
  BY DEF RequestInv
<1>2. e \in Events
  BY <1>1, WonFacts
<1>3. row[e] = "stored" /\ e \notin orphans
  BY DEF OwnedInv
<1>4. row \in [Events -> {"none", "stored", "processed", "pruned"}]
  BY DEF TypeOK
<1>5. \A g \in Handlers : \A k \in stored[g] : env[g][k] = e => g = h /\ k = i
  BY DEF WonInv
<1>6. \A x \in Events : row'[x] # row[x] => x = e /\ row'[x] = "processed"
  BY <1>2, <1>4
<1>7. \A g \in Handlers : \A k \in stored'[g] :
        k \in stored[g] /\ env'[g] = env[g] /\ env[g][k] # e
  <2> SUFFICES ASSUME NEW g \in Handlers, NEW k \in stored'[g]
               PROVE  k \in stored[g] /\ env'[g] = env[g] /\ env[g][k] # e
    OBVIOUS
  <2>1. env'[g] = env[g]
    BY ProceedFacts
  <2>2. k \in stored[g] /\ ~(g = h /\ k = i)
    BY ProceedFacts
  <2> QED
    BY <2>1, <2>2, <1>5
<1>8. \A g \in Handlers : \A k \in stored[g] :
        (k \in stored'[g] /\ env'[g] = env[g]) \/ (g = h /\ k = i)
  <2> SUFFICES ASSUME NEW g \in Handlers, NEW k \in stored[g], ~(g = h /\ k = i)
               PROVE  k \in stored'[g] /\ env'[g] = env[g]
    OBVIOUS
  <2>1. k \in stored'[g]
    BY ProceedFacts
  <2> QED
    BY <2>1, ProceedFacts
<1>9. RequestInv'
  BY ProceedFacts
<1>10. PassedInv'
  <2> SUFFICES ASSUME NEW g \in Handlers, NEW k \in 1 .. next'[g] - 1
               PROVE  row'[env'[g][k]] # "none"
    BY DEF PassedInv
  <2>1. k \in 1 .. next[g] - 1 /\ env'[g] = env[g]
    <3>1. next'[g] # 1
      OBVIOUS
    <3>2. next'[g] = next[g] /\ env'[g] = env[g]
      BY <3>1, ProceedFacts
    <3> QED
      BY <3>2
  <2>2. env[g][k] \in Events /\ row[env[g][k]] # "none"
    BY <2>1, WonFacts DEF PassedInv
  <2> QED
    BY <2>1, <2>2, <1>6
<1>11. WonInv'
  BY <1>7 DEF WonInv
<1>12. OwnedInv'
  <2>1. \A x \in orphans' : row'[x] = "stored"
    BY <1>2, <1>3, <1>4 DEF OwnedInv, TypeOK
  <2>2. \A g \in Handlers : \A k \in stored'[g] :
          row'[env'[g][k]] = "stored" /\ env'[g][k] \notin orphans'
    <3> SUFFICES ASSUME NEW g \in Handlers, NEW k \in stored'[g]
                 PROVE  row'[env[g][k]] = "stored" /\ env[g][k] \notin orphans'
      BY <1>7
    <3>1. k \in stored[g] /\ env[g][k] # e
      BY <1>7
    <3>2. k \in 1 .. next[g] - 1
      BY <3>1 DEF RequestInv
    <3>3. env[g][k] \in Events
      BY <3>2, WonFacts
    <3>4. row[env[g][k]] = "stored" /\ env[g][k] \notin orphans
      BY <3>1 DEF OwnedInv
    <3> QED
      BY <3>1, <3>3, <3>4, <1>6
  <2>3. \A x \in Events : row'[x] = "stored" =>
          x \in orphans' \/ \E g \in Handlers : \E k \in stored'[g] : env'[g][k] = x
    <3> SUFFICES ASSUME NEW x \in Events, row'[x] = "stored", x \notin orphans'
                 PROVE  \E g \in Handlers : \E k \in stored'[g] : env'[g][k] = x
      OBVIOUS
    <3>1. x # e /\ row[x] = "stored" /\ x \notin orphans
      BY <1>2, <1>3, <1>4
    <3>2. PICK g \in Handlers : \E k \in stored[g] : env[g][k] = x
      BY <3>1 DEF OwnedInv
    <3>3. \A k \in stored[g] : env[g][k] = x => k \in stored'[g] /\ env'[g] = env[g]
      BY <3>1, <3>2, <1>8
    <3> QED
      BY <3>2, <3>3
  <2> QED
    BY <2>1, <2>2, <2>3 DEF OwnedInv
<1>13. OverInv'
  <2>1. \A g \in Handlers : pc'[g] # "idle" => meta'[env'[g]] # "over"
    BY ProceedFacts DEF OverInv
  <2>2. \A x \in Events : row'[x] = "pruned" => row[x] = "pruned"
    BY <1>6
  <2> QED
    BY <2>1, <2>2 DEF OverInv
<1>14. AcknowledgedIsDurable'
  <2>1. \A v \in Envelopes : EventsOf(v) \subseteq Events
    BY EnvelopeFacts DEF EventsOf
  <2> QED
    BY <2>1, <1>6 DEF AcknowledgedIsDurable
<1> QED
  BY <1>9, <1>10, <1>11, <1>12, <1>13, <1>14

(* Applying an event ends its row and writes at most one line: the message *)
(* was not on the card before, for its row was still "stored".             *)
LEMMA ApplyKeeps ==
  ASSUME IInv, NEW h \in Handlers, NEW i \in stored[h], Apply(h, i)
  PROVE  IInv'
<1> USE DEF IInv
<1> DEFINE e == env[h][i]
<1>1. /\ row' = [row EXCEPT ![e] = "processed"]
      /\ Proceed(h, stored[h] \ {i}) /\ UNCHANGED <<meta, orphans, mishaps, repeats>>
  BY DEF Apply
<1>2. RequestInv' /\ PassedInv' /\ WonInv' /\ OwnedInv' /\ OverInv' /\ AcknowledgedIsDurable'
  BY <1>1, StrikeKeeps
<1>3. i \in 1 .. next[h] - 1 /\ row[e] = "stored"
  BY DEF RequestInv, OwnedInv
<1>4. e \in Events
  BY <1>3, WonFacts
<1>5. CASE e \in Messages /\ ApplyMessage(e)
  <2>1. PICK line \in {0, 1} : card' = [card EXCEPT ![e] = @ + line]
    BY <1>5 DEF ApplyMessage
  <2>2. card[e] = 0
    BY <1>3, <1>5 DEF CardInv
  <2>3. card' \in [Messages -> Nat]
    BY <1>5, <2>1 DEF TypeOK
  <2>4. inbound' \in [Customers -> Nat] /\ thread' \subseteq Messages
        /\ timeline' = timeline
    BY <1>5, WebhookAssumption DEF ApplyMessage, TypeOK, WebhookAssumption
  <2>5. TypeOK'
    BY <1>1, <1>4, <2>3, <2>4, ProceedFacts DEF TypeOK
  <2>6. CardInv'
    BY <1>1, <1>4, <1>5, <2>1, <2>2 DEF TypeOK, CardInv, Events
  <2> QED
    BY <1>2, <2>5, <2>6
<1>6. CASE \/ e \in Statuses /\ ApplyStatus(e)
           \/ e \in Notices /\ UNCHANGED crm
  <2>1. e \notin Messages
    BY <1>6, WebhookAssumption DEF WebhookAssumption
  <2>2. /\ timeline' \in [Wamids -> {"absent"} \cup Reports]
        /\ UNCHANGED <<inbound, thread, card>>
    <3>1. CASE e \in Statuses /\ ApplyStatus(e)
      <4>1. Report[e] \in Reports
        BY <3>1, WebhookAssumption DEF WebhookAssumption
      <4>2. timeline \in [Wamids -> {"absent"} \cup Reports]
        BY DEF TypeOK
      <4>3. \A w \in Wamids : timeline'[w] \in {"absent"} \cup Reports
        BY <3>1, <4>1, <4>2 DEF ApplyStatus
      <4>4. timeline' = [w \in Wamids |-> timeline'[w]]
        BY <3>1 DEF ApplyStatus
      <4>5. timeline' \in [Wamids -> {"absent"} \cup Reports]
        BY <4>3, <4>4
      <4> QED
        BY <3>1, <4>5 DEF ApplyStatus
    <3>2. CASE e \in Notices /\ UNCHANGED crm
      BY <3>2 DEF TypeOK, crm
    <3> QED
      BY <1>6, <3>1, <3>2
  <2>3. TypeOK'
    BY <1>1, <1>4, <2>2, ProceedFacts DEF TypeOK
  <2>4. CardInv'
    BY <1>1, <1>4, <2>1, <2>2 DEF TypeOK, CardInv, Events
  <2> QED
    BY <1>2, <2>3, <2>4
<1> QED
  BY <1>5, <1>6 DEF Apply

(* An event that could not be applied is orphaned; the rest are not.       *)
LEMMA ApplyFailsKeeps ==
  ASSUME IInv, NEW h \in Handlers, NEW i \in stored[h], ApplyFails(h, i)
  PROVE  IInv'
<1> USE DEF IInv
<1>1. /\ Proceed(h, stored[h] \ {i}) /\ orphans' = orphans \cup {env[h][i]}
      /\ mishaps' \in Nat /\ UNCHANGED <<row, crm, meta, repeats>>
  BY DEF ApplyFails, Left, Mishap, TypeOK
<1>2. RequestInv' /\ PassedInv' /\ WonInv' /\ OwnedInv' /\ OverInv' /\ AcknowledgedIsDurable'
  BY <1>1, StrikeKeeps
<1>3. i \in 1 .. next[h] - 1
  BY DEF RequestInv
<1>4. TypeOK'
  BY <1>1, <1>3, WonFacts, ProceedFacts DEF TypeOK, crm
<1>5. CardInv'
  BY <1>1 DEF CardInv, crm
<1> QED
  BY <1>2, <1>4, <1>5

(* The worker and the clocks: a row for a sent message, an envelope Meta   *)
(* gives up, an old processed row.                                         *)
LEMMA OthersKeep ==
  ASSUME IInv, \/ \E w \in Wamids : RecordSent(w)
               \/ \E v \in Envelopes : Expire(v)
               \/ \E e \in Events : Prune(e)
  PROVE  IInv'
<1> USE DEF IInv
<1>1. ASSUME NEW w \in Wamids, RecordSent(w) PROVE IInv'
  <2>1. TypeOK'
    BY <1>1 DEF RecordSent, TypeOK, handlers, Reports
  <2>2. RequestInv' /\ PassedInv' /\ WonInv' /\ OwnedInv' /\ OverInv'
    BY <1>1 DEF RecordSent, handlers, RequestInv, PassedInv, WonInv, OwnedInv, OverInv
  <2>3. CardInv' /\ AcknowledgedIsDurable'
    BY <1>1 DEF RecordSent, CardInv, AcknowledgedIsDurable
  <2> QED
    BY <2>1, <2>2, <2>3
<1>2. ASSUME NEW v \in Envelopes, Expire(v) PROVE IInv'
  <2>1. /\ meta' = [meta EXCEPT ![v] = "over"] /\ meta[v] = "acked"
        /\ UNCHANGED <<row, pc, env, next, stored, crm, orphans, mishaps, repeats>>
    BY <1>2 DEF Expire, handlers
  <2>2. \A h \in Handlers : pc[h] # "idle" => env[h] # v
    BY <1>2 DEF Expire, InFlight
  <2>3. TypeOK'
    BY <2>1 DEF TypeOK, crm
  <2>4. RequestInv' /\ PassedInv' /\ WonInv' /\ OwnedInv'
    BY <2>1 DEF RequestInv, PassedInv, WonInv, OwnedInv
  <2>5. OverInv'
    BY <2>1, <2>2 DEF TypeOK, OverInv, RequestInv
  <2>6. CardInv' /\ AcknowledgedIsDurable'
    BY <2>1 DEF TypeOK, CardInv, AcknowledgedIsDurable, crm
  <2> QED
    BY <2>3, <2>4, <2>5, <2>6
<1>3. ASSUME NEW e \in Events, Prune(e) PROVE IInv'
  <2>1. /\ row' = [row EXCEPT ![e] = "pruned"] /\ row[e] = "processed"
        /\ \A v \in Envelopes : e \in EventsOf(v) => meta[v] = "over"
        /\ UNCHANGED <<pc, env, next, stored, crm, meta, orphans, mishaps, repeats>>
    BY <1>3 DEF Prune, Prunable, handlers
  <2>2. TypeOK'
    BY <2>1 DEF TypeOK, crm
  <2>3. RequestInv' /\ WonInv'
    BY <2>1 DEF RequestInv, WonInv
  <2>4. PassedInv' /\ OwnedInv'
    BY <2>1 DEF TypeOK, PassedInv, OwnedInv
  <2>5. OverInv'
    BY <2>1 DEF TypeOK, OverInv
  <2>6. CardInv'
    BY <2>1 DEF TypeOK, CardInv, crm, Events
  <2>7. AcknowledgedIsDurable'
    BY <2>1 DEF TypeOK, AcknowledgedIsDurable
  <2> QED
    BY <2>2, <2>3, <2>4, <2>5, <2>6, <2>7
<1> QED
  BY <1>1, <1>2, <1>3

(* Every step keeps the inductive invariant.                               *)
LEMMA NextIInv == IInv /\ [Next]_vars => IInv'
<1> SUFFICES ASSUME IInv, [Next]_vars PROVE IInv'
  OBVIOUS
<1>1. CASE UNCHANGED vars
  BY <1>1 DEF IInv, vars, handlers, crm, TypeOK, RequestInv, PassedInv, WonInv,
              OwnedInv, OverInv, CardInv, AcknowledgedIsDurable
<1>2. CASE Next
  BY <1>2, DeliverKeeps, StoreKeeps, StoreFailsKeeps, AnswerKeeps, CrashKeeps,
     ApplyKeeps, ApplyFailsKeeps, OthersKeep DEF Next
<1> QED
  BY <1>1, <1>2

(* The inductive invariant holds throughout.                               *)
LEMMA Inductive == Spec => []IInv
  BY InitIInv, NextIInv, PTL DEF Spec

-----------------------------------------------------------------------------
(* Every variable keeps its type.                                          *)
THEOREM TypeCorrect == Spec => []TypeOK
  BY Inductive, PTL DEF IInv

(* No message is on the lead's card twice, however often it is delivered   *)
(* and however its requests interleave, fail and die (webhook.ts, route.ts).*)
THEOREM CardWrittenOnce == Spec => []OnCardOnce
<1>1. IInv => OnCardOnce
  BY DEF IInv, CardInv, OnCardOnce
<1> QED
  BY <1>1, Inductive, PTL

(* What Meta was told is ours has its row: the 200 follows the inserts.    *)
THEOREM AnswerComesLast == Spec => []AcknowledgedIsDurable
  BY Inductive, PTL DEF IInv

(* An unprocessed row is the work of exactly one request, or a failure     *)
(* took that request away: no event is applied by two, and none is lost    *)
(* without one.                                                            *)
THEOREM OneRequestPerEvent == Spec => []UnprocessedIsOwned
<1>1. IInv => UnprocessedIsOwned
  <2> SUFFICES ASSUME IInv, NEW e \in Events
               PROVE  IF row[e] = "stored"
                      THEN \/ e \in orphans /\ Owners(e) = {}
                           \/ e \notin orphans /\ \E h \in Handlers : Owners(e) = {h}
                      ELSE Owners(e) = {} /\ e \notin orphans
    BY DEF UnprocessedIsOwned
  <2>1. \A h \in Handlers : h \in Owners(e) <=> \E i \in stored[h] : env[h][i] = e
    BY DEF Owners, Remembered
  <2>2. Owners(e) \subseteq Handlers
    BY DEF Owners
  <2>3. CASE row[e] # "stored"
    BY <2>1, <2>2, <2>3 DEF IInv, OwnedInv
  <2>4. CASE row[e] = "stored" /\ e \in orphans
    BY <2>1, <2>2, <2>4 DEF IInv, OwnedInv
  <2>5. CASE row[e] = "stored" /\ e \notin orphans
    <3>1. PICK h \in Handlers : \E i \in stored[h] : env[h][i] = e
      BY <2>5 DEF IInv, OwnedInv
    <3>2. \A g \in Owners(e) : g = h
      BY <2>1, <2>2, <3>1 DEF IInv, WonInv
    <3>3. Owners(e) = {h}
      BY <2>1, <2>2, <3>1, <3>2
    <3> QED
      BY <2>5, <3>3
  <2> QED
    BY <2>3, <2>4, <2>5
<1> QED
  BY <1>1, Inductive, PTL

-----------------------------------------------------------------------------
(***************************************************************************)
(* Webhook implements Inbox: an insert that wins is Keep, an event applied *)
(* is Do, a failure is Lose of what its request remembered, the 200 that   *)
(* Meta sees is Acknowledge. That Keep never takes in a pruned event again *)
(* is OverInv; that nothing done is lost or done again is OwnedInv.        *)
(***************************************************************************)
Acked == {v \in Envelopes : meta[v] # "owed"}

LEMMA FateFacts ==
  ASSUME IInv, NEW e \in Events
  PROVE  /\ Fate(e) = "unknown" <=> row[e] = "none"
         /\ Fate(e) = "kept" <=> row[e] = "stored" /\ e \notin orphans
         /\ Fate(e) \in {"unknown", "kept", "lost", "done"}
  BY DEF IInv, TypeOK, Fate

(* What a request remembers is kept.                                       *)
LEMMA RememberedIsKept ==
  ASSUME IInv, NEW h \in Handlers
  PROVE  /\ Remembered(h) \subseteq Events
         /\ \A e \in Remembered(h) : row[e] = "stored" /\ Fate(e) = "kept"
<1>1. ASSUME NEW i \in stored[h]
      PROVE  env[h][i] \in Events /\ row[env[h][i]] = "stored" /\ env[h][i] \notin orphans
  <2>1. i \in 1 .. next[h] - 1
    BY DEF IInv, RequestInv
  <2>2. env[h][i] \in Events
    BY <2>1, WonFacts DEF IInv
  <2> QED
    BY <2>2 DEF IInv, OwnedInv
<1> QED
  BY <1>1, FateFacts DEF Remembered

(* A step that leaves every fate, the acknowledgements and the messages    *)
(* alone is invisible.                                                     *)
LEMMA InvisibleMail ==
  ASSUME \A e \in Events : Fate(e)' = Fate(e), Acked' = Acked, UNCHANGED <<thread, card>>
  PROVE  UNCHANGED Mail!inboxVars
  BY DEF Mail!inboxVars, Acked

(* A failure that takes some events away is Lose.                          *)
LEMMA MailIsLost ==
  ASSUME NEW S \in SUBSET Events, \A e \in S : Fate(e) \in {"unknown", "kept"},
         \A d, e \in S : Fate(d) = "unknown" /\ Fate(e) = "unknown" => d = e,
         \A e \in Events : Fate(e)' = IF e \in S THEN "lost" ELSE Fate(e),
         Acked' = Acked, UNCHANGED <<thread, card>>
  PROVE  Mail!Next
<1>1. Mail!Lose(S)
  BY DEF Mail!Lose, Acked
<1> QED
  BY <1>1 DEF Mail!Next

(* An insert that wins takes the event in; another changes nothing.        *)
LEMMA StoreIsKeep ==
  ASSUME IInv, NEW h \in Handlers, Store(h)
  PROVE  Mail!Next \/ UNCHANGED Mail!inboxVars
<1>1. PICK e \in Events : e = env[h][next[h]] /\ row[e] # "pruned"
  BY InHand DEF Store
<1>2. Acked' = Acked /\ UNCHANGED <<thread, card, orphans>>
  BY DEF Store, Acked, crm
<1>3. CASE row' = row
  BY <1>2, <1>3, InvisibleMail DEF Fate
<1>4. CASE Fresh(e) /\ row' = [row EXCEPT ![e] = "stored"]
  <2>1. row[e] = "none" /\ e \notin orphans
    BY <1>1, <1>4 DEF Fresh, IInv, OwnedInv
  <2>2. row'[e] = "stored" /\ \A d \in Events : d # e => row'[d] = row[d]
    BY <1>4 DEF IInv, TypeOK
  <2>3. Fate(e) = "unknown" /\ Fate(e)' = "kept"
    BY <1>2, <2>1, <2>2 DEF Fate
  <2>4. \A d \in Events : d # e => Fate(d)' = Fate(d)
    BY <1>2, <2>2 DEF Fate
  <2>5. Mail!Keep(e)
    BY <1>2, <2>3, <2>4 DEF Mail!Keep, Acked
  <2> QED
    BY <2>5 DEF Mail!Next
<1> QED
  BY <1>1, <1>3, <1>4 DEF Store

(* A request that dies while inserting loses what it remembers, and at     *)
(* most the event of this insert besides.                                  *)
LEMMA FailureIsLose ==
  ASSUME IInv, NEW h \in Handlers, StoreFails(h) \/ Crash(h)
  PROVE  Mail!Next
<1>1. PICK S : S = Remembered(h)
  OBVIOUS
<1>2. S \subseteq Events /\ \A e \in S : row[e] = "stored" /\ Fate(e) = "kept"
  BY <1>1, RememberedIsKept
<1>3. Acked' = Acked /\ UNCHANGED <<thread, card>>
  BY DEF StoreFails, Crash, Acked, crm
<1>4. CASE row' = row /\ orphans' = orphans \cup S
  <2>1. \A e \in Events : Fate(e)' = IF e \in S THEN "lost" ELSE Fate(e)
    BY <1>2, <1>4 DEF Fate, IInv, TypeOK
  <2> QED
    BY <1>2, <1>3, <2>1, MailIsLost
<1>5. ASSUME NEW e \in Events, Fresh(e), row[e] # "pruned",
             row' = [row EXCEPT ![e] = "stored"], orphans' = orphans \cup S \cup {e}
      PROVE  Mail!Next
  <2>1. row[e] = "none"
    BY <1>5 DEF Fresh
  <2>2. row'[e] = "stored" /\ \A d \in Events : d # e => row'[d] = row[d]
    BY <1>5 DEF IInv, TypeOK
  <2>3. Fate(e) = "unknown"
    BY <2>1 DEF Fate
  <2>4. \A d \in Events : Fate(d)' = IF d \in S \cup {e} THEN "lost" ELSE Fate(d)
    BY <1>2, <1>5, <2>2 DEF Fate, IInv, TypeOK
  <2>5. \A c, d \in S \cup {e} : Fate(c) = "unknown" /\ Fate(d) = "unknown" => c = d
    BY <1>2
  <2> QED
    BY <1>2, <1>3, <2>3, <2>4, <2>5, MailIsLost
<1>6. CASE Crash(h)
  BY <1>1, <1>4, <1>6 DEF Crash
<1>7. CASE StoreFails(h)
  <2>1. PICK e \in Events : e = env[h][next[h]] /\ row[e] # "pruned"
    BY <1>7, InHand DEF StoreFails
  <2> QED
    BY <1>1, <1>4, <1>5, <1>7, <2>1 DEF StoreFails
<1> QED
  BY <1>6, <1>7

(* Applying does what was kept; a failure to apply loses it.               *)
LEMMA ApplyIsDo ==
  ASSUME IInv, NEW h \in Handlers, NEW i \in stored[h], Apply(h, i) \/ ApplyFails(h, i)
  PROVE  Mail!Next
<1>1. PICK e \in Events : e = env[h][i] /\ row[e] = "stored" /\ e \notin orphans
  <2>1. env[h][i] \in Remembered(h)
    BY DEF Remembered
  <2> QED
    BY <2>1, RememberedIsKept, FateFacts
<1>2. Acked' = Acked /\ Fate(e) = "kept"
  BY <1>1, FateFacts DEF Apply, ApplyFails, Acked
<1>3. CASE ApplyFails(h, i)
  <2>1. UNCHANGED <<thread, card, row>> /\ orphans' = orphans \cup {e}
    BY <1>1, <1>3 DEF ApplyFails, crm
  <2>2. \A d \in Events : Fate(d)' = IF d \in {e} THEN "lost" ELSE Fate(d)
    BY <1>1, <2>1 DEF Fate, IInv, TypeOK
  <2> QED
    BY <1>2, <2>1, <2>2, MailIsLost
<1>4. CASE Apply(h, i)
  <2>1. row' = [row EXCEPT ![e] = "processed"] /\ orphans' = orphans
    BY <1>1, <1>4 DEF Apply
  <2>2. Fate(e)' = "done" /\ \A d \in Events : d # e => Fate(d)' = Fate(d)
    BY <2>1 DEF Fate, IInv, TypeOK
  <2>3. IF e \in Messages
        THEN thread' = thread \cup {e} /\ \E n \in {0, 1} : card' = [card EXCEPT ![e] = @ + n]
        ELSE UNCHANGED <<thread, card>>
    BY <1>1, <1>4, WebhookAssumption
    DEF Apply, ApplyMessage, ApplyStatus, crm
  <2>4. Mail!Do(e)
    BY <1>2, <2>2, <2>3 DEF Mail!Do, Acked
  <2> QED
    BY <2>4 DEF Mail!Next
<1> QED
  BY <1>3, <1>4

(* The 200 comes when the request has passed every event of its envelope.  *)
LEMMA AnswerIsAcknowledge ==
  ASSUME IInv, IInv', NEW h \in Handlers, Answer(h)
  PROVE  Mail!Next \/ UNCHANGED Mail!inboxVars
<1>1. /\ UNCHANGED <<row, orphans, thread, card>>
      /\ meta' = meta \/ meta' = [meta EXCEPT ![env[h]] = "acked"]
  BY DEF Answer, crm
<1>2. \A e \in Events : Fate(e)' = Fate(e)
  BY <1>1 DEF Fate
<1>3. CASE meta' = meta
  BY <1>1, <1>2, <1>3, InvisibleMail DEF Acked
<1>4. CASE meta' = [meta EXCEPT ![env[h]] = "acked"]
  <2>1. PICK v \in Envelopes : v = env[h]
    BY DEF Answer, IInv, RequestInv
  <2>2. Acked' = Acked \cup {v}
    BY <1>4, <2>1 DEF Acked, IInv, TypeOK
  <2>3. \A e \in EventsOf(v) : e \in Events /\ row[e] # "none"
    <3>1. \A e \in EventsOf(v) : row[e] # "none"
      BY <1>1, <2>2 DEF Acked, IInv, AcknowledgedIsDurable
    <3>2. EventsOf(v) \subseteq Events
      BY EnvelopeFacts DEF EventsOf
    <3> QED
      BY <3>1, <3>2
  <2>4. \A e \in EventsOf(v) : Fate(e) # "unknown"
    BY <2>3, FateFacts
  <2>5. Mail!Acknowledge(v)
    BY <1>1, <1>2, <2>2, <2>3, <2>4 DEF Mail!Acknowledge, Acked
  <2> QED
    BY <2>5 DEF Mail!Next
<1> QED
  BY <1>1, <1>3, <1>4

(* Every step is one of Inbox, or invisible to it.                         *)
LEMMA MailStep == IInv /\ IInv' /\ [Next]_vars => [Mail!Next]_(Mail!inboxVars)
<1> SUFFICES ASSUME IInv, IInv', [Next]_vars
             PROVE  Mail!Next \/ UNCHANGED Mail!inboxVars
  OBVIOUS
<1>1. ASSUME UNCHANGED <<row, orphans, thread, card>>, Acked' = Acked
      PROVE  UNCHANGED Mail!inboxVars
  BY <1>1, InvisibleMail DEF Fate
<1>2. ASSUME \/ \E h \in Handlers, v \in Envelopes : Deliver(h, v)
             \/ \E w \in Wamids : RecordSent(w)
             \/ UNCHANGED vars
      PROVE  UNCHANGED Mail!inboxVars
  BY <1>1, <1>2 DEF Deliver, RecordSent, vars, crm, Acked
<1>3. ASSUME NEW v \in Envelopes, Expire(v)
      PROVE  UNCHANGED Mail!inboxVars
  BY <1>1, <1>3 DEF Expire, crm, Acked, IInv, TypeOK
<1>4. ASSUME NEW e \in Events, Prune(e)
      PROVE  UNCHANGED Mail!inboxVars
  <2>1. row' = [row EXCEPT ![e] = "pruned"] /\ row[e] = "processed"
        /\ UNCHANGED <<orphans, thread, card, meta>>
    BY <1>4 DEF Prune, Prunable, crm
  <2>2. \A d \in Events : Fate(d)' = Fate(d)
    BY <2>1 DEF Fate, IInv, TypeOK
  <2> QED
    BY <2>1, <2>2, InvisibleMail DEF Acked
<1> QED
  BY <1>2, <1>3, <1>4, StoreIsKeep, FailureIsLose, ApplyIsDo, AnswerIsAcknowledge DEF Next

(* The webhook is an inbox: each event is taken in once and done once,     *)
(* whatever is redelivered, lost or pruned, and a post is acknowledged     *)
(* only when all of it was taken in (route.ts, webhook.ts, outbox-worker). *)
THEOREM InboxImplemented == Spec => ImplementsInbox
<1>1. Init => Mail!Init
  BY DEF Init, Mail!Init, Fate
<1> QED
  BY <1>1, Inductive, MailStep, PTL DEF Spec, ImplementsInbox, Mail!Spec
=============================================================================
