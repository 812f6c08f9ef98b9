------------------------------ MODULE WorkQueue ------------------------------
(***************************************************************************)
(* What the outbox promises as a queue ("each row goes to exactly one of   *)
(* [the workers] and nobody waits on a lock", claimBatch in                *)
(* worker/outbox-worker.ts): an item is out to at most one taker at a      *)
(* time, an item whose taker vanished can be taken again, and only a human *)
(* puts a finished item back.                                              *)
(***************************************************************************)
EXTENDS FiniteSets

CONSTANTS Items, Takers

VARIABLES phase,   \* per item: "absent", "queued", "out" or "done"
          takers   \* per item: who works on it

queueVars == <<phase, takers>>

Init == /\ phase = [i \in Items |-> "absent"]
        /\ takers = [i \in Items |-> {}]

Put(i) == /\ phase[i] = "absent"
          /\ phase' = [phase EXCEPT ![i] = "queued"]
          /\ UNCHANGED takers

(* A taker takes items nobody works on, those of a vanished one included.  *)
Take(t, S) ==
  /\ \A i \in S : takers[i] = {} /\ phase[i] \in {"queued", "out"}
  /\ phase' = [i \in Items |-> IF i \in S THEN "out" ELSE phase[i]]
  /\ takers' = [i \in Items |-> IF i \in S THEN {t} ELSE takers[i]]

(* The taker of an item finishes with it or gives it back for a retry.     *)
Return(t, i) ==
  /\ takers[i] = {t}
  /\ \E p \in {"queued", "done"} : phase' = [phase EXCEPT ![i] = p]
  /\ takers' = [takers EXCEPT ![i] = {}]

(* A taker loses some of its items, which stay out unless withdrawn.       *)
Lose(t, S) ==
  /\ \A i \in S : takers[i] = {t}
  /\ \E D \in SUBSET S :
       phase' = [i \in Items |-> IF i \in D THEN "done" ELSE phase[i]]
  /\ takers' = [i \in Items |-> IF i \in S THEN {} ELSE takers[i]]

(* A human takes out an item nobody works on, or puts a done one back.     *)
Withdraw(i) ==
  /\ takers[i] = {} /\ phase[i] \in {"queued", "out"}
  /\ phase' = [phase EXCEPT ![i] = "done"]
  /\ UNCHANGED takers

Reopen(i) ==
  /\ takers[i] = {} /\ phase[i] = "done"
  /\ phase' = [phase EXCEPT ![i] = "queued"]
  /\ UNCHANGED takers

Next ==
  \/ \E i \in Items : Put(i) \/ Withdraw(i) \/ Reopen(i)
  \/ \E t \in Takers, S \in SUBSET Items : Take(t, S) \/ Lose(t, S)
  \/ \E t \in Takers, i \in Items : Return(t, i)

Spec == Init /\ [][Next]_queueVars
=============================================================================
