-------------------------------- MODULE Inbox --------------------------------
(***************************************************************************)
(* What the webhook promises about Meta's events, without requests, rows   *)
(* and redeliveries (api/whatsapp/webhook/route.ts and applyEvent in       *)
(* lib/whatsapp/webhook.ts): an event is taken in once and done once, for  *)
(* ever, even after its row was pruned; a post is acknowledged only when   *)
(* all its events were taken in; a message enters the conversation, and    *)
(* its line a lead's card, in the one step that does it.                   *)
(***************************************************************************)
EXTENDS Naturals

CONSTANTS Events, Letters,  \* of the events, those that are messages
          Posts, Within     \* what Meta sends, and the events of each

VARIABLES fate,    \* per event: "unknown", "kept", "done", or "lost"
          acked,   \* posts Meta was told are ours
          thread,  \* messages in a conversation
          lines    \* per message: its lines on lead cards

inboxVars == <<fate, acked, thread, lines>>

Init == /\ fate = [e \in Events |-> "unknown"]
        /\ acked = {} /\ thread = {} /\ lines = [m \in Letters |-> 0]

Keep(e) ==
  /\ fate[e] = "unknown" /\ fate' = [fate EXCEPT ![e] = "kept"]
  /\ UNCHANGED <<acked, thread, lines>>

(* A message leaves a line if its sender has a lead.                       *)
Do(e) ==
  /\ fate[e] = "kept" /\ fate' = [fate EXCEPT ![e] = "done"]
  /\ IF e \in Letters
     THEN /\ thread' = thread \union {e}
          /\ \E n \in {0, 1} : lines' = [lines EXCEPT ![e] = @ + n]
     ELSE UNCHANGED <<thread, lines>>
  /\ UNCHANGED acked

(* A failure takes events away from whoever was to do them, one of them    *)
(* perhaps in the moment it was taken in.                                  *)
Lose(S) ==
  /\ \A e \in S : fate[e] \in {"unknown", "kept"}
  /\ \A d, e \in S : fate[d] = "unknown" /\ fate[e] = "unknown" => d = e
  /\ fate' = [e \in Events |-> IF e \in S THEN "lost" ELSE fate[e]]
  /\ UNCHANGED <<acked, thread, lines>>

Acknowledge(p) ==
  /\ \A e \in Within[p] : fate[e] # "unknown"
  /\ acked' = acked \union {p} /\ UNCHANGED <<fate, thread, lines>>

Next == \/ \E e \in Events : Keep(e) \/ Do(e)
        \/ \E S \in SUBSET Events : Lose(S)
        \/ \E p \in Posts : Acknowledge(p)

Spec == Init /\ [][Next]_inboxVars
=============================================================================
