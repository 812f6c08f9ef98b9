-------------------------------- MODULE Crm --------------------------------
(***************************************************************************)
(* How an enquiry becomes a lead (features/leads/actions.ts), and what the *)
(* panel does meanwhile to the lead (_actions/leads.ts), to the stages of  *)
(* the pipeline (_actions/pipeline.ts) and to the card of the customer     *)
(* (_actions/contacts.ts).                                                 *)
(*                                                                         *)
(* submitLead is one READ COMMITTED transaction. It holds the row of its   *)
(* idempotency key and, from the upsert on, the row of the contact; each   *)
(* SELECT sees what is committed at that moment. The panel's actions read, *)
(* decide, and write later by id.                                          *)
(***************************************************************************)
EXTENDS Naturals, FiniteSets

CONSTANTS Attempts,     \* POSTs of the lead form, retries included
          Keys,         \* idempotency keys, one per rendered form
          Phones,       \* customers; contacts_phone_uq makes a card of each
          KeyOf,        \* the key an attempt carries
          PhoneOf,      \* the phone it carries
          Stages, Entry,\* lead_statuses, and the seeded entry point
          NoStage, NoPhone,
          Admins,       \* concurrent server actions of the panel
          MaxDecisions  \* bound: decisions taken in the panel

ASSUME CrmAssumption ==
  /\ KeyOf \in [Attempts -> Keys] /\ PhoneOf \in [Attempts -> Phones]
  /\ NoStage \notin Stages /\ NoPhone \notin Phones
  /\ Entry \in Stages /\ MaxDecisions \in Nat

VARIABLES
  pc,      \* where an attempt is in submitLead
  tx,      \* what its transaction has read
  gate,    \* form_submissions by key: "free", "held" by an open tx, "taken"
  lead,    \* the lead an attempt made
  card,    \* contacts: "none", "live", "archived", "gone"
  board,   \* lead_statuses: "absent", "active", "archived"
  entry,   \* the stage with is_default_entry (a unique index allows one)
  session  \* what a server action of the panel decided, and on what

VARIABLES   \* history
  decisions,
  misplaced,  \* leads put on a stage that was leaving the board
  stranded,   \* leads put before staff while their card was being removed
  misentered, \* was the entry point set on a stage that was leaving?
  carried     \* leads a merge took to another card

intake   == <<pc, tx, gate>>
pipeline == <<board, entry>>
history  == <<misplaced, stranded, misentered, carried>>
vars == <<intake, lead, card, pipeline, session, decisions, history>>

Nobody == [op |-> "none"]
Unread == [stage |-> NoStage, repeat |-> FALSE]
NoLead == [on |-> NoPhone, stage |-> NoStage, state |-> "none", repeat |-> FALSE]

Init ==
  /\ pc = [a \in Attempts |-> "idle"]
  /\ tx = [a \in Attempts |-> Unread]
  /\ gate = [k \in Keys |-> "free"]
  /\ lead = [a \in Attempts |-> NoLead]
  /\ card = [p \in Phones |-> "none"]
  /\ board \in [Stages -> {"absent", "active"}] /\ board[Entry] = "active"
  /\ entry = Entry
  /\ session = [d \in Admins |-> Nobody]
  /\ decisions = 0
  /\ misplaced = {} /\ stranded = {} /\ carried = {} /\ misentered = FALSE

Kept(a)   == lead[a].state \in {"open", "archived"}
LeadsOf(p) == {a \in Attempts : Kept(a) /\ lead[a].on = p}

(* A stage that is off the board or about to be, a card likewise.          *)
Leaving(x) == \/ board[x] = "archived"
              \/ \E d \in Admins : /\ session[d].op = "archiveStage"
                                   /\ session[d].stage = x
Removing(p) == \/ card[p] = "gone"
               \/ \E d \in Admins :
                    /\ session[d].op \in {"merge", "moving", "deleteContact"}
                    /\ session[d].card = p

Mark(set, leads, bad) == IF bad THEN set \union leads ELSE set \ leads
-----------------------------------------------------------------------------
(* submitLead. An insert waits for a transaction that holds the same key   *)
(* and then conflicts. Slip: a SELECT before the INSERT, which waits for   *)
(* nobody.                                                                 *)
SeesNoRow(k) == gate[k] # "taken"
GateOpen(k) == gate[k] = "free"

(* The rate limiter, counted before the gate, may refuse any attempt.      *)
Refuse(a) ==
  /\ pc[a] = "idle"
  /\ pc' = [pc EXCEPT ![a] = "refused"]
  /\ UNCHANGED <<tx, gate, lead, card, pipeline, session, decisions, history>>

Gate(a) ==
  /\ pc[a] = "idle" /\ GateOpen(KeyOf[a])
  /\ pc' = [pc EXCEPT ![a] = "gated"]
  /\ gate' = [gate EXCEPT ![KeyOf[a]] = "held"]
  /\ UNCHANGED <<tx, lead, card, pipeline, session, decisions, history>>

Replay(a) ==
  /\ pc[a] = "idle" /\ gate[KeyOf[a]] = "taken"
  /\ pc' = [pc EXCEPT ![a] = "accepted"]
  /\ UNCHANGED <<tx, gate, lead, card, pipeline, session, decisions, history>>

(* The upsert locks the contact until the transaction ends. Slip: finding  *)
(* the contact with a plain SELECT.                                        *)
Locks(p) == {a \in Attempts : /\ pc[a] \in {"upserted", "staged", "checked"}
                              /\ PhoneOf[a] = p}
CardSeen(p) == TRUE
CardFree(p) == Locks(p) = {}

Upsert(a) ==
  /\ pc[a] = "gated" /\ CardFree(PhoneOf[a])
  /\ pc' = [pc EXCEPT ![a] = "upserted"]
  /\ UNCHANGED <<tx, gate, lead, card, pipeline, session, decisions, history>>

ReadEntry(a) ==
  /\ pc[a] = "upserted" /\ entry # NoStage
  /\ pc' = [pc EXCEPT ![a] = "staged"]
  /\ tx' = [tx EXCEPT ![a].stage = entry]
  /\ UNCHANGED <<gate, lead, card, pipeline, session, decisions, history>>

ReadRecent(a) ==
  /\ pc[a] = "staged"
  /\ pc' = [pc EXCEPT ![a] = "checked"]
  /\ tx' = [tx EXCEPT ![a].repeat = LeadsOf(PhoneOf[a]) # {}]
  /\ UNCHANGED <<gate, lead, card, pipeline, session, decisions, history>>

(* The upsert never clears deleted_at. The answer may be lost on the way.  *)
Commit(a) ==
  LET p == PhoneOf[a] IN
  /\ pc[a] = "checked"
  /\ \E result \in {"accepted", "failed"} : pc' = [pc EXCEPT ![a] = result]
  /\ gate' = [gate EXCEPT ![KeyOf[a]] = "taken"]
  /\ lead' = [lead EXCEPT ![a] = [on |-> p, stage |-> tx[a].stage,
                                  state |-> "open", repeat |-> tx[a].repeat]]
  /\ card' = [card EXCEPT ![p] = IF @ = "none" THEN "live" ELSE @]
  /\ misplaced' = Mark(misplaced, {a}, Leaving(tx[a].stage))
  /\ stranded' = Mark(stranded, {a}, Removing(p))
  /\ tx' = [tx EXCEPT ![a] = Unread]
  /\ UNCHANGED <<pipeline, session, decisions, misentered, carried>>

(* Any statement may throw, as the one after ReadEntry does without an     *)
(* entry point, and the server may die: nothing of the transaction stays.  *)
(* Slips: a gate committed in a statement of its own, or marked failed.    *)
GateFailed(k) == "failed"
GateStays(k) == "taken"
AfterAbort(k) == "free"

Abort(a) ==
  /\ pc[a] \in {"gated", "upserted", "staged", "checked"}
  /\ pc' = [pc EXCEPT ![a] = "failed"]
  /\ gate' = [gate EXCEPT ![KeyOf[a]] = AfterAbort(KeyOf[a])]
  /\ tx' = [tx EXCEPT ![a] = Unread]
  /\ UNCHANGED <<lead, card, pipeline, session, decisions, history>>

-----------------------------------------------------------------------------
Decide(d, decision) ==
  /\ session[d] = Nobody /\ decisions < MaxDecisions
  /\ decisions' = decisions + 1
  /\ session' = [session EXCEPT ![d] = decision]
  /\ UNCHANGED <<intake, lead, card, pipeline, history>>

Once == decisions < MaxDecisions /\ decisions' = decisions + 1

Done(d) == session' = [session EXCEPT ![d] = Nobody] /\ UNCHANGED decisions

(* The server dies, a statement fails, or the database breaks a deadlock   *)
(* between two merges: the transaction leaves nothing.                     *)
GiveUp(d) ==
  /\ session[d] # Nobody
  /\ Done(d) /\ UNCHANGED <<intake, lead, card, pipeline, history>>

(* archiveLead and restoreLead test and write the same column.             *)
ArchiveLead(a) ==
  /\ Once /\ lead[a].state = "open"
  /\ lead' = [lead EXCEPT ![a].state = "archived"]
  /\ UNCHANGED <<intake, card, pipeline, session, history>>

RestoreLead(a) ==
  /\ Once /\ lead[a].state = "archived"
  /\ lead' = [lead EXCEPT ![a].state = "open"]
  /\ stranded' = Mark(stranded, {a}, Removing(lead[a].on))
  /\ UNCHANGED <<intake, card, pipeline, session, misplaced, misentered,
                 carried>>

DecideDelete(d, a) ==
  /\ lead[a].state = "archived"
  /\ Decide(d, [op |-> "deleteLead", lead |-> a])

DeleteLead(d) ==
  /\ session[d].op = "deleteLead"
  /\ lead' = [lead EXCEPT ![session[d].lead].state = "deleted"]
  /\ Done(d) /\ UNCHANGED <<intake, card, pipeline, history>>

DecideStatus(d, a, x) ==
  /\ Kept(a) /\ lead[a].stage # x /\ board[x] = "active"
  /\ Decide(d, [op |-> "status", lead |-> a, stage |-> x])

ChangeLeadStatus(d) ==
  LET a == session[d].lead
      x == session[d].stage
  IN
  /\ session[d].op = "status"
  /\ lead' = [lead EXCEPT ![a].stage = x]
  /\ misplaced' = Mark(misplaced, {a}, Leaving(x))
  /\ Done(d)
  /\ UNCHANGED <<intake, card, pipeline, stranded, misentered, carried>>

-----------------------------------------------------------------------------
(* The pipeline. createStage and restoreStage are single statements.       *)
CreateStage(x) ==
  /\ Once /\ board[x] = "absent"
  /\ board' = [board EXCEPT ![x] = "active"]
  /\ UNCHANGED <<intake, lead, card, entry, session, history>>

RestoreStage(x) ==
  /\ Once /\ board[x] = "archived"
  /\ board' = [board EXCEPT ![x] = "active"]
  /\ UNCHANGED <<intake, lead, card, entry, session, history>>

DecideEntry(d, x) ==
  /\ board[x] = "active"
  /\ Decide(d, [op |-> "entry", stage |-> x])

(* Of two swaps at once lead_statuses_default_entry_uq may fail one, which *)
(* is GiveUp.                                                              *)
SetDefaultEntry(d) ==
  LET x == session[d].stage IN
  /\ session[d].op = "entry"
  /\ entry' = x
  /\ misentered' = Leaving(x)
  /\ Done(d)
  /\ UNCHANGED <<intake, lead, card, board, misplaced, stranded, carried>>

(* Slips: archiving the entry point; passing over leads in the archive.    *)
OpenOnStage(x) == {a \in Attempts : lead[a].state = "open" /\ lead[a].stage = x}
OnStage(x) == {a \in Attempts : Kept(a) /\ lead[a].stage = x}
AnyStage(x) == TRUE
NotEntry(x) == entry # x

DecideArchive(d, x, to) ==
  /\ board[x] # "absent" /\ NotEntry(x)
  /\ Cardinality({y \in Stages : board[y] = "active"}) > 1
  /\ OnStage(x) # {} => to # x /\ board[to] = "active"
  /\ OnStage(x) = {} => to = x   \* whatever target is sent is not used
  /\ Decide(d, [op |-> "archiveStage", stage |-> x, to |-> to])

ArchiveStage(d) ==
  LET x == session[d].stage
      to == session[d].to
      moved == IF to = x THEN {} ELSE OnStage(x)
  IN
  /\ session[d].op = "archiveStage"
  /\ lead' = [a \in Attempts |->
       IF a \in moved THEN [lead[a] EXCEPT !.stage = to] ELSE lead[a]]
  /\ misplaced' = Mark(misplaced, moved, Leaving(to))
  /\ board' = [board EXCEPT ![x] = "archived"]
  /\ entry' = IF entry = x THEN NoStage ELSE entry
  /\ Done(d) /\ UNCHANGED <<intake, card, stranded, misentered, carried>>

-----------------------------------------------------------------------------
(* Contacts. The webhook makes a card for a number it has not seen.        *)
FirstMessage(p) ==
  /\ Once /\ card[p] = "none" /\ CardFree(p)
  /\ card' = [card EXCEPT ![p] = "live"]
  /\ UNCHANGED <<intake, lead, pipeline, session, history>>

ArchiveContact(p) ==
  /\ Once /\ card[p] = "live" /\ CardFree(p)
  /\ card' = [card EXCEPT ![p] = "archived"]
  /\ UNCHANGED <<intake, lead, pipeline, session, history>>

RestoreContact(p) ==
  /\ Once /\ card[p] = "archived" /\ CardFree(p)
  /\ card' = [card EXCEPT ![p] = "live"]
  /\ UNCHANGED <<intake, lead, pipeline, session, history>>

(* deleteContact: "Refused while the person still has enquiries in the     *)
(* working lists". Slip: forgetting to look.                               *)
AnyLeads(p) == TRUE
NoActiveLeads(p) == \A a \in LeadsOf(p) : lead[a].state = "archived"

DecideDeleteContact(d, p) ==
  /\ card[p] = "archived" /\ NoActiveLeads(p)
  /\ Decide(d, [op |-> "deleteContact", card |-> p])

DeleteContact(d) ==
  LET p == session[d].card IN
  /\ session[d].op = "deleteContact" /\ CardFree(p)
  /\ card' = [card EXCEPT ![p] = "gone"]
  /\ Done(d) /\ UNCHANGED <<intake, lead, pipeline, history>>

(* mergeContacts: both cards are read, then a transaction moves the leads  *)
(* it sees and last updates the cards, for which it may have to wait.      *)
Known(p) == card[p] \in {"live", "archived"}

DecideMerge(d, keep, p) ==
  /\ keep # p /\ Known(keep) /\ Known(p)
  /\ Decide(d, [op |-> "merge", card |-> p, keep |-> keep])

MoveLeads(d) ==
  LET p == session[d].card IN
  /\ session[d].op = "merge"
  /\ session' = [session EXCEPT ![d] =
       [op |-> "moving", card |-> p, keep |-> session[d].keep,
        leads |-> {a \in Attempts : lead[a].on = p}]]
  /\ UNCHANGED <<intake, lead, card, pipeline, decisions, history>>

MergeContacts(d) ==
  LET p == session[d].card
      keep == session[d].keep
      moved == {a \in session[d].leads : lead[a].on = p}
  IN
  /\ session[d].op = "moving" /\ CardFree(p) /\ CardFree(keep)
  /\ lead' = [a \in Attempts |->
       IF a \in moved THEN [lead[a] EXCEPT !.on = keep] ELSE lead[a]]
  /\ stranded' = Mark(stranded, moved, Removing(keep))
  /\ card' = [card EXCEPT ![p] = "gone"]
  /\ carried' = carried \union moved
  /\ Done(d) /\ UNCHANGED <<intake, pipeline, misplaced, misentered>>

-----------------------------------------------------------------------------
Submit(a) == \/ Refuse(a) \/ Gate(a) \/ Replay(a) \/ Upsert(a)
             \/ ReadEntry(a) \/ ReadRecent(a) \/ Commit(a) \/ Abort(a)

Next ==
  \/ \E a \in Attempts : Submit(a) \/ ArchiveLead(a) \/ RestoreLead(a)
  \/ \E x \in Stages : CreateStage(x) \/ RestoreStage(x)
  \/ \E p \in Phones : FirstMessage(p) \/ ArchiveContact(p) \/ RestoreContact(p)
  \/ \E d \in Admins :
       \/ \E a \in Attempts : \/ DecideDelete(d, a)
                              \/ \E x \in Stages : DecideStatus(d, a, x)
       \/ \E x \in Stages : \/ DecideEntry(d, x)
                            \/ \E to \in Stages : DecideArchive(d, x, to)
       \/ \E p \in Phones : \/ DecideDeleteContact(d, p)
                            \/ \E keep \in Phones : DecideMerge(d, keep, p)
  \/ \E d \in Admins : GiveUp(d) \/ DeleteLead(d) \/ ChangeLeadStatus(d)
  \/ \E d \in Admins : SetDefaultEntry(d) \/ ArchiveStage(d)
  \/ \E d \in Admins : DeleteContact(d) \/ MoveLeads(d) \/ MergeContacts(d)

Spec == Init /\ [][Next]_vars
-----------------------------------------------------------------------------
Decision ==
  {Nobody}
    \union [op : {"deleteLead"}, lead : Attempts]
    \union [op : {"status"}, lead : Attempts, stage : Stages]
    \union [op : {"entry"}, stage : Stages]
    \union [op : {"archiveStage"}, stage : Stages, to : Stages]
    \union [op : {"deleteContact"}, card : Phones]
    \union [op : {"merge"}, card : Phones, keep : Phones]
    \union [op : {"moving"}, card : Phones, keep : Phones, leads : SUBSET Attempts]

TypeOK ==
  /\ pc \in [Attempts -> {"idle", "refused", "gated", "upserted", "staged",
                          "checked", "accepted", "failed"}]
  /\ tx \in [Attempts -> [stage : Stages \union {NoStage}, repeat : BOOLEAN]]
  /\ gate \in [Keys -> {"free", "held", "taken"}]
  /\ lead \in [Attempts ->
       [on : Phones, stage : Stages, repeat : BOOLEAN,
        state : {"open", "archived", "deleted"}] \union {NoLead}]
  /\ card \in [Phones -> {"none", "live", "archived", "gone"}]
  /\ board \in [Stages -> {"absent", "active", "archived"}]
  /\ entry \in Stages \union {NoStage}
  /\ session \in [Admins -> Decision]
  /\ decisions \in Nat /\ misentered \in BOOLEAN
  /\ misplaced \subseteq Attempts /\ stranded \subseteq Attempts
  /\ carried \subseteq Attempts

Made(a) == lead[a] # NoLead

(* "a valid submission always produces exactly one CRM lead": never two of *)
(* one key, however attempts overlap, fail and are sent again. This and    *)
(* the next follow from ImplementsIntake.                                  *)
OneLeadPerKey ==
  \A a, b \in Attempts : Made(a) /\ Made(b) /\ KeyOf[a] = KeyOf[b] => a = b

(* Nobody is told that an enquiry was received which has no lead: not by a *)
(* commit, and not by a replay after an earlier attempt failed.            *)
AcceptedHasLead ==
  \A a \in Attempts : pc[a] = "accepted" =>
    \E b \in Attempts : Made(b) /\ KeyOf[b] = KeyOf[a]

(* Of two leads one customer left, one points at the other as a possible   *)
(* duplicate, even if both forms were sent at the same moment; only a      *)
(* merge can have carried the earlier one to a card where nobody looks.    *)
RepeatIsMarked ==
  \A a, b \in Attempts :
    /\ a # b /\ Kept(a) /\ Kept(b)
    /\ a \notin carried /\ b \notin carried
    /\ PhoneOf[a] = PhoneOf[b]
    => lead[a].repeat \/ lead[b].repeat

(* "Leads sitting on the stage must be given somewhere to go first": a     *)
(* lead on an archived stage was put there when the stage was archived     *)
(* already or somebody had decided to; no lead is merely left behind.      *)
LeadIsOnBoard ==
  \A a \in Attempts :
    Kept(a) /\ board[lead[a].stage] = "archived" => a \in misplaced

(* "Exactly one status is the entry point for new leads": it is missing,   *)
(* or off the board, only after it was given to a stage that was leaving.  *)
EntryIsOnBoard ==
  entry = NoStage \/ board[entry] # "active" => misentered

(* Nothing work depends on is off the board for no reason: no lead, and    *)
(* not the entry point, whoever moves stages and leads at the same time.   *)
BoardHoldsWork == LeadIsOnBoard /\ EntryIsOnBoard

(* mergeContacts and deleteContact leave no enquiry in the working lists   *)
(* on a card nobody can open, unless the enquiry arrived or was restored   *)
(* when the card was gone or on its way out.                               *)
LeadHasCard ==
  \A a \in Attempts :
    lead[a].state = "open" /\ card[lead[a].on] = "gone" => a \in stranded
-----------------------------------------------------------------------------
Promise == INSTANCE Intake WITH
  Forms <- Attempts,
  made <- [k \in Keys |-> {a \in Attempts : Made(a) /\ KeyOf[a] = k}],
  told <- {KeyOf[a] : a \in {b \in Attempts : pc[b] = "accepted"}}

(* The gate, the transaction and its failures amount to one step that      *)
(* makes the lead of a key, for good, and to answers that follow it,       *)
(* whatever the panel does to leads, stages and cards (submitLead).        *)
ImplementsIntake == Promise!Spec
=============================================================================
