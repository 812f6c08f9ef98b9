----------------------------- MODULE CrmProofs -----------------------------
(***************************************************************************)
(* Proofs about enquiries and what the panel does to them meanwhile, for   *)
(* any attempts, keys, customers, stages and people at the panel.          *)
(***************************************************************************)
EXTENDS Crm, TLAPS

LEMMA DecisionFacts ==
  /\ Nobody \in Decision
  /\ \A s \in Decision :
       /\ s.op \in {"none", "deleteLead", "status", "entry", "archiveStage",
                    "deleteContact", "merge", "moving"}
       /\ s = Nobody <=> s.op = "none"
       /\ s.op \in {"deleteLead", "status"} => s.lead \in Attempts
       /\ s.op \in {"status", "entry", "archiveStage"} => s.stage \in Stages
       /\ s.op = "archiveStage" => s.to \in Stages
       /\ s.op \in {"deleteContact", "merge", "moving"} => s.card \in Phones
       /\ s.op \in {"merge", "moving"} => s.keep \in Phones
       /\ s.op = "moving" => s.leads \subseteq Attempts
  BY DEF Decision, Nobody

(* The decisions the actions take, and what becomes of them.               *)
LEMMA Decisions ==
  /\ \A a \in Attempts : [op |-> "deleteLead", lead |-> a] \in Decision
  /\ \A a \in Attempts, x \in Stages :
       [op |-> "status", lead |-> a, stage |-> x] \in Decision
  /\ \A x \in Stages : [op |-> "entry", stage |-> x] \in Decision
  /\ \A x, to \in Stages : [op |-> "archiveStage", stage |-> x, to |-> to] \in Decision
  /\ \A p \in Phones : [op |-> "deleteContact", card |-> p] \in Decision
  /\ \A p, keep \in Phones : [op |-> "merge", card |-> p, keep |-> keep] \in Decision
  /\ \A p, keep \in Phones, S \in SUBSET Attempts :
       [op |-> "moving", card |-> p, keep |-> keep, leads |-> S] \in Decision
  BY DEF Decision

Lead == [on : Phones, stage : Stages, repeat : BOOLEAN,
         state : {"open", "archived", "deleted"}] \union {NoLead}

LEMMA LeadFacts ==
  /\ NoLead \in Lead
  /\ \A l \in Lead : /\ l = NoLead <=> l.state = "none"
                     /\ l # NoLead => /\ l.on \in Phones /\ l.stage \in Stages
                                      /\ l.repeat \in BOOLEAN
                                      /\ l.state \in {"open", "archived", "deleted"}
  /\ \A p \in Phones, x \in Stages, r \in BOOLEAN,
        s \in {"open", "archived", "deleted"} :
       [on |-> p, stage |-> x, state |-> s, repeat |-> r] \in Lead \ {NoLead}
  BY DEF Lead, NoLead

(* A lead, or none, has four fields, and an update changes the one it      *)
(* names.                                                                  *)
Fields == [on : Phones \union {NoPhone}, stage : Stages \union {NoStage},
           repeat : BOOLEAN, state : {"open", "archived", "deleted", "none"}]

LEMMA LeadHasFields == TypeOK => lead \in [Attempts -> Fields]
<1>1. Lead \subseteq Fields
  <2>1. NoLead \in Fields
    BY DEF NoLead, Fields
  <2>2. Lead \ {NoLead} \subseteq Fields
    BY DEF Lead, Fields
  <2> QED
    BY <2>1, <2>2
<1>2. TypeOK => lead \in [Attempts -> Lead]
  BY DEF TypeOK, Lead
<1> QED
  BY <1>1, <1>2

(* What an action does that gives one lead another state or stage.         *)
Changed(b, x, s) ==
  /\ lead' \in [Attempts -> Lead]
  /\ lead'[b] = [on |-> lead[b].on, stage |-> x, state |-> s, repeat |-> lead[b].repeat]
  /\ \A a \in Attempts \ {b} : lead'[a] = lead[a]

LEMMA StateChanged ==
  ASSUME TypeOK, NEW b \in Attempts, Made(b),
         NEW s \in {"open", "archived", "deleted"}, lead' = [lead EXCEPT ![b].state = s]
  PROVE  Changed(b, lead[b].stage, s)
<1>1. /\ lead'[b] = [on |-> lead[b].on, stage |-> lead[b].stage, state |-> s,
                     repeat |-> lead[b].repeat]
      /\ \A a \in Attempts \ {b} : lead'[a] = lead[a]
      /\ lead' = [a \in Attempts |-> lead'[a]]
  BY LeadHasFields DEF Fields
<1>2. \A a \in Attempts : lead[a] \in Lead
  BY DEF TypeOK, Lead
<1>3. lead'[b] \in Lead
  <2>1. /\ lead[b].on \in Phones /\ lead[b].stage \in Stages
        /\ lead[b].repeat \in BOOLEAN /\ lead[b].state \in {"open", "archived", "deleted"}
    BY <1>2, LeadFacts DEF Made
  <2> QED
    BY <1>1, <2>1 DEF Lead
<1> QED
  BY <1>1, <1>2, <1>3 DEF Changed

LEMMA StageChanged ==
  ASSUME TypeOK, NEW b \in Attempts, Made(b),
         NEW x \in Stages, lead' = [lead EXCEPT ![b].stage = x]
  PROVE  Changed(b, x, lead[b].state)
<1>1. /\ lead'[b] = [on |-> lead[b].on, stage |-> x, state |-> lead[b].state,
                     repeat |-> lead[b].repeat]
      /\ \A a \in Attempts \ {b} : lead'[a] = lead[a]
      /\ lead' = [a \in Attempts |-> lead'[a]]
  BY LeadHasFields DEF Fields
<1>2. \A a \in Attempts : lead[a] \in Lead
  BY DEF TypeOK, Lead
<1>3. lead'[b] \in Lead
  <2>1. /\ lead[b].on \in Phones /\ lead[b].stage \in Stages
        /\ lead[b].repeat \in BOOLEAN /\ lead[b].state \in {"open", "archived", "deleted"}
    BY <1>2, LeadFacts DEF Made
  <2> QED
    BY <1>1, <2>1 DEF Lead
<1> QED
  BY <1>1, <1>2, <1>3 DEF Changed

(* Archiving a stage and merging two cards change several leads at once.   *)
LEMMA StagesChanged ==
  ASSUME TypeOK, NEW S \in SUBSET Attempts, \A a \in S : Made(a), NEW x \in Stages,
         lead' = [a \in Attempts |->
                    IF a \in S THEN [lead[a] EXCEPT !.stage = x] ELSE lead[a]]
  PROVE  /\ lead' \in [Attempts -> Lead]
         /\ \A a \in Attempts \ S : lead'[a] = lead[a]
         /\ \A a \in S : lead'[a] = [on |-> lead[a].on, stage |-> x,
                                     state |-> lead[a].state, repeat |-> lead[a].repeat]
<1>1. /\ \A a \in Attempts \ S : lead'[a] = lead[a]
      /\ \A a \in S : lead'[a] = [on |-> lead[a].on, stage |-> x,
                                  state |-> lead[a].state, repeat |-> lead[a].repeat]
      /\ lead' = [a \in Attempts |-> lead'[a]]
  BY LeadHasFields DEF Fields
<1>2. \A a \in Attempts : lead[a] \in Lead
  BY DEF TypeOK, Lead
<1>3. ASSUME NEW a \in S PROVE lead'[a] \in Lead
  <2>1. /\ lead[a].on \in Phones /\ lead[a].stage \in Stages
        /\ lead[a].repeat \in BOOLEAN /\ lead[a].state \in {"open", "archived", "deleted"}
    BY <1>2, LeadFacts DEF Made
  <2>2. lead'[a] = [on |-> lead[a].on, stage |-> x,
                         state |-> lead[a].state, repeat |-> lead[a].repeat]
    BY <1>1
  <2> QED
    BY <2>1, <2>2 DEF Lead
<1> QED
  BY <1>1, <1>2, <1>3

LEMMA CardsChanged ==
  ASSUME TypeOK, NEW S \in SUBSET Attempts, \A a \in S : Made(a), NEW p \in Phones,
         lead' = [a \in Attempts |->
                    IF a \in S THEN [lead[a] EXCEPT !.on = p] ELSE lead[a]]
  PROVE  /\ lead' \in [Attempts -> Lead]
         /\ \A a \in Attempts \ S : lead'[a] = lead[a]
         /\ \A a \in S : lead'[a] = [on |-> p, stage |-> lead[a].stage,
                                     state |-> lead[a].state, repeat |-> lead[a].repeat]
<1>1. /\ \A a \in Attempts \ S : lead'[a] = lead[a]
      /\ \A a \in S : lead'[a] = [on |-> p, stage |-> lead[a].stage,
                                  state |-> lead[a].state, repeat |-> lead[a].repeat]
      /\ lead' = [a \in Attempts |-> lead'[a]]
  BY LeadHasFields DEF Fields
<1>2. \A a \in Attempts : lead[a] \in Lead
  BY DEF TypeOK, Lead
<1>3. ASSUME NEW a \in S PROVE lead'[a] \in Lead
  <2>1. /\ lead[a].on \in Phones /\ lead[a].stage \in Stages
        /\ lead[a].repeat \in BOOLEAN /\ lead[a].state \in {"open", "archived", "deleted"}
    BY <1>2, LeadFacts DEF Made
  <2>2. lead'[a] = [on |-> p, stage |-> lead[a].stage,
                         state |-> lead[a].state, repeat |-> lead[a].repeat]
    BY <1>1
  <2> QED
    BY <2>1, <2>2 DEF Lead
<1> QED
  BY <1>1, <1>2, <1>3

Tx == [stage : Stages \union {NoStage}, repeat : BOOLEAN]

LEMMA TxFacts ==
  /\ Unread \in Tx
  /\ \A t \in Tx : /\ \A x \in Stages : [t EXCEPT !.stage = x] \in Tx
                   /\ \A r \in BOOLEAN : [t EXCEPT !.repeat = r] \in Tx
  BY DEF Tx, Unread

(* A transaction that has read the entry point holds a stage.              *)
StagedInv ==
  \A a \in Attempts : pc[a] \in {"staged", "checked"} => tx[a].stage \in Stages

(* People decide on leads there are.                                       *)
DecidedInv ==
  \A d \in Admins : session[d].op \in {"deleteLead", "status"} => Made(session[d].lead)

-----------------------------------------------------------------------------
LEMMA TypeInit == Init => TypeOK
<1> SUFFICES ASSUME Init PROVE TypeOK
  OBVIOUS
<1>1. tx \in [Attempts -> Tx]
  BY TxFacts DEF Init
<1>2. lead \in [Attempts -> Lead]
  BY LeadFacts DEF Init
<1> QED
  BY <1>1, <1>2, CrmAssumption, DecisionFacts DEF Init, TypeOK, Tx, Lead

(* A step that only opens, advances or closes a decision.                  *)
LEMMA DecideStep ==
  ASSUME TypeOK, NEW d \in Admins, NEW s \in Decision, Decide(d, s)
  PROVE  TypeOK'
  BY DEF TypeOK, Decide, intake, pipeline, history

LEMMA DoneStep ==
  ASSUME TypeOK, NEW d \in Admins, Done(d)
  PROVE  decisions' \in Nat /\ session' \in [Admins -> Decision]
  BY DecisionFacts DEF TypeOK, Done

(* The steps that leave the enquiries under way as they are.               *)
PanelStep ==
  \/ \E a \in Attempts : ArchiveLead(a) \/ RestoreLead(a)
  \/ \E x \in Stages : CreateStage(x) \/ RestoreStage(x)
  \/ \E p \in Phones : FirstMessage(p) \/ ArchiveContact(p) \/ RestoreContact(p)
  \/ \E d \in Admins, s \in Decision : Decide(d, s)
  \/ \E d \in Admins : \/ GiveUp(d) \/ DeleteLead(d) \/ ChangeLeadStatus(d)
                       \/ SetDefaultEntry(d) \/ ArchiveStage(d)
                       \/ DeleteContact(d) \/ MoveLeads(d) \/ MergeContacts(d)
  \/ UNCHANGED vars

LEMMA Steps == [Next]_vars => PanelStep \/ \E a \in Attempts : Submit(a)
  BY Decisions DEF Next, PanelStep, DecideDelete, DecideStatus, DecideEntry,
                   DecideArchive, DecideDeleteContact, DecideMerge

LEMMA PanelLeavesIntake == PanelStep => UNCHANGED intake
  BY DEF PanelStep, ArchiveLead, RestoreLead, CreateStage, RestoreStage,
         FirstMessage, ArchiveContact, RestoreContact, Decide, GiveUp, DeleteLead,
         ChangeLeadStatus, SetDefaultEntry, ArchiveStage, DeleteContact,
         MoveLeads, MergeContacts, vars

LEMMA StagedStep == TypeOK /\ StagedInv /\ [Next]_vars => StagedInv'
<1> SUFFICES ASSUME TypeOK, StagedInv, [Next]_vars PROVE StagedInv'
  OBVIOUS
<1>1. ASSUME NEW a \in Attempts, Submit(a) PROVE StagedInv'
  <2>1. ASSUME Refuse(a) \/ Gate(a) \/ Replay(a) \/ Upsert(a) PROVE StagedInv'
    BY <2>1 DEF TypeOK, StagedInv, Refuse, Gate, Replay, Upsert
  <2>2. ASSUME ReadEntry(a) \/ ReadRecent(a) PROVE StagedInv'
    BY <2>2 DEF TypeOK, StagedInv, ReadEntry, ReadRecent
  <2>3. ASSUME Commit(a) PROVE StagedInv'
    BY <2>3 DEF TypeOK, StagedInv, Commit
  <2>4. ASSUME Abort(a) PROVE StagedInv'
    BY <2>4 DEF TypeOK, StagedInv, Abort
  <2> QED
    BY <1>1, <2>1, <2>2, <2>3, <2>4 DEF Submit
<1>2. ASSUME PanelStep PROVE StagedInv'
  BY <1>2, PanelLeavesIntake DEF StagedInv, intake
<1> QED
  BY <1>1, <1>2, Steps

(* What a step does to the lead of one attempt.                            *)
LeadMove(a) ==
  /\ Made(a) => Made(a)'
  /\ ~Commit(a) => /\ Made(a)' => Made(a)
                   /\ Kept(a)' => Kept(a)
                   /\ lead'[a].repeat = lead[a].repeat
                   /\ lead'[a].on = lead[a].on \/ a \in carried'

(* A lead there is has a state of its own.                                 *)
LEMMA MadeStays ==
  ASSUME TypeOK, NEW a \in Attempts, Made(a), lead'[a].state = lead[a].state
  PROVE  Made(a)'
<1>1. lead[a] \in Lead /\ lead[a] # NoLead
  BY DEF TypeOK, Lead, Made
<1> QED
  BY <1>1, LeadFacts DEF Made

LEMMA KeptIsMade == \A a \in Attempts : Kept(a) => Made(a)
  BY DEF Kept, Made, NoLead

LEMMA ArchivedLeads ==
  ASSUME TypeOK, NEW d \in Admins, ArchiveStage(d)
  PROVE  \E S \in SUBSET Attempts :
           /\ S = IF session[d].to = session[d].stage THEN {} ELSE OnStage(session[d].stage)
           /\ \A b \in S : Made(b)
           /\ lead' = [b \in Attempts |->
                IF b \in S THEN [lead[b] EXCEPT !.stage = session[d].to] ELSE lead[b]]
<1> DEFINE S == IF session[d].to = session[d].stage THEN {} ELSE OnStage(session[d].stage)
<1>1. lead' = [b \in Attempts |->
                 IF b \in S THEN [lead[b] EXCEPT !.stage = session[d].to] ELSE lead[b]]
  BY Zenon DEF ArchiveStage
<1>2. S \in SUBSET Attempts /\ \A b \in S : Made(b)
  BY KeptIsMade DEF OnStage
<1> QED
  BY <1>1, <1>2, Zenon

LEMMA CarriedLeads ==
  ASSUME TypeOK, NEW d \in Admins, MergeContacts(d)
  PROVE  \E S \in SUBSET Attempts :
           /\ S = {a \in session[d].leads : lead[a].on = session[d].card}
           /\ \A b \in S : Made(b)
           /\ carried' = carried \union S
           /\ lead' = [b \in Attempts |->
                IF b \in S THEN [lead[b] EXCEPT !.on = session[d].keep] ELSE lead[b]]
<1> DEFINE S == {a \in session[d].leads : lead[a].on = session[d].card}
<1>1. session[d].card \in Phones /\ session[d].leads \subseteq Attempts
  BY DecisionFacts DEF MergeContacts, TypeOK
<1>2. S \in SUBSET Attempts /\ \A b \in S : Made(b)
  BY <1>1, CrmAssumption DEF Made, NoLead
<1>3. /\ carried' = carried \union S
      /\ lead' = [b \in Attempts |->
           IF b \in S THEN [lead[b] EXCEPT !.on = session[d].keep] ELSE lead[b]]
  BY Zenon DEF MergeContacts
<1> QED
  BY <1>2, <1>3, Zenon

LEMMA LeadStep ==
  ASSUME TypeOK, DecidedInv, [Next]_vars, NEW a \in Attempts
  PROVE  LeadMove(a) /\ carried \subseteq carried'
<1>1. ASSUME lead' = lead, carried' = carried PROVE LeadMove(a) /\ carried \subseteq carried'
  BY <1>1 DEF LeadMove, Made, Kept
<1>2. ASSUME NEW b \in Attempts, Submit(b) PROVE LeadMove(a) /\ carried \subseteq carried'
  <2>1. CASE Commit(b)
    BY <2>1 DEF Commit, LeadMove, TypeOK, Made, Kept, NoLead
  <2>2. CASE ~Commit(b)
    BY <1>1, <1>2, <2>2 DEF Submit, Refuse, Gate, Replay, Upsert, ReadEntry, ReadRecent,
                            Abort, history
  <2> QED
    BY <2>1, <2>2
<1>3. ASSUME NEW b \in Attempts, NEW x, NEW s \in {"open", "archived", "deleted"},
             Made(b), Changed(b, x, s), Kept(b) \/ s = lead[b].state, carried' = carried
      PROVE  LeadMove(a) /\ carried \subseteq carried'
  BY <1>3, LeadFacts DEF Changed, LeadMove, Made, Kept
<1>4. ASSUME NEW b \in Attempts, ArchiveLead(b) \/ RestoreLead(b)
      PROVE  LeadMove(a) /\ carried \subseteq carried'
  <2>1. PICK s \in {"open", "archived"} : lead' = [lead EXCEPT ![b].state = s]
    BY <1>4 DEF ArchiveLead, RestoreLead
  <2>2. Kept(b) /\ carried' = carried
    BY <1>4 DEF ArchiveLead, RestoreLead, Kept, history
  <2> QED
    BY <1>3, <2>1, <2>2, StateChanged, KeptIsMade
<1>5. ASSUME NEW d \in Admins, DeleteLead(d) \/ ChangeLeadStatus(d)
      PROVE  LeadMove(a) /\ carried \subseteq carried'
  <2>1. session[d].lead \in Attempts /\ Made(session[d].lead) /\ carried' = carried
    BY <1>5, DecisionFacts DEF DeleteLead, ChangeLeadStatus, TypeOK, DecidedInv, history
  <2>2. ASSUME DeleteLead(d) PROVE LeadMove(a) /\ carried \subseteq carried'
    <3>1. Changed(session[d].lead, lead[session[d].lead].stage, "deleted")
      BY <2>1, <2>2, StateChanged DEF DeleteLead
    <3> QED
      BY <2>1, <3>1, LeadFacts DEF Changed, LeadMove, Made, Kept
  <2>3. ASSUME ChangeLeadStatus(d) PROVE LeadMove(a) /\ carried \subseteq carried'
    <3>1. session[d].stage \in Stages
      BY <2>3, DecisionFacts DEF ChangeLeadStatus, TypeOK
    <3>2. Changed(session[d].lead, session[d].stage, lead[session[d].lead].state)
      BY <2>1, <2>3, <3>1, StageChanged DEF ChangeLeadStatus
    <3> QED
      BY <2>1, <3>2, MadeStays DEF Changed, LeadMove, Made, Kept
  <2> QED
    BY <1>5, <2>2, <2>3
<1>6. ASSUME NEW d \in Admins, ArchiveStage(d)
      PROVE  LeadMove(a) /\ carried \subseteq carried'
  <2>1. PICK S \in SUBSET Attempts :
          /\ \A b \in S : Made(b)
          /\ lead' = [b \in Attempts |->
               IF b \in S THEN [lead[b] EXCEPT !.stage = session[d].to] ELSE lead[b]]
    BY <1>6, ArchivedLeads, Zenon
  <2>2. session[d].to \in Stages /\ carried' = carried
    BY <1>6, DecisionFacts DEF ArchiveStage, TypeOK
  <2> QED
    <3>1. /\ \A b \in Attempts \ S : lead'[b] = lead[b]
          /\ \A b \in S : /\ lead'[b].on = lead[b].on /\ lead'[b].state = lead[b].state
                          /\ lead'[b].repeat = lead[b].repeat
      BY <2>1, <2>2, StagesChanged
    <3> QED
      BY <2>1, <2>2, <3>1, MadeStays DEF LeadMove, Made, Kept
<1>7. ASSUME NEW d \in Admins, MergeContacts(d)
      PROVE  LeadMove(a) /\ carried \subseteq carried'
  <2>1. session[d].keep \in Phones
    BY <1>7, DecisionFacts DEF MergeContacts, TypeOK
  <2>2. PICK S \in SUBSET Attempts :
          /\ \A b \in S : Made(b)
          /\ carried' = carried \union S
          /\ lead' = [b \in Attempts |->
               IF b \in S THEN [lead[b] EXCEPT !.on = session[d].keep] ELSE lead[b]]
    BY <1>7, CarriedLeads, Zenon
  <2> QED
    <3>1. /\ \A b \in Attempts \ S : lead'[b] = lead[b]
          /\ \A b \in S : /\ lead'[b].state = lead[b].state
                          /\ lead'[b].repeat = lead[b].repeat
      BY <2>1, <2>2, CardsChanged
    <3> QED
      BY <2>1, <2>2, <3>1, MadeStays DEF LeadMove, Made, Kept
<1> QED
  <2>1. ASSUME PanelStep PROVE LeadMove(a) /\ carried \subseteq carried'
    BY <2>1, <1>1, <1>4, <1>5, <1>6, <1>7
    DEF PanelStep, CreateStage, RestoreStage, FirstMessage, ArchiveContact,
        RestoreContact, Decide, GiveUp, SetDefaultEntry, DeleteContact, MoveLeads,
        vars, history
  <2> QED
    BY <1>2, <2>1, Steps

(* What a step does to what one person at the panel has decided.           *)
SessionMove(d) ==
  \/ session'[d] = session[d]
  \/ session'[d] = Nobody
  \/ \E a \in Attempts : DecideDelete(d, a) \/ \E x \in Stages : DecideStatus(d, a, x)
  \/ \E x \in Stages : DecideEntry(d, x) \/ \E to \in Stages : DecideArchive(d, x, to)
  \/ \E p \in Phones : \/ DecideDeleteContact(d, p)
                       \/ \E keep \in Phones : DecideMerge(d, keep, p)
  \/ MoveLeads(d)

LEMMA SessionStep ==
  ASSUME TypeOK, [Next]_vars, NEW d \in Admins
  PROVE  SessionMove(d)
<1>1. ASSUME UNCHANGED session PROVE SessionMove(d)
  BY <1>1 DEF SessionMove
<1>2. ASSUME NEW e \in Admins, Done(e) PROVE SessionMove(d)
  BY <1>2 DEF SessionMove, Done, TypeOK
<1>3. ASSUME NEW e \in Admins, e # d, NEW s, Decide(e, s) PROVE SessionMove(d)
  BY <1>3 DEF SessionMove, Decide, TypeOK
<1>4. ASSUME NEW e \in Admins, MoveLeads(e) PROVE SessionMove(d)
  BY <1>4 DEF SessionMove, MoveLeads, TypeOK
<1>5. ASSUME NEW a \in Attempts, Submit(a) PROVE SessionMove(d)
  BY <1>1, <1>5 DEF Submit, Refuse, Gate, Replay, Upsert, ReadEntry, ReadRecent, Commit,
                    Abort
<1>6. ASSUME NEW e \in Admins, NEW a \in Attempts, NEW x \in Stages,
             DecideDelete(e, a) \/ DecideStatus(e, a, x)
      PROVE  SessionMove(d)
  BY <1>3, <1>6 DEF DecideDelete, DecideStatus, SessionMove
<1>7. ASSUME NEW e \in Admins, NEW x \in Stages, NEW to \in Stages,
             DecideEntry(e, x) \/ DecideArchive(e, x, to)
      PROVE  SessionMove(d)
  BY <1>3, <1>7 DEF DecideEntry, DecideArchive, SessionMove
<1>8. ASSUME NEW e \in Admins, NEW p \in Phones, NEW keep \in Phones,
             DecideDeleteContact(e, p) \/ DecideMerge(e, keep, p)
      PROVE  SessionMove(d)
  BY <1>3, <1>8 DEF DecideDeleteContact, DecideMerge, SessionMove
<1>9. ASSUME NEW e \in Admins,
             \/ GiveUp(e) \/ DeleteLead(e) \/ ChangeLeadStatus(e)
             \/ SetDefaultEntry(e) \/ ArchiveStage(e) \/ DeleteContact(e) \/ MergeContacts(e)
      PROVE  SessionMove(d)
  BY <1>2, <1>9 DEF GiveUp, DeleteLead, ChangeLeadStatus, SetDefaultEntry, ArchiveStage,
                    DeleteContact, MergeContacts
<1>10. ASSUME \/ \E a \in Attempts : ArchiveLead(a) \/ RestoreLead(a)
              \/ \E x \in Stages : CreateStage(x) \/ RestoreStage(x)
              \/ \E p \in Phones : \/ FirstMessage(p) \/ ArchiveContact(p)
                                   \/ RestoreContact(p)
              \/ UNCHANGED vars
       PROVE  SessionMove(d)
  BY <1>1, <1>10 DEF ArchiveLead, RestoreLead, CreateStage, RestoreStage, FirstMessage,
                     ArchiveContact, RestoreContact, vars
<1> QED
  BY <1>4, <1>5, <1>6, <1>7, <1>8, <1>9, <1>10, CrmAssumption DEF Next

LEMMA DecidedStep == TypeOK /\ DecidedInv /\ [Next]_vars => DecidedInv'
<1> SUFFICES ASSUME TypeOK, DecidedInv, [Next]_vars PROVE DecidedInv'
  OBVIOUS
<1>1. \A a \in Attempts : Made(a) => Made(a)'
  BY LeadStep DEF LeadMove
<1>2. ASSUME NEW d \in Admins, session'[d].op \in {"deleteLead", "status"}
      PROVE  session'[d].lead \in Attempts /\ Made(session'[d].lead)
  <2>1. CASE session'[d] = session[d]
    BY <1>2, <2>1, DecisionFacts DEF TypeOK, DecidedInv
  <2>2. CASE session'[d] = Nobody \/ MoveLeads(d)
    BY <1>2, <2>2 DEF Nobody, MoveLeads, TypeOK
  <2>3. ASSUME NEW s \in Decision, Decide(d, s),
               s.op \in {"deleteLead", "status"} => Made(s.lead) /\ s.lead \in Attempts
        PROVE  session'[d].lead \in Attempts /\ Made(session'[d].lead)
    BY <1>2, <2>3 DEF Decide, TypeOK
  <2>4. ASSUME NEW a \in Attempts,
               DecideDelete(d, a) \/ \E x \in Stages : DecideStatus(d, a, x)
        PROVE  session'[d].lead \in Attempts /\ Made(session'[d].lead)
    <3>1. Made(a)
      BY <2>4, KeptIsMade DEF DecideDelete, DecideStatus, Kept
    <3>2. CASE DecideDelete(d, a)
      BY <2>3, <3>1, <3>2, Decisions DEF DecideDelete
    <3>3. CASE \E x \in Stages : DecideStatus(d, a, x)
      BY <2>3, <3>1, <3>3, Decisions DEF DecideStatus
    <3> QED
      BY <2>4, <3>2, <3>3
  <2>5. ASSUME \/ \E x \in Stages : DecideEntry(d, x) \/ \E to \in Stages : DecideArchive(d, x, to)
               \/ \E p \in Phones : \/ DecideDeleteContact(d, p)
                                    \/ \E keep \in Phones : DecideMerge(d, keep, p)
        PROVE  session'[d].lead \in Attempts /\ Made(session'[d].lead)
    <3>1. PICK s \in Decision : Decide(d, s) /\ s.op \notin {"deleteLead", "status"}
      BY <2>5, Decisions DEF DecideEntry, DecideArchive, DecideDeleteContact, DecideMerge
    <3> QED
      BY <2>3, <3>1
  <2> QED
    BY <2>1, <2>2, <2>4, <2>5, SessionStep DEF SessionMove
<1> QED
  BY <1>1, <1>2 DEF DecidedInv

LEMMA TypeStep == TypeOK /\ StagedInv /\ DecidedInv /\ [Next]_vars => TypeOK'
<1> SUFFICES ASSUME TypeOK, StagedInv, DecidedInv, [Next]_vars PROVE TypeOK'
  OBVIOUS
<1> USE CrmAssumption
<1>1. ASSUME NEW a \in Attempts, Refuse(a) \/ Gate(a) \/ Replay(a) \/ Upsert(a)
      PROVE  TypeOK'
  BY <1>1 DEF TypeOK, Refuse, Gate, Replay, Upsert, history, pipeline
<1>2. ASSUME NEW a \in Attempts, ReadEntry(a) \/ ReadRecent(a) \/ Abort(a)
      PROVE  TypeOK'
  <2>1. ASSUME ReadEntry(a) PROVE TypeOK'
    <3>1. tx' \in [Attempts -> Tx]
      BY <2>1, TxFacts DEF TypeOK, ReadEntry, Tx
    <3> QED
      BY <2>1, <3>1 DEF TypeOK, ReadEntry, Tx, history, pipeline
  <2>2. ASSUME ReadRecent(a) PROVE TypeOK'
    <3>1. tx' \in [Attempts -> Tx]
      <4> DEFINE r == LeadsOf(PhoneOf[a]) # {}
      <4>1. r \in BOOLEAN /\ tx' = [tx EXCEPT ![a].repeat = r]
        BY <2>2 DEF ReadRecent
      <4> HIDE DEF r
      <4> QED
        BY <4>1 DEF TypeOK, Tx
    <3> QED
      BY <2>2, <3>1 DEF TypeOK, ReadRecent, Tx, history, pipeline
  <2>3. ASSUME Abort(a) PROVE TypeOK'
    <3>1. tx' \in [Attempts -> Tx]
      BY <2>3, TxFacts DEF TypeOK, Abort, Tx
    <3> QED
      BY <2>3, <3>1 DEF TypeOK, Abort, AfterAbort, Tx, history, pipeline
  <2> QED
    BY <1>2, <2>1, <2>2, <2>3
<1>3. ASSUME NEW a \in Attempts, Commit(a) PROVE TypeOK'
  <2>1. PICK result \in {"accepted", "failed"} : pc' = [pc EXCEPT ![a] = result]
    BY <1>3 DEF Commit
  <2>2. tx[a].stage \in Stages
    BY <1>3 DEF StagedInv, Commit
  <2> QED
    BY <1>3, <2>1, <2>2 DEF TypeOK, Commit, Unread, Mark, history, pipeline, Lead
<1>4. ASSUME NEW a \in Attempts, ArchiveLead(a) \/ RestoreLead(a) PROVE TypeOK'
  <2>1. PICK s \in {"open", "archived"} : lead' = [lead EXCEPT ![a].state = s]
    BY <1>4 DEF ArchiveLead, RestoreLead
  <2>2. Made(a)
    BY <1>4 DEF ArchiveLead, RestoreLead, Made, NoLead
  <2>3. lead' \in [Attempts -> Lead]
    BY <2>1, <2>2, StateChanged DEF Changed
  <2> QED
    BY <1>4, <2>3 DEF TypeOK, ArchiveLead, RestoreLead, Once, Mark, Lead,
                      intake, history, pipeline
<1>5. ASSUME NEW x \in Stages, CreateStage(x) \/ RestoreStage(x) PROVE TypeOK'
  BY <1>5 DEF TypeOK, CreateStage, RestoreStage, Once, intake, history
<1>6. ASSUME NEW p \in Phones, FirstMessage(p) \/ ArchiveContact(p) \/ RestoreContact(p)
      PROVE  TypeOK'
  BY <1>6 DEF TypeOK, FirstMessage, ArchiveContact, RestoreContact, Once, intake,
              history, pipeline
<1>7. ASSUME NEW d \in Admins, NEW a \in Attempts, NEW x \in Stages,
             DecideDelete(d, a) \/ DecideStatus(d, a, x)
      PROVE  TypeOK'
  BY <1>7, Decisions, DecideStep DEF DecideDelete, DecideStatus
<1>8. ASSUME NEW d \in Admins, NEW x \in Stages, NEW to \in Stages,
             DecideEntry(d, x) \/ DecideArchive(d, x, to)
      PROVE  TypeOK'
  BY <1>8, Decisions, DecideStep DEF DecideEntry, DecideArchive
<1>9. ASSUME NEW d \in Admins, NEW p \in Phones, NEW keep \in Phones,
             DecideDeleteContact(d, p) \/ DecideMerge(d, keep, p)
      PROVE  TypeOK'
  BY <1>9, Decisions, DecideStep DEF DecideDeleteContact, DecideMerge
<1>10. ASSUME NEW d \in Admins, GiveUp(d) PROVE TypeOK'
  BY <1>10, DoneStep DEF TypeOK, GiveUp, intake, history, pipeline
<1>11. ASSUME NEW d \in Admins, DeleteLead(d) PROVE TypeOK'
  <2>1. session[d].lead \in Attempts /\ Made(session[d].lead)
    BY <1>11, DecisionFacts DEF TypeOK, DecidedInv, DeleteLead
  <2>2. lead' \in [Attempts -> Lead]
    BY <1>11, <2>1, StateChanged DEF DeleteLead, Changed
  <2> QED
    BY <1>11, <2>2, DoneStep DEF TypeOK, DeleteLead, Lead, intake, history, pipeline
<1>12. ASSUME NEW d \in Admins, ChangeLeadStatus(d) PROVE TypeOK'
  <2>1. /\ session[d].lead \in Attempts /\ Made(session[d].lead)
        /\ session[d].stage \in Stages
    BY <1>12, DecisionFacts DEF TypeOK, DecidedInv, ChangeLeadStatus
  <2>2. lead' \in [Attempts -> Lead]
    BY <1>12, <2>1, StageChanged DEF ChangeLeadStatus, Changed
  <2> QED
    BY <1>12, <2>1, <2>2, DoneStep
    DEF TypeOK, ChangeLeadStatus, Mark, Lead, intake, pipeline
<1>13. ASSUME NEW d \in Admins, SetDefaultEntry(d) PROVE TypeOK'
  <2>1. session[d].stage \in Stages
    BY <1>13, DecisionFacts DEF TypeOK, SetDefaultEntry
  <2> QED
    BY <1>13, <2>1, DoneStep DEF TypeOK, SetDefaultEntry, Leaving, intake
<1>14. ASSUME NEW d \in Admins, ArchiveStage(d) PROVE TypeOK'
  <2>1. session[d].stage \in Stages /\ session[d].to \in Stages
    BY <1>14, DecisionFacts DEF TypeOK, ArchiveStage
  <2>2. lead' \in [Attempts -> Lead]
    <3>1. PICK S \in SUBSET Attempts :
            /\ \A b \in S : Made(b)
            /\ lead' = [b \in Attempts |->
                 IF b \in S THEN [lead[b] EXCEPT !.stage = session[d].to] ELSE lead[b]]
      BY <1>14, ArchivedLeads, Zenon
    <3> QED
      BY <2>1, <3>1, StagesChanged
  <2> QED
    BY <1>14, <2>1, <2>2, DoneStep
    DEF TypeOK, ArchiveStage, OnStage, Mark, Lead, intake
<1>15. ASSUME NEW d \in Admins, DeleteContact(d) PROVE TypeOK'
  <2>1. session[d].card \in Phones
    BY <1>15, DecisionFacts DEF TypeOK, DeleteContact
  <2> QED
    BY <1>15, <2>1, DoneStep DEF TypeOK, DeleteContact, intake, history, pipeline
<1>16. ASSUME NEW d \in Admins, MoveLeads(d) PROVE TypeOK'
  <2>1. session[d].card \in Phones /\ session[d].keep \in Phones
    BY <1>16, DecisionFacts DEF TypeOK, MoveLeads
  <2> QED
    BY <1>16, <2>1, Decisions DEF TypeOK, MoveLeads, intake, history, pipeline
<1>17. ASSUME NEW d \in Admins, MergeContacts(d) PROVE TypeOK'
  <2>1. session[d].card \in Phones /\ session[d].keep \in Phones
        /\ session[d].leads \subseteq Attempts
    BY <1>17, DecisionFacts DEF TypeOK, MergeContacts
  <2>2. lead' \in [Attempts -> Lead]
    <3>1. PICK S \in SUBSET Attempts :
            /\ \A b \in S : Made(b)
            /\ lead' = [b \in Attempts |->
                 IF b \in S THEN [lead[b] EXCEPT !.on = session[d].keep] ELSE lead[b]]
      BY <1>17, CarriedLeads, Zenon
    <3> QED
      BY <2>1, <3>1, CardsChanged
  <2> QED
    BY <1>17, <2>1, <2>2, DoneStep DEF TypeOK, MergeContacts, Mark, Lead, intake, pipeline
<1>18. ASSUME UNCHANGED vars PROVE TypeOK'
  BY <1>18 DEF TypeOK, vars, intake, pipeline, history
<1> QED
  BY <1>1, <1>2, <1>3, <1>4, <1>5, <1>6, <1>7, <1>8, <1>9, <1>10, <1>11, <1>12,
     <1>13, <1>14, <1>15, <1>16, <1>17, <1>18 DEF Next, Submit

TypeInv == TypeOK /\ StagedInv /\ DecidedInv

LEMMA TypeInvariant == Spec => []TypeInv
<1>1. Init => TypeInv
  BY TypeInit DEF Init, TypeInv, StagedInv, DecidedInv, Nobody
<1>2. TypeInv /\ [Next]_vars => TypeInv'
  BY TypeStep, StagedStep, DecidedStep DEF TypeInv
<1> QED
  BY <1>1, <1>2, PTL DEF Spec

(* Enquiries, leads, cards, stages and decisions keep their types.         *)
THEOREM TypeCorrect == Spec => []TypeOK
<1>1. TypeInv => TypeOK
  BY DEF TypeInv
<1> QED
  BY <1>1, TypeInvariant, PTL

-----------------------------------------------------------------------------
(* The gate. The row of a key belongs to one open transaction, or stands   *)
(* for the lead that was made under the key.                               *)
Open(a) == pc[a] \in {"gated", "upserted", "staged", "checked"}

GateInv ==
  /\ \A a \in Attempts : Open(a) => gate[KeyOf[a]] = "held"
  /\ \A a, b \in Attempts : Open(a) /\ Open(b) /\ KeyOf[a] = KeyOf[b] => a = b
  /\ \A a \in Attempts : Made(a) => gate[KeyOf[a]] = "taken"
  /\ \A k \in Keys : gate[k] = "taken" => \E a \in Attempts : Made(a) /\ KeyOf[a] = k
  /\ \A a \in Attempts : pc[a] = "accepted" => gate[KeyOf[a]] = "taken"
  /\ OneLeadPerKey

LEMMA CommitMakes ==
  ASSUME TypeOK, NEW a \in Attempts, Commit(a)
  PROVE  /\ Made(a)' /\ Kept(a)' /\ lead'[a].on = PhoneOf[a]
         /\ lead'[a].stage = tx[a].stage /\ lead'[a].state = "open"
         /\ lead'[a].repeat = tx[a].repeat
         /\ \A b \in Attempts \ {a} : lead'[b] = lead[b]
<1>1. /\ lead'[a] = [on |-> PhoneOf[a], stage |-> tx[a].stage,
                     state |-> "open", repeat |-> tx[a].repeat]
      /\ \A b \in Attempts \ {a} : lead'[b] = lead[b]
  BY DEF Commit, TypeOK
<1>2. lead'[a] # NoLead
  BY <1>1 DEF NoLead
<1> QED
  BY <1>1, <1>2 DEF Made, Kept

LEMMA GateStep == TypeOK /\ DecidedInv /\ GateInv /\ [Next]_vars => GateInv'
<1> SUFFICES ASSUME TypeOK, DecidedInv, GateInv, [Next]_vars PROVE GateInv'
  OBVIOUS
<1> USE CrmAssumption
<1>1. ASSUME UNCHANGED <<pc, gate>>, \A a \in Attempts : Made(a)' <=> Made(a)
      PROVE  GateInv'
  BY <1>1 DEF GateInv, Open, OneLeadPerKey
<1>2. ASSUME NEW a \in Attempts, Commit(a) PROVE GateInv'
  <2>1. /\ Open(a) /\ ~Open(a)' /\ gate' = [gate EXCEPT ![KeyOf[a]] = "taken"]
        /\ \A b \in Attempts \ {a} : pc'[b] = pc[b]
    BY <1>2 DEF Commit, Open, TypeOK
  <2>2. Made(a)' /\ \A b \in Attempts \ {a} : Made(b)' <=> Made(b)
    BY <1>2, CommitMakes DEF Made
  <2>3. \A b \in Attempts : KeyOf[b] = KeyOf[a] => ~Made(b)
    BY <2>1 DEF GateInv
  <2>4. \A b \in Attempts : Open(b)' => Open(b) /\ KeyOf[b] # KeyOf[a]
    BY <2>1 DEF GateInv, Open
  <2>5. \A k \in Keys : gate'[k] = IF k = KeyOf[a] THEN "taken" ELSE gate[k]
    BY <2>1 DEF TypeOK
  <2>6. /\ \A b \in Attempts : Open(b)' => gate'[KeyOf[b]] = "held"
        /\ \A b, c \in Attempts : Open(b)' /\ Open(c)' /\ KeyOf[b] = KeyOf[c] => b = c
        /\ \A b \in Attempts : Made(b)' => gate'[KeyOf[b]] = "taken"
    BY <2>2, <2>4, <2>5 DEF GateInv
  <2>7. ASSUME NEW k \in Keys, gate'[k] = "taken"
        PROVE  \E b \in Attempts : Made(b)' /\ KeyOf[b] = k
    BY <2>2, <2>5, <2>7 DEF GateInv
  <2>8. \A b \in Attempts : pc'[b] = "accepted" => gate'[KeyOf[b]] = "taken"
    BY <2>1, <2>5 DEF GateInv
  <2>9. OneLeadPerKey'
    BY <2>2, <2>3 DEF GateInv, OneLeadPerKey
  <2> QED
    BY <2>6, <2>7, <2>8, <2>9 DEF GateInv
<1>3. ASSUME NEW a \in Attempts, Submit(a), ~Commit(a) PROVE GateInv'
  <2>0. \A b \in Attempts : Made(b)' <=> Made(b)
    BY <1>3 DEF Submit, Refuse, Gate, Replay, Upsert, ReadEntry, ReadRecent, Abort, Made
  <2>1. ASSUME Refuse(a) \/ Replay(a) \/ Upsert(a) \/ ReadEntry(a) \/ ReadRecent(a)
        PROVE  GateInv'
    <3>1. /\ gate' = gate /\ \A b \in Attempts \ {a} : pc'[b] = pc[b]
          /\ Open(a)' => Open(a)
          /\ pc'[a] = "accepted" => gate[KeyOf[a]] = "taken"
      BY <2>1 DEF Refuse, Replay, Upsert, ReadEntry, ReadRecent, Open, TypeOK
    <3> QED
      BY <2>0, <3>1 DEF GateInv, Open, OneLeadPerKey
  <2>2. ASSUME Gate(a) PROVE GateInv'
    <3>1. /\ gate[KeyOf[a]] = "free" /\ gate' = [gate EXCEPT ![KeyOf[a]] = "held"]
          /\ pc' = [pc EXCEPT ![a] = "gated"]
      BY <2>2 DEF Gate, GateOpen
    <3> QED
      BY <2>0, <3>1 DEF GateInv, Open, OneLeadPerKey, TypeOK
  <2>3. ASSUME Abort(a) PROVE GateInv'
    <3>1. /\ Open(a) /\ gate' = [gate EXCEPT ![KeyOf[a]] = "free"]
          /\ pc' = [pc EXCEPT ![a] = "failed"]
      BY <2>3 DEF Abort, AfterAbort, Open
    <3>2. gate[KeyOf[a]] = "held"
      BY <3>1 DEF GateInv
    <3> QED
      BY <2>0, <3>1, <3>2 DEF GateInv, Open, OneLeadPerKey, TypeOK
  <2> QED
    BY <1>3, <2>1, <2>2, <2>3 DEF Submit
<1>4. ASSUME PanelStep PROVE GateInv'
  <2>1. UNCHANGED <<pc, gate>> /\ \A a \in Attempts : ~Commit(a)
    BY <1>4, PanelLeavesIntake DEF intake, Commit, TypeOK
  <2>2. \A a \in Attempts : LeadMove(a)
    BY LeadStep
  <2> QED
    BY <1>1, <2>1, <2>2 DEF LeadMove
<1> QED
  BY <1>2, <1>3, <1>4, Steps

LEMMA GateInvariant == Spec => []GateInv
<1>1. Init => GateInv
  BY CrmAssumption DEF Init, GateInv, Open, Made, OneLeadPerKey
<1>2. TypeInv /\ GateInv /\ [Next]_vars => GateInv'
  BY GateStep DEF TypeInv
<1> QED
  BY <1>1, <1>2, TypeInvariant, PTL DEF Spec

(* However often a form is sent, and whichever of its attempts fail, at    *)
(* most one lead is made under its key.                                    *)
THEOREM KeysMakeOneLead == Spec => []OneLeadPerKey
<1>1. GateInv => OneLeadPerKey
  BY DEF GateInv
<1> QED
  BY <1>1, GateInvariant, PTL

(* Whoever is told that the enquiry was received has a lead under the key. *)
THEOREM AcceptedAreStored == Spec => []AcceptedHasLead
<1>1. GateInv => AcceptedHasLead
  BY CrmAssumption DEF GateInv, AcceptedHasLead
<1> QED
  BY <1>1, GateInvariant, PTL

-----------------------------------------------------------------------------
(* Repeats. The upsert keeps enquiries of one customer apart from the read *)
(* of recent leads to the commit, so a lead not marked had no predecessor. *)
Locked(a) == pc[a] \in {"upserted", "staged", "checked"}

RepeatInv ==
  /\ \A a, b \in Attempts : Locked(a) /\ Locked(b) /\ PhoneOf[a] = PhoneOf[b] => a = b
  /\ \A a \in Attempts : Made(a) /\ a \notin carried => lead[a].on = PhoneOf[a]
  /\ \A a, b \in Attempts :
       /\ pc[a] = "checked" /\ ~tx[a].repeat
       /\ Kept(b) /\ b \notin carried
       => PhoneOf[b] # PhoneOf[a]
  /\ RepeatIsMarked

LEMMA RepeatStep == TypeOK /\ DecidedInv /\ RepeatInv /\ [Next]_vars => RepeatInv'
<1> SUFFICES ASSUME TypeOK, DecidedInv, RepeatInv, [Next]_vars PROVE RepeatInv'
  OBVIOUS
<1> USE CrmAssumption
<1>1. \A a \in Attempts : LeadMove(a) /\ carried \subseteq carried'
  BY LeadStep
<1>2. ASSUME \A a \in Attempts : ~Commit(a) PROVE RepeatIsMarked'
  BY <1>1, <1>2 DEF RepeatInv, RepeatIsMarked, LeadMove
<1>3. ASSUME \A a \in Attempts : ~Commit(a)
      PROVE  \A a \in Attempts : Made(a)' /\ a \notin carried' => lead'[a].on = PhoneOf[a]
  BY <1>1, <1>3 DEF RepeatInv, LeadMove
<1>4. ASSUME \A a \in Attempts : ~Commit(a),
             NEW a \in Attempts, NEW b \in Attempts,
             pc'[a] = "checked", ~tx'[a].repeat, Kept(b)', b \notin carried',
             PhoneOf[b] = PhoneOf[a], pc[a] = "checked", tx'[a] = tx[a]
      PROVE  FALSE
  BY <1>1, <1>4 DEF RepeatInv, LeadMove
<1>5. ASSUME NEW a \in Attempts, Commit(a) PROVE RepeatInv'
  <2>1. /\ pc[a] = "checked" /\ Locked(a) /\ ~Locked(a)' /\ carried' = carried
        /\ \A b \in Attempts \ {a} : pc'[b] = pc[b] /\ tx'[b] = tx[b]
    BY <1>5 DEF Commit, Locked, TypeOK
  <2>2. /\ lead'[a].on = PhoneOf[a] /\ lead'[a].repeat = tx[a].repeat
        /\ \A b \in Attempts \ {a} : lead'[b] = lead[b]
    BY <1>5, CommitMakes
  <2>3. \A b, c \in Attempts : Locked(b)' /\ Locked(c)' /\ PhoneOf[b] = PhoneOf[c] => b = c
    BY <2>1 DEF RepeatInv, Locked
  <2>4. \A b \in Attempts : Made(b)' /\ b \notin carried' => lead'[b].on = PhoneOf[b]
    BY <2>1, <2>2 DEF RepeatInv, Made
  <2>5. ASSUME NEW b \in Attempts, NEW c \in Attempts,
               pc'[b] = "checked", ~tx'[b].repeat, Kept(c)', c \notin carried'
        PROVE  PhoneOf[c] # PhoneOf[b]
    <3>1. b # a /\ pc[b] = "checked" /\ ~tx[b].repeat /\ Locked(b)
      BY <2>1, <2>5 DEF Locked
    <3>2. CASE c = a
      BY <2>1, <3>1, <3>2 DEF RepeatInv
    <3>3. CASE c # a
      BY <2>1, <2>2, <2>5, <3>1, <3>3 DEF RepeatInv, Kept
    <3> QED
      BY <3>2, <3>3
  <2>6. \A b \in Attempts \ {a} :
          Kept(b) /\ b \notin carried /\ PhoneOf[b] = PhoneOf[a] => lead'[a].repeat
    BY <2>1, <2>2 DEF RepeatInv
  <2>7. RepeatIsMarked'
    BY <2>1, <2>2, <2>6 DEF RepeatInv, RepeatIsMarked, Kept
  <2> QED
    BY <2>3, <2>4, <2>5, <2>7 DEF RepeatInv
<1>6. ASSUME NEW a \in Attempts, Submit(a), ~Commit(a) PROVE RepeatInv'
  <2>1. \A b \in Attempts \ {a} : pc'[b] = pc[b] /\ tx'[b] = tx[b]
    BY <1>6 DEF Submit, Refuse, Gate, Replay, Upsert, ReadEntry, ReadRecent, Abort, TypeOK
  <2>0. ASSUME NEW b \in Attempts, Commit(b) PROVE FALSE
    <3>1. pc'[b] # pc[b]
      BY <2>0 DEF Commit, TypeOK
    <3> QED
      BY <1>6, <2>0, <2>1, <3>1
  <2>2. \A b, c \in Attempts : Locked(b)' /\ Locked(c)' /\ PhoneOf[b] = PhoneOf[c] => b = c
    <3>1. CASE Upsert(a)
      BY <2>1, <3>1 DEF Upsert, CardFree, Locks, Locked, RepeatInv, TypeOK
    <3>2. CASE ~Upsert(a)
      <4>1. Locked(a)' => Locked(a)
        BY <1>6, <3>2 DEF Submit, Refuse, Gate, Replay, ReadEntry, ReadRecent, Abort,
                          Locked, TypeOK
      <4> QED
        BY <2>1, <4>1 DEF Locked, RepeatInv
    <3> QED
      BY <3>1, <3>2
  <2>3. ASSUME NEW b \in Attempts, NEW c \in Attempts,
               pc'[b] = "checked", ~tx'[b].repeat, Kept(c)', c \notin carried',
               PhoneOf[c] = PhoneOf[b]
        PROVE  FALSE
    <3>1. CASE b # a
      BY <1>4, <2>0, <2>1, <2>3, <3>1
    <3>2. CASE b = a
      <4>1. ReadRecent(a)
        BY <1>6, <2>3, <3>2 DEF Submit, Refuse, Gate, Replay, Upsert, ReadEntry, Abort,
                                TypeOK
      <4>2. LeadsOf(PhoneOf[a]) = {}
        <5> DEFINE r == LeadsOf(PhoneOf[a]) # {}
        <5>1. r \in BOOLEAN /\ tx' = [tx EXCEPT ![a].repeat = r]
          BY <4>1 DEF ReadRecent
        <5> HIDE DEF r
        <5>2. tx'[a].repeat = r
          BY <5>1 DEF TypeOK
        <5>3. ~r
          BY <2>3, <3>2, <5>2
        <5> QED
          BY <5>3 DEF r
      <4>3. Kept(c) /\ c \notin carried /\ lead[c].on = PhoneOf[c]
        BY <1>1, <2>0, <2>3, KeptIsMade DEF LeadMove, RepeatInv
      <4> QED
        BY <2>3, <3>2, <4>2, <4>3 DEF LeadsOf
    <3> QED
      BY <3>1, <3>2
  <2> QED
    BY <1>2, <1>3, <2>0, <2>2, <2>3 DEF RepeatInv
<1>7. ASSUME PanelStep PROVE RepeatInv'
  <2>1. UNCHANGED <<pc, tx>> /\ \A a \in Attempts : ~Commit(a)
    BY <1>7, PanelLeavesIntake DEF intake, Commit, TypeOK
  <2>2. ASSUME NEW b \in Attempts, NEW c \in Attempts,
               pc'[b] = "checked", ~tx'[b].repeat, Kept(c)', c \notin carried',
               PhoneOf[c] = PhoneOf[b]
        PROVE  FALSE
    BY <1>4, <2>1, <2>2
  <2>3. \A b, c \in Attempts : Locked(b)' /\ Locked(c)' /\ PhoneOf[b] = PhoneOf[c] => b = c
    BY <2>1 DEF Locked, RepeatInv
  <2> QED
    BY <1>2, <1>3, <2>1, <2>2, <2>3 DEF RepeatInv
<1> QED
  BY <1>5, <1>6, <1>7, Steps

LEMMA RepeatInvariant == Spec => []RepeatInv
<1>1. Init => RepeatInv
  BY DEF Init, RepeatInv, Locked, Made, Kept, NoLead, RepeatIsMarked
<1>2. TypeInv /\ RepeatInv /\ [Next]_vars => RepeatInv'
  BY RepeatStep DEF TypeInv
<1> QED
  BY <1>1, <1>2, TypeInvariant, PTL DEF Spec

(* Of two enquiries one customer left, one is marked a possible repeat,    *)
(* even when both were sent at the same moment.                            *)
THEOREM RepeatsAreMarked == Spec => []RepeatIsMarked
<1>1. RepeatInv => RepeatIsMarked
  BY DEF RepeatInv
<1> QED
  BY <1>1, RepeatInvariant, PTL

-----------------------------------------------------------------------------
(* The board. A lead stays where it was, or goes to a stage which marks it *)
(* if it is leaving.                                                       *)
StageMove(a) ==
  Kept(a)' => \/ /\ Kept(a) /\ lead'[a].stage = lead[a].stage
                 /\ a \in misplaced => a \in misplaced'
              \/ Leaving(lead'[a].stage) => a \in misplaced'

LEMMA StageStep ==
  ASSUME TypeOK, DecidedInv, [Next]_vars, NEW a \in Attempts
  PROVE  StageMove(a)
<1>1. ASSUME lead' = lead, misplaced' = misplaced PROVE StageMove(a)
  BY <1>1 DEF StageMove, Kept
<1>2. ASSUME NEW b \in Attempts, Submit(b) PROVE StageMove(a)
  <2>1. CASE Commit(b)
    <3>1. /\ lead'[b].stage = tx[b].stage
          /\ \A c \in Attempts \ {b} : lead'[c] = lead[c]
      BY <2>1, CommitMakes
    <3>2. misplaced' = IF Leaving(tx[b].stage) THEN misplaced \union {b} ELSE misplaced \ {b}
      BY <2>1, Zenon DEF Commit, Mark
    <3> QED
      BY <3>1, <3>2 DEF StageMove, Kept
  <2>2. CASE ~Commit(b)
    BY <1>1, <1>2, <2>2 DEF Submit, Refuse, Gate, Replay, Upsert, ReadEntry, ReadRecent,
                            Abort, history
  <2> QED
    BY <2>1, <2>2
<1>3. ASSUME NEW b \in Attempts, ArchiveLead(b) \/ RestoreLead(b) PROVE StageMove(a)
  <2>1. PICK s \in {"open", "archived"} : lead' = [lead EXCEPT ![b].state = s]
    BY <1>3 DEF ArchiveLead, RestoreLead
  <2>2. Kept(b) /\ misplaced' = misplaced
    BY <1>3 DEF ArchiveLead, RestoreLead, Kept, history
  <2>3. Changed(b, lead[b].stage, s)
    BY <2>1, <2>2, StateChanged, KeptIsMade
  <2> QED
    BY <2>2, <2>3 DEF StageMove, Changed, Kept
<1>4. ASSUME NEW d \in Admins, DeleteLead(d) PROVE StageMove(a)
  <2>1. session[d].lead \in Attempts /\ Made(session[d].lead) /\ misplaced' = misplaced
    BY <1>4, DecisionFacts DEF DeleteLead, TypeOK, DecidedInv, history
  <2>2. Changed(session[d].lead, lead[session[d].lead].stage, "deleted")
    BY <1>4, <2>1, StateChanged DEF DeleteLead
  <2> QED
    BY <2>1, <2>2 DEF StageMove, Changed, Kept
<1>5. ASSUME NEW d \in Admins, ChangeLeadStatus(d) PROVE StageMove(a)
  <2> DEFINE b == session[d].lead
             x == session[d].stage
  <2>1. b \in Attempts /\ Made(b) /\ x \in Stages
    BY <1>5, DecisionFacts DEF ChangeLeadStatus, TypeOK, DecidedInv
  <2>2. Changed(b, x, lead[b].state)
    BY <1>5, <2>1, StageChanged DEF ChangeLeadStatus
  <2>3. misplaced' = IF Leaving(x) THEN misplaced \union {b} ELSE misplaced \ {b}
    BY <1>5, Zenon DEF ChangeLeadStatus, Mark
  <2> QED
    BY <2>2, <2>3 DEF StageMove, Changed, Kept
<1>6. ASSUME NEW d \in Admins, ArchiveStage(d) PROVE StageMove(a)
  <2>1. PICK S \in SUBSET Attempts :
          /\ S = IF session[d].to = session[d].stage THEN {} ELSE OnStage(session[d].stage)
          /\ \A b \in S : Made(b)
          /\ lead' = [b \in Attempts |->
               IF b \in S THEN [lead[b] EXCEPT !.stage = session[d].to] ELSE lead[b]]
    BY <1>6, ArchivedLeads, Zenon
  <2>2. misplaced' = IF Leaving(session[d].to) THEN misplaced \union S ELSE misplaced \ S
    BY <1>6, <2>1, Zenon DEF ArchiveStage, Mark
  <2>3. session[d].to \in Stages
    BY <1>6, DecisionFacts DEF ArchiveStage, TypeOK
  <2>4. /\ \A b \in Attempts \ S : lead'[b] = lead[b]
        /\ \A b \in S : lead'[b].stage = session[d].to
    BY <2>1, <2>3, StagesChanged
  <2> QED
    BY <2>2, <2>4 DEF StageMove, Kept
<1>7. ASSUME NEW d \in Admins, MergeContacts(d) PROVE StageMove(a)
  <2>1. session[d].keep \in Phones /\ misplaced' = misplaced
    BY <1>7, DecisionFacts DEF MergeContacts, TypeOK
  <2>2. PICK S \in SUBSET Attempts :
          /\ \A b \in S : Made(b)
          /\ lead' = [b \in Attempts |->
               IF b \in S THEN [lead[b] EXCEPT !.on = session[d].keep] ELSE lead[b]]
    BY <1>7, CarriedLeads, Zenon
  <2>3. /\ \A b \in Attempts \ S : lead'[b] = lead[b]
        /\ \A b \in S : lead'[b].stage = lead[b].stage /\ lead'[b].state = lead[b].state
    BY <2>1, <2>2, CardsChanged
  <2> QED
    BY <2>1, <2>3 DEF StageMove, Kept
<1> QED
  <2>1. ASSUME PanelStep PROVE StageMove(a)
    BY <2>1, <1>1, <1>3, <1>4, <1>5, <1>6, <1>7
    DEF PanelStep, CreateStage, RestoreStage, FirstMessage, ArchiveContact,
        RestoreContact, Decide, GiveUp, SetDefaultEntry, DeleteContact, MoveLeads,
        vars, history
  <2> QED
    BY <1>2, <2>1, Steps

(* What a step does to the stages.                                         *)
LEMMA BoardStep ==
  ASSUME TypeOK, [Next]_vars, NEW x \in Stages
  PROVE  \/ board'[x] = board[x]
         \/ board'[x] = "active"
         \/ \E d \in Admins : /\ ArchiveStage(d) /\ session[d].stage = x
                              /\ board'[x] = "archived"
<1>1. ASSUME NEW a \in Attempts, Submit(a) PROVE board' = board
  BY <1>1 DEF Submit, Refuse, Gate, Replay, Upsert, ReadEntry, ReadRecent, Commit, Abort,
              pipeline
<1>2. ASSUME NEW d \in Admins, ArchiveStage(d)
      PROVE  IF x = session[d].stage THEN board'[x] = "archived" ELSE board'[x] = board[x]
  BY <1>2, DecisionFacts DEF ArchiveStage, TypeOK
<1> QED
  BY <1>1, <1>2, Steps
  DEF PanelStep, TypeOK, ArchiveLead, RestoreLead, CreateStage, RestoreStage,
      FirstMessage, ArchiveContact, RestoreContact, Decide, GiveUp, DeleteLead,
      ChangeLeadStatus, SetDefaultEntry, DeleteContact, MoveLeads, MergeContacts, vars,
      pipeline

BoardInv ==
  /\ LeadIsOnBoard
  /\ \A d \in Admins : session[d].op = "archiveStage" /\ session[d].to = session[d].stage =>
       \A a \in Attempts : Kept(a) /\ lead[a].stage = session[d].stage => a \in misplaced
  /\ \A d \in Admins : session[d].op = "entry" => board[session[d].stage] # "absent"
  /\ \/ misentered
     \/ /\ entry \in Stages /\ board[entry] = "active"
        /\ \A d \in Admins : session[d].op = "archiveStage" => session[d].stage # entry

LEMMA LeadsStayOnBoard ==
  TypeInv /\ BoardInv /\ [Next]_vars => LeadIsOnBoard'
<1> SUFFICES ASSUME TypeOK, StagedInv, DecidedInv, BoardInv, [Next]_vars, NEW a \in Attempts,
                    Kept(a)', board'[lead'[a].stage] = "archived"
             PROVE  a \in misplaced'
  BY DEF LeadIsOnBoard, TypeInv
<1> DEFINE x == lead'[a].stage
<1>0. x \in Stages
  <2>1. lead' \in [Attempts -> Lead]
    BY TypeStep DEF TypeOK, Lead
  <2> QED
    BY <2>1, LeadFacts DEF Kept
<1>1. StageMove(a)
  BY StageStep
<1>2. CASE board[x] = "archived"
  BY <1>1, <1>2 DEF StageMove, BoardInv, LeadIsOnBoard, Leaving
<1>3. ASSUME NEW d \in Admins, ArchiveStage(d), session[d].stage = x
      PROVE  a \in misplaced'
  <2>1. session[d].op = "archiveStage"
    BY <1>3 DEF ArchiveStage
  <2>2. Leaving(x)
    BY <1>3, <2>1 DEF Leaving
  <2>3. PICK S \in SUBSET Attempts :
          /\ S = IF session[d].to = x THEN {} ELSE OnStage(x)
          /\ \A b \in S : Made(b)
          /\ lead' = [b \in Attempts |->
               IF b \in S THEN [lead[b] EXCEPT !.stage = session[d].to] ELSE lead[b]]
    BY <1>3, ArchivedLeads, Zenon
  <2>4. session[d].to \in Stages
    BY <1>3, DecisionFacts DEF ArchiveStage, TypeOK
  <2>5. /\ \A b \in Attempts \ S : lead'[b] = lead[b]
        /\ \A b \in S : lead'[b].stage = session[d].to
    BY <2>3, <2>4, StagesChanged
  <2>6. CASE session[d].to = x
    <3>1. lead'[a] = lead[a]
      BY <2>3, <2>5, <2>6
    <3> QED
      BY <1>1, <1>3, <2>1, <2>2, <2>6, <3>1 DEF BoardInv, StageMove, Kept
  <2>7. CASE session[d].to # x
    BY <2>3, <2>5, <2>7 DEF OnStage, Kept
  <2> QED
    BY <2>6, <2>7
<1> QED
  BY <1>0, <1>2, <1>3, BoardStep

LEMMA BoardInvStep == TypeInv /\ BoardInv /\ [Next]_vars => BoardInv'
<1> SUFFICES ASSUME TypeInv, BoardInv, [Next]_vars PROVE BoardInv'
  OBVIOUS
<1>0. TypeOK /\ DecidedInv
  BY DEF TypeInv
<1> USE <1>0
<1>1. LeadIsOnBoard'
  BY LeadsStayOnBoard
<1>2. ASSUME NEW d \in Admins,
             session'[d].op = "archiveStage", session'[d].to = session'[d].stage,
             NEW a \in Attempts, Kept(a)', lead'[a].stage = session'[d].stage
      PROVE  a \in misplaced'
  <2>1. CASE session'[d] = session[d]
    BY <1>2, <2>1, StageStep DEF StageMove, BoardInv, Leaving
  <2>2. ASSUME NEW x \in Stages, NEW to \in Stages, DecideArchive(d, x, to)
        PROVE  FALSE
    <3>1. session'[d] = [op |-> "archiveStage", stage |-> x, to |-> to] /\ lead' = lead
      BY <2>2 DEF DecideArchive, Decide, TypeOK
    <3>2. OnStage(x) = {}
      BY <1>2, <2>2, <3>1 DEF DecideArchive
    <3> QED
      BY <1>2, <3>1, <3>2 DEF OnStage, Kept
  <2>3. session'[d] = session[d] \/ \E x, to \in Stages : DecideArchive(d, x, to)
    BY <1>2, SessionStep
    DEF SessionMove, Decide, DecideDelete, DecideStatus, DecideEntry,
        DecideDeleteContact, DecideMerge, MoveLeads, Nobody, TypeOK
  <2> QED
    BY <2>1, <2>2, <2>3
<1>3. ASSUME NEW d \in Admins, session'[d].op = "entry"
      PROVE  board'[session'[d].stage] # "absent"
  <2>1. session'[d] = session[d] \/ \E x \in Stages : DecideEntry(d, x)
    <3>1. CASE \E x \in Stages : DecideEntry(d, x) \/ \E to \in Stages : DecideArchive(d, x, to)
      <4>1. ASSUME NEW x \in Stages, NEW to \in Stages, DecideArchive(d, x, to) PROVE FALSE
        BY <1>3, <4>1 DEF DecideArchive, Decide, TypeOK
      <4> QED
        BY <3>1, <4>1
    <3>2. CASE ~\E x \in Stages : DecideEntry(d, x) \/ \E to \in Stages : DecideArchive(d, x, to)
      BY <1>3, <3>2, SessionStep
      DEF SessionMove, Decide, DecideDelete, DecideStatus, DecideDeleteContact,
          DecideMerge, MoveLeads, Nobody, TypeOK
    <3> QED
      BY <3>1, <3>2
  <2>2. CASE session'[d] = session[d]
    <3>1. session[d].stage \in Stages
      BY <1>3, <2>2, DecisionFacts DEF TypeOK
    <3> QED
      BY <1>3, <2>2, <3>1, BoardStep DEF BoardInv
  <2>3. ASSUME NEW x \in Stages, DecideEntry(d, x) PROVE board'[session'[d].stage] # "absent"
    BY <2>3 DEF DecideEntry, Decide, TypeOK, pipeline
  <2> QED
    BY <2>1, <2>2, <2>3
<1>4. \/ misentered'
      \/ /\ entry' \in Stages /\ board'[entry'] = "active"
         /\ \A d \in Admins : session'[d].op = "archiveStage" => session'[d].stage # entry'
  <2>1. ASSUME NEW d \in Admins, SetDefaultEntry(d), ~misentered'
        PROVE  /\ entry' \in Stages /\ board'[entry'] = "active"
               /\ \A e \in Admins : session'[e].op = "archiveStage"
                                     => session'[e].stage # entry'
    <3>1. /\ session[d] \in Decision /\ session[d].op = "entry"
          /\ entry' = session[d].stage /\ board' = board
          /\ session' = [session EXCEPT ![d] = Nobody] /\ ~Leaving(session[d].stage)
      BY <2>1 DEF SetDefaultEntry, Done, TypeOK
    <3>2. session[d].stage \in Stages
      BY <3>1, DecisionFacts
    <3>3. board[session[d].stage] = "active"
      BY <3>1, <3>2 DEF Leaving, BoardInv, TypeOK
    <3> QED
      BY <3>1, <3>2, <3>3 DEF Leaving, Nobody, TypeOK
  <2>2. CASE misentered /\ misentered' = misentered
    BY <2>2
  <2>3. ASSUME ~misentered, misentered' = misentered, entry' = entry,
               \A d \in Admins : ~(ArchiveStage(d) /\ session[d].stage = entry)
        PROVE  /\ entry' \in Stages /\ board'[entry'] = "active"
               /\ \A d \in Admins : session'[d].op = "archiveStage"
                                     => session'[d].stage # entry'
    <3>1. entry \in Stages /\ board'[entry] = "active"
      BY <2>3, BoardStep DEF BoardInv
    <3>2. ASSUME NEW d \in Admins, session'[d].op = "archiveStage"
          PROVE  session'[d].stage # entry
      <4>1. session'[d] = session[d] \/ \E x, to \in Stages : DecideArchive(d, x, to)
        BY <3>2, SessionStep
        DEF SessionMove, Decide, DecideDelete, DecideStatus, DecideEntry,
            DecideDeleteContact, DecideMerge, MoveLeads, Nobody, TypeOK
      <4>2. CASE session'[d] = session[d]
        BY <2>3, <3>2, <4>2 DEF BoardInv
      <4>3. CASE \E x, to \in Stages : DecideArchive(d, x, to)
        BY <4>3 DEF DecideArchive, NotEntry, Decide, TypeOK
      <4> QED
        BY <4>1, <4>2, <4>3
    <3> QED
      BY <2>3, <3>1, <3>2
  <2>4. ASSUME NEW d \in Admins, ArchiveStage(d), ~misentered
        PROVE  session[d].stage # entry /\ entry' = entry /\ misentered' = misentered
    BY <2>4 DEF ArchiveStage, BoardInv
  <2>5. \/ \E d \in Admins : SetDefaultEntry(d) \/ ArchiveStage(d)
        \/ entry' = entry /\ misentered' = misentered
    <3>1. ASSUME NEW a \in Attempts, Submit(a)
          PROVE  entry' = entry /\ misentered' = misentered
      BY <3>1 DEF Submit, Refuse, Gate, Replay, Upsert, ReadEntry, ReadRecent, Commit,
                  Abort, pipeline, history
    <3> QED
      BY <3>1, Steps
      DEF PanelStep, ArchiveLead, RestoreLead, CreateStage, RestoreStage, FirstMessage,
          ArchiveContact, RestoreContact, Decide, GiveUp, DeleteLead, ChangeLeadStatus,
          DeleteContact, MoveLeads, MergeContacts, vars, pipeline, history
  <2>6. \A d \in Admins : ArchiveStage(d) => misentered' = misentered
    BY DEF ArchiveStage
  <2> QED
    BY <2>1, <2>2, <2>3, <2>4, <2>5, <2>6
<1> QED
  BY <1>1, <1>2, <1>3, <1>4 DEF BoardInv

LEMMA BoardInvariant == Spec => []BoardInv
<1>1. Init => BoardInv
  BY CrmAssumption DEF Init, BoardInv, LeadIsOnBoard, Kept, NoLead, Nobody
<1>2. TypeInv /\ BoardInv /\ [Next]_vars => BoardInv'
  BY BoardInvStep
<1> QED
  BY <1>1, <1>2, TypeInvariant, PTL DEF Spec

(* No lead, and not the entry point, is on a stage off the board, but for  *)
(* what was put there when the stage was leaving.                          *)
THEOREM WorkStaysOnBoard == Spec => []BoardHoldsWork
<1>1. TypeOK /\ BoardInv => BoardHoldsWork
  BY CrmAssumption DEF BoardInv, BoardHoldsWork, EntryIsOnBoard
<1> QED
  BY <1>1, BoardInvariant, TypeCorrect, PTL

-----------------------------------------------------------------------------
(* The cards. A lead in the working lists was there, on the card it is on, *)
(* or came to a card which marks it if it is being removed.                *)
CardMove(a) ==
  lead'[a].state = "open" =>
    \/ /\ lead[a].state = "open" /\ lead'[a].on = lead[a].on
       /\ a \in stranded => a \in stranded'
    \/ Removing(lead'[a].on) => a \in stranded'

LEMMA CardStep ==
  ASSUME TypeOK, DecidedInv, [Next]_vars, NEW a \in Attempts
  PROVE  CardMove(a)
<1>1. ASSUME lead' = lead, stranded' = stranded PROVE CardMove(a)
  BY <1>1 DEF CardMove
<1>2. ASSUME NEW b \in Attempts, Submit(b) PROVE CardMove(a)
  <2>1. CASE Commit(b)
    <3>1. /\ lead'[b].on = PhoneOf[b]
          /\ \A c \in Attempts \ {b} : lead'[c] = lead[c]
      BY <2>1, CommitMakes
    <3>2. stranded' = IF Removing(PhoneOf[b]) THEN stranded \union {b} ELSE stranded \ {b}
      BY <2>1, Zenon DEF Commit, Mark
    <3> QED
      BY <3>1, <3>2 DEF CardMove
  <2>2. CASE ~Commit(b)
    BY <1>1, <1>2, <2>2 DEF Submit, Refuse, Gate, Replay, Upsert, ReadEntry, ReadRecent,
                            Abort, history
  <2> QED
    BY <2>1, <2>2
<1>3. ASSUME NEW b \in Attempts, ArchiveLead(b) PROVE CardMove(a)
  <2>1. Made(b) /\ stranded' = stranded
    BY <1>3, KeptIsMade DEF ArchiveLead, Kept, history
  <2>2. Changed(b, lead[b].stage, "archived")
    BY <1>3, <2>1, StateChanged DEF ArchiveLead
  <2> QED
    BY <2>1, <2>2 DEF CardMove, Changed
<1>4. ASSUME NEW b \in Attempts, RestoreLead(b) PROVE CardMove(a)
  <2>1. Made(b)
    BY <1>4, KeptIsMade DEF RestoreLead, Kept
  <2>2. Changed(b, lead[b].stage, "open")
    BY <1>4, <2>1, StateChanged DEF RestoreLead
  <2>3. stranded' = IF Removing(lead[b].on) THEN stranded \union {b} ELSE stranded \ {b}
    BY <1>4, Zenon DEF RestoreLead, Mark
  <2> QED
    BY <2>2, <2>3 DEF CardMove, Changed
<1>5. ASSUME NEW d \in Admins, DeleteLead(d) \/ ChangeLeadStatus(d) PROVE CardMove(a)
  <2>1. session[d].lead \in Attempts /\ Made(session[d].lead) /\ stranded' = stranded
    BY <1>5, DecisionFacts DEF DeleteLead, ChangeLeadStatus, TypeOK, DecidedInv, history
  <2>2. ASSUME DeleteLead(d) PROVE CardMove(a)
    <3>1. Changed(session[d].lead, lead[session[d].lead].stage, "deleted")
      BY <2>1, <2>2, StateChanged DEF DeleteLead
    <3> QED
      BY <2>1, <3>1 DEF CardMove, Changed
  <2>3. ASSUME ChangeLeadStatus(d) PROVE CardMove(a)
    <3>1. session[d].stage \in Stages
      BY <2>3, DecisionFacts DEF ChangeLeadStatus, TypeOK
    <3>2. Changed(session[d].lead, session[d].stage, lead[session[d].lead].state)
      BY <2>1, <2>3, <3>1, StageChanged DEF ChangeLeadStatus
    <3> QED
      BY <2>1, <3>2 DEF CardMove, Changed
  <2> QED
    BY <1>5, <2>2, <2>3
<1>6. ASSUME NEW d \in Admins, ArchiveStage(d) PROVE CardMove(a)
  <2>1. PICK S \in SUBSET Attempts :
          /\ \A b \in S : Made(b)
          /\ lead' = [b \in Attempts |->
               IF b \in S THEN [lead[b] EXCEPT !.stage = session[d].to] ELSE lead[b]]
    BY <1>6, ArchivedLeads, Zenon
  <2>2. session[d].to \in Stages /\ stranded' = stranded
    BY <1>6, DecisionFacts DEF ArchiveStage, TypeOK
  <2>3. /\ \A b \in Attempts \ S : lead'[b] = lead[b]
        /\ \A b \in S : lead'[b].on = lead[b].on /\ lead'[b].state = lead[b].state
    BY <2>1, <2>2, StagesChanged
  <2> QED
    BY <2>2, <2>3 DEF CardMove
<1>7. ASSUME NEW d \in Admins, MergeContacts(d) PROVE CardMove(a)
  <2>1. PICK S \in SUBSET Attempts :
          /\ S = {b \in session[d].leads : lead[b].on = session[d].card}
          /\ \A b \in S : Made(b)
          /\ lead' = [b \in Attempts |->
               IF b \in S THEN [lead[b] EXCEPT !.on = session[d].keep] ELSE lead[b]]
    BY <1>7, CarriedLeads, Zenon
  <2>2. stranded' = IF Removing(session[d].keep) THEN stranded \union S ELSE stranded \ S
    BY <1>7, <2>1, Zenon DEF MergeContacts, Mark
  <2>3. session[d].keep \in Phones
    BY <1>7, DecisionFacts DEF MergeContacts, TypeOK
  <2>4. /\ \A b \in Attempts \ S : lead'[b] = lead[b]
        /\ \A b \in S : lead'[b].on = session[d].keep
    BY <2>1, <2>3, CardsChanged
  <2> QED
    BY <2>2, <2>4 DEF CardMove
<1> QED
  <2>1. ASSUME PanelStep PROVE CardMove(a)
    BY <2>1, <1>1, <1>3, <1>4, <1>5, <1>6, <1>7
    DEF PanelStep, CreateStage, RestoreStage, FirstMessage, ArchiveContact,
        RestoreContact, Decide, GiveUp, SetDefaultEntry, DeleteContact, MoveLeads,
        vars, history
  <2> QED
    BY <1>2, <2>1, Steps

(* A card goes by deleteContact, or by a merge.                            *)
LEMMA CardGoes ==
  ASSUME TypeOK, [Next]_vars, NEW p \in Phones, card'[p] = "gone", card[p] # "gone"
  PROVE  \E d \in Admins : (DeleteContact(d) \/ MergeContacts(d)) /\ session[d].card = p
<1>1. ASSUME NEW a \in Attempts, Submit(a) PROVE FALSE
  <2>1. CASE Commit(a)
    BY <2>1 DEF Commit, TypeOK
  <2>2. CASE ~Commit(a)
    BY <1>1, <2>2 DEF Submit, Refuse, Gate, Replay, Upsert, ReadEntry, ReadRecent, Abort
  <2> QED
    BY <2>1, <2>2
<1>2. ASSUME NEW d \in Admins, DeleteContact(d) \/ MergeContacts(d), session[d].card # p
      PROVE  FALSE
  BY <1>2 DEF DeleteContact, MergeContacts, TypeOK
<1>3. ASSUME NEW q \in Phones, FirstMessage(q) \/ ArchiveContact(q) \/ RestoreContact(q)
      PROVE  FALSE
  BY <1>3 DEF FirstMessage, ArchiveContact, RestoreContact, TypeOK
<1> QED
  BY <1>1, <1>2, <1>3, Steps
  DEF PanelStep, ArchiveLead, RestoreLead, CreateStage, RestoreStage, Decide, GiveUp,
      DeleteLead, ChangeLeadStatus, SetDefaultEntry, ArchiveStage, MoveLeads, vars

CardInv ==
  /\ LeadHasCard
  /\ \A d \in Admins : session[d].op \in {"merge", "moving"} =>
       session[d].keep # session[d].card
  /\ \A d \in Admins, a \in Attempts :
       /\ session[d].op \in {"deleteContact", "moving"}
       /\ lead[a].state = "open" /\ lead[a].on = session[d].card
       => a \in stranded \/ (session[d].op = "moving" /\ a \in session[d].leads)

(* What a decision about a card, or its next step, leaves for later.       *)
LEMMA CardDecision ==
  ASSUME TypeOK, [Next]_vars, NEW d \in Admins,
         session'[d].op \in {"deleteContact", "merge", "moving"}
  PROVE  \/ session'[d] = session[d]
         \/ \E p \in Phones : DecideDeleteContact(d, p)
         \/ \E p, keep \in Phones : DecideMerge(d, keep, p)
         \/ MoveLeads(d)
<1>1. ASSUME NEW x \in Stages, DecideEntry(d, x) \/ \E to \in Stages : DecideArchive(d, x, to)
      PROVE  FALSE
  <2>1. ASSUME NEW to \in Stages, DecideArchive(d, x, to) PROVE FALSE
    BY <2>1 DEF DecideArchive, Decide, TypeOK
  <2>2. ASSUME DecideEntry(d, x) PROVE FALSE
    BY <2>2 DEF DecideEntry, Decide, TypeOK
  <2> QED
    BY <1>1, <2>1, <2>2
<1>2. ASSUME NEW a \in Attempts, DecideDelete(d, a) \/ \E x \in Stages : DecideStatus(d, a, x)
      PROVE  FALSE
  <2>1. ASSUME NEW x \in Stages, DecideStatus(d, a, x) PROVE FALSE
    BY <2>1 DEF DecideStatus, Decide, TypeOK
  <2>2. ASSUME DecideDelete(d, a) PROVE FALSE
    BY <2>2 DEF DecideDelete, Decide, TypeOK
  <2> QED
    BY <1>2, <2>1, <2>2
<1> QED
  BY <1>1, <1>2, SessionStep DEF SessionMove, Nobody

LEMMA CardInvStep == TypeInv /\ CardInv /\ [Next]_vars => CardInv'
<1> SUFFICES ASSUME TypeInv, CardInv, [Next]_vars PROVE CardInv'
  OBVIOUS
<1>0. TypeOK /\ DecidedInv /\ \A a \in Attempts : CardMove(a)
  BY CardStep DEF TypeInv
<1>00. TypeOK
  BY <1>0
<1>1. ASSUME NEW a \in Attempts, lead'[a].state = "open", card'[lead'[a].on] = "gone"
      PROVE  a \in stranded'
  <2> DEFINE p == lead'[a].on
  <2>0. p \in Phones
    <3>1. lead' \in [Attempts -> Lead]
      BY TypeStep DEF TypeOK, TypeInv, Lead
    <3> QED
      BY <1>1, <3>1, LeadFacts
  <2>1. CASE card[p] = "gone"
    BY <1>0, <1>1, <2>1 DEF CardMove, CardInv, LeadHasCard, Removing
  <2>2. ASSUME NEW d \in Admins, DeleteContact(d), session[d].card = p
        PROVE  a \in stranded'
    BY <1>1, <2>2 DEF DeleteContact, CardInv, history
  <2>3. ASSUME NEW d \in Admins, MergeContacts(d), session[d].card = p
        PROVE  a \in stranded'
    <3>1. PICK S \in SUBSET Attempts :
            /\ S = {b \in session[d].leads : lead[b].on = session[d].card}
            /\ \A b \in S : Made(b)
            /\ lead' = [b \in Attempts |->
                 IF b \in S THEN [lead[b] EXCEPT !.on = session[d].keep] ELSE lead[b]]
      BY <1>00, <2>3, CarriedLeads, Zenon
    <3>2. session[d].keep \in Phones /\ session[d].keep # p /\ session[d].op = "moving"
      BY <1>0, <2>3, DecisionFacts DEF MergeContacts, TypeOK, CardInv
    <3>3. /\ \A b \in Attempts \ S : lead'[b] = lead[b]
          /\ \A b \in S : lead'[b].on = session[d].keep
      BY <1>00, <3>1, <3>2, CardsChanged
    <3>4. a \notin S /\ lead'[a] = lead[a]
      BY <3>2, <3>3
    <3>5. a \in stranded
      BY <1>1, <2>3, <3>1, <3>2, <3>4 DEF CardInv
    <3>6. Removing(p)
      BY <2>3, <3>2 DEF Removing
    <3> QED
      BY <1>0, <1>1, <3>5, <3>6 DEF CardMove
  <2> QED
    BY <1>0, <1>1, <2>0, <2>1, <2>2, <2>3, CardGoes
<1>2. ASSUME NEW d \in Admins, session'[d].op \in {"merge", "moving"}
      PROVE  session'[d].keep # session'[d].card
  <2>1. CASE session'[d] = session[d]
    BY <1>2, <2>1 DEF CardInv
  <2>2. ASSUME NEW p \in Phones, DecideDeleteContact(d, p) PROVE FALSE
    BY <1>0, <1>2, <2>2 DEF DecideDeleteContact, Decide, TypeOK
  <2>3. ASSUME NEW p \in Phones, NEW keep \in Phones, DecideMerge(d, keep, p)
        PROVE  session'[d].keep # session'[d].card
    BY <1>0, <2>3 DEF DecideMerge, Decide, TypeOK
  <2>4. CASE MoveLeads(d)
    BY <1>0, <2>4 DEF MoveLeads, CardInv, TypeOK
  <2> QED
    BY <1>0, <1>2, <2>1, <2>2, <2>3, <2>4, CardDecision
<1>3. ASSUME NEW d \in Admins, NEW a \in Attempts,
             session'[d].op \in {"deleteContact", "moving"},
             lead'[a].state = "open", lead'[a].on = session'[d].card
      PROVE  a \in stranded' \/ (session'[d].op = "moving" /\ a \in session'[d].leads)
  <2>1. CASE session'[d] = session[d]
    <3>0. lead'[a].on = session[d].card /\ session[d].op \in {"deleteContact", "moving"}
      BY <1>3, <2>1
    <3>1. Removing(lead'[a].on)
      BY <3>0 DEF Removing
    <3>2. ASSUME Removing(lead'[a].on) => a \in stranded' PROVE a \in stranded'
      BY <3>1, <3>2, Zenon
    <3>3. CASE /\ lead[a].state = "open" /\ lead'[a].on = lead[a].on
               /\ a \in stranded => a \in stranded'
      BY <1>3, <2>1, <3>3 DEF CardInv
    <3> QED
      BY <1>0, <1>3, <3>2, <3>3 DEF CardMove
  <2>2. ASSUME NEW p \in Phones, DecideDeleteContact(d, p) PROVE FALSE
    <3>1. session'[d] = [op |-> "deleteContact", card |-> p] /\ lead' = lead
      BY <1>0, <2>2 DEF DecideDeleteContact, Decide, TypeOK
    <3>2. NoActiveLeads(p)
      BY <2>2 DEF DecideDeleteContact
    <3> QED
      BY <1>3, <3>1, <3>2 DEF NoActiveLeads, LeadsOf, Kept
  <2>3. ASSUME NEW p \in Phones, NEW keep \in Phones, DecideMerge(d, keep, p) PROVE FALSE
    BY <1>0, <1>3, <2>3 DEF DecideMerge, Decide, TypeOK
  <2>4. CASE MoveLeads(d)
    <3>1. /\ session'[d].op = "moving" /\ session'[d].card = session[d].card
          /\ session'[d].leads = {b \in Attempts : lead[b].on = session[d].card}
          /\ lead' = lead
      BY <1>0, <2>4 DEF MoveLeads, TypeOK
    <3> QED
      BY <1>3, <3>1
  <2> QED
    BY <1>0, <1>3, <2>1, <2>2, <2>3, <2>4, CardDecision
<1> QED
  BY <1>1, <1>2, <1>3 DEF CardInv, LeadHasCard

LEMMA CardInvariant == Spec => []CardInv
<1>1. Init => CardInv
  BY DEF Init, CardInv, LeadHasCard, NoLead, Nobody
<1>2. TypeInv /\ CardInv /\ [Next]_vars => CardInv'
  BY CardInvStep
<1> QED
  BY <1>1, <1>2, TypeInvariant, PTL DEF Spec

(* Merging and deleting contacts leaves no enquiry of the working lists on *)
(* a card nobody can open, but for one that came to it too late.           *)
THEOREM LeadsKeepCards == Spec => []LeadHasCard
<1>1. CardInv => LeadHasCard
  BY DEF CardInv
<1> QED
  BY <1>1, CardInvariant, PTL

-----------------------------------------------------------------------------
(***************************************************************************)
(* Crm implements Intake: a commit is Take, a replay is Tell, and what the *)
(* rest of the transaction and the panel do is invisible.                  *)
(***************************************************************************)
MadeOf(k) == {a \in Attempts : Made(a) /\ KeyOf[a] = k}
ToldOf    == {KeyOf[a] : a \in {b \in Attempts : pc[b] = "accepted"}}

(* No lead is made and nobody is told: the step is invisible.              *)
LEMMA InvisibleIntake ==
  ASSUME \A a \in Attempts : Made(a)' <=> Made(a),
         \A a \in Attempts : pc'[a] = "accepted" <=> pc[a] = "accepted"
  PROVE  UNCHANGED Promise!intakeVars
<1>1. \A k \in Keys : MadeOf(k)' = MadeOf(k)
  BY DEF MadeOf
<1>2. ToldOf' = ToldOf
  BY DEF ToldOf
<1> QED
  BY <1>1, <1>2 DEF Promise!intakeVars, MadeOf, ToldOf

(* One more attempt is told, or none.                                      *)
LEMMA OneTold ==
  ASSUME NEW a \in Attempts, \A b \in Attempts \ {a} : pc'[b] = pc[b],
         pc[a] # "accepted"
  PROVE  ToldOf' = IF pc'[a] = "accepted" THEN ToldOf \union {KeyOf[a]} ELSE ToldOf
  BY DEF ToldOf

(* The commit makes the lead of a key that has none.                       *)
LEMMA CommitIsTake ==
  ASSUME TypeOK, GateInv, NEW a \in Attempts, Commit(a)
  PROVE  Promise!Next
<1>1. PICK k \in Keys : k = KeyOf[a]
  BY CrmAssumption
<1>2. Made(a)' /\ \A b \in Attempts \ {a} : Made(b)' <=> Made(b)
  BY CommitMakes DEF Made
<1>3. \A b \in Attempts : KeyOf[b] = k => ~Made(b)
  BY <1>1 DEF Commit, GateInv, Open
<1>4. MadeOf(k) = {} /\ MadeOf(k)' = {a}
  BY <1>1, <1>2, <1>3 DEF MadeOf
<1>5. \A j \in Keys : j # k => MadeOf(j)' = MadeOf(j)
  BY <1>1, <1>2 DEF MadeOf
<1>6. ToldOf' = ToldOf \/ ToldOf' = ToldOf \union {k}
  BY <1>1, OneTold DEF Commit, TypeOK
<1>7. [j \in Keys |-> MadeOf(j)]' = [[j \in Keys |-> MadeOf(j)] EXCEPT ![k] = {a}]
  BY <1>4, <1>5
<1>8. Promise!Take(k, a)
  BY <1>4, <1>6, <1>7 DEF Promise!Take, MadeOf, ToldOf
<1> QED
  BY <1>8 DEF Promise!Next

(* A replay tells of a lead that is there.                                 *)
LEMMA ReplayIsTell ==
  ASSUME TypeOK, GateInv, NEW a \in Attempts, Replay(a)
  PROVE  Promise!Next
<1>1. PICK k \in Keys : k = KeyOf[a]
  BY CrmAssumption
<1>2. lead' = lead /\ gate[k] = "taken" /\ pc[a] = "idle" /\ pc'[a] = "accepted"
  BY <1>1 DEF Replay, TypeOK
<1>3. MadeOf(k) # {}
  BY <1>2 DEF GateInv, MadeOf
<1>4. \A j \in Keys : MadeOf(j)' = MadeOf(j)
  BY <1>2 DEF MadeOf, Made
<1>5. ToldOf' = ToldOf \union {k}
  BY <1>1, <1>2, OneTold DEF Replay, TypeOK
<1>6. Promise!Tell(k)
  BY <1>3, <1>4, <1>5 DEF Promise!Tell, MadeOf, ToldOf
<1> QED
  BY <1>6 DEF Promise!Next

(* Every step is one of Intake, or invisible to it.                        *)
LEMMA IntakeStep ==
  TypeInv /\ GateInv /\ [Next]_vars => [Promise!Next]_(Promise!intakeVars)
<1> SUFFICES ASSUME TypeInv, GateInv, [Next]_vars
             PROVE  Promise!Next \/ UNCHANGED Promise!intakeVars
  OBVIOUS
<1> USE DEF TypeInv
<1>1. ASSUME NEW a \in Attempts, Submit(a), ~Commit(a), ~Replay(a)
      PROVE  UNCHANGED Promise!intakeVars
  <2>1. /\ lead' = lead /\ pc[a] # "accepted" /\ pc'[a] # "accepted"
        /\ \A b \in Attempts \ {a} : pc'[b] = pc[b]
    BY <1>1 DEF Submit, Refuse, Gate, Upsert, ReadEntry, ReadRecent, Abort, TypeOK
  <2>2. \A b \in Attempts : Made(b)' <=> Made(b)
    BY <2>1 DEF Made
  <2> QED
    BY <2>1, <2>2, InvisibleIntake
<1>2. ASSUME PanelStep PROVE UNCHANGED Promise!intakeVars
  <2>1. UNCHANGED <<pc, gate>> /\ \A a \in Attempts : ~Commit(a)
    BY <1>2, PanelLeavesIntake DEF intake, Commit, TypeOK
  <2>2. \A a \in Attempts : LeadMove(a)
    BY LeadStep
  <2> QED
    BY <2>1, <2>2, InvisibleIntake DEF LeadMove
<1> QED
  BY <1>1, <1>2, Steps, CommitIsTake, ReplayIsTell

(* Taken apart into statements, with attempts that overlap, wait for each  *)
(* other, fail and are sent again, and with a panel that works on what     *)
(* they made, intake is still: one lead per key, then the truth about it.  *)
THEOREM IntakeImplemented == Spec => ImplementsIntake
<1>1. Init => Promise!Init
  BY DEF Init, Promise!Init, Made
<1> QED
  BY <1>1, TypeInvariant, GateInvariant, IntakeStep, PTL
  DEF Spec, ImplementsIntake, Promise!Spec
=============================================================================
