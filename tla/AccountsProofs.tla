--------------------------- MODULE AccountsProofs ---------------------------
(***************************************************************************)
(* Proofs about the accounts of the panel, for every number of people,     *)
(* invitations, concurrent actions and actions begun.                      *)
(***************************************************************************)
EXTENDS Accounts, TLAPS

(* What an acceptance remembers: its invitation, and what it has made.     *)
AcceptInv ==
  \A d \in Actors :
    /\ server[d].op \in {"create", "link", "mark"} => invited[server[d].of] = server[d].who
    /\ server[d].op \in {"link", "mark"} =>
         Exists(server[d].who) /\ made[server[d].who] = server[d].of
    /\ server[d].op = "mark" => server[d].who \in secret

(* Only who has a credential is signed in or signing in.                   *)
SignedInv == \A u \in People : sessions[u] \union entering[u] # {} => u \in secret

-----------------------------------------------------------------------------
LEMMA ServerFacts ==
  /\ Idle \in Server
  /\ \A s \in Server :
       /\ s.op \in {"idle", "role", "ban", "sweep", "inviting", "invite", "create", "link", "mark"}
       /\ s.op # "idle" => s.who \in People
       /\ s.op \in {"role", "ban", "sweep", "inviting", "invite"} => s.by \in People
       /\ s.op \in {"role", "inviting", "invite"} => s.role \in Roles
       /\ s.op \in {"role", "ban"} => s.fresh \in BOOLEAN
       /\ s.op = "invite" => s.old \subseteq Invitations
       /\ s.op \in {"create", "link", "mark"} => s.of \in Invitations
  /\ \A by, u \in People :
       /\ \A r \in Roles, b \in BOOLEAN :
            [op |-> "role", by |-> by, who |-> u, role |-> r, fresh |-> b] \in Server
       /\ \A b \in BOOLEAN : [op |-> "ban", by |-> by, who |-> u, fresh |-> b] \in Server
       /\ [op |-> "sweep", by |-> by, who |-> u] \in Server
       /\ \A r \in Roles :
            /\ [op |-> "inviting", by |-> by, who |-> u, role |-> r] \in Server
            /\ \A old \in SUBSET Invitations :
                 [op |-> "invite", by |-> by, who |-> u, role |-> r, old |-> old] \in Server
  /\ \A u \in People, i \in Invitations :
       [op |-> "create", by |-> Nobody, who |-> u, of |-> i] \in Server
  BY DEF Server, Idle, Roles

LEMMA EditedFacts ==
  /\ \A s \in Server : s.op \in {"role", "ban"} =>
       LET t == [s EXCEPT !.fresh = FALSE] IN
       t \in Server /\ t.op = s.op /\ t.who = s.who /\ t.by = s.by /\ t.fresh = FALSE
  /\ \A s \in Server, op \in {"link", "mark"} : s.op \in {"create", "link", "mark"} =>
       LET t == [s EXCEPT !.op = op] IN
       t \in Server /\ t.op = op /\ t.who = s.who /\ t.of = s.of
<1>1. ASSUME NEW s \in Server, s.op = "role"
      PROVE  LET t == [s EXCEPT !.fresh = FALSE] IN
             t \in Server /\ t.op = s.op /\ t.who = s.who /\ t.by = s.by /\ t.fresh = FALSE
  <2>1. s \in [op : {"role"}, by : People, who : People, role : Roles, fresh : BOOLEAN]
    BY <1>1 DEF Server, Idle
  <2> QED
    BY <1>1, <2>1 DEF Server
<1>2. ASSUME NEW s \in Server, s.op = "ban"
      PROVE  LET t == [s EXCEPT !.fresh = FALSE] IN
             t \in Server /\ t.op = s.op /\ t.who = s.who /\ t.by = s.by /\ t.fresh = FALSE
  <2>1. s \in [op : {"ban"}, by : People, who : People, fresh : BOOLEAN]
    BY <1>2 DEF Server, Idle
  <2> QED
    BY <1>2, <2>1 DEF Server
<1>3. ASSUME NEW s \in Server, NEW op \in {"link", "mark"}, s.op \in {"create", "link", "mark"}
      PROVE  LET t == [s EXCEPT !.op = op] IN
             t \in Server /\ t.op = op /\ t.who = s.who /\ t.of = s.of
  <2>1. s \in [op : {"create", "link", "mark"}, by : {Nobody}, who : People, of : Invitations]
    BY <1>3 DEF Server, Idle
  <2> QED
    BY <1>3, <2>1 DEF Server
<1> QED
  BY <1>1, <1>2, <1>3

(* An action opened, or brought to its next step.                          *)
LEMMA ServerStep ==
  ASSUME TypeOK, NEW d \in Actors, NEW s \in Server, Begin(d, s) \/ Go(d, s)
  PROVE  /\ server' \in [Actors -> Server] /\ actions' \in 0..MaxActions
         /\ server' = [server EXCEPT ![d] = s]
  BY AccountsAssumption DEF TypeOK, Begin, Go

LEMMA RemoveStep ==
  ASSUME TypeOK, NEW d \in Actors, server[d].op \in {"role", "ban"}, Remove(d)
  PROVE  /\ server' \in [Actors -> Server] /\ actions' \in 0..MaxActions
         /\ overlapped' \in BOOLEAN /\ resigned' \in BOOLEAN
         /\ server'[d] = Idle
         /\ \A e \in Actors : e # d =>
              \/ server'[e] = server[e]
              \/ /\ server[e].op \in {"role", "ban"}
                 /\ server'[e] = [server[e] EXCEPT !.fresh = FALSE]
<1>1. CASE role[server[d].who] # "owner"
  <2>1. Go(d, Idle) /\ UNCHANGED <<overlapped, resigned>>
    BY <1>1 DEF Remove
  <2>2. server' \in [Actors -> Server] /\ actions' \in 0..MaxActions
        /\ server' = [server EXCEPT ![d] = Idle]
    BY <2>1, ServerStep, ServerFacts
  <2> QED
    BY <2>1, <2>2 DEF TypeOK
<1>2. CASE role[server[d].who] = "owner"
  <2>1. server' = Stale(d) /\ UNCHANGED actions
    BY <1>2 DEF Remove
  <2>2. overlapped' \in BOOLEAN
    BY <1>2, Zenon DEF Remove
  <2>3. resigned' \in BOOLEAN
    BY <1>2, Zenon DEF Remove
  <2>4. server' \in [Actors -> Server]
    BY <2>1, ServerFacts, EditedFacts DEF Stale, TypeOK
  <2> QED
    BY <2>1, <2>2, <2>3, <2>4 DEF TypeOK, Stale
<1> QED
  BY <1>1, <1>2

-----------------------------------------------------------------------------
LEMMA TypeInit == Init => TypeOK /\ AcceptInv /\ SignedInv
<1> SUFFICES ASSUME Init PROVE TypeOK /\ AcceptInv /\ SignedInv
  OBVIOUS
<1>1. /\ role \in [People -> Roles \union {"none"}]
      /\ secret \subseteq {u \in People : Exists(u)}
  BY DEF Init, Roles, Exists
<1>2. server \in [Actors -> Server] /\ AcceptInv
  BY ServerFacts DEF Init, AcceptInv, Idle
<1>3. actions \in 0..MaxActions
  BY AccountsAssumption DEF Init
<1> QED
  BY <1>1, <1>2, <1>3, AccountsAssumption DEF Init, TypeOK, SignedInv

LEMMA TypeStep == TypeOK /\ AcceptInv /\ [Next]_vars => TypeOK'
<1> SUFFICES ASSUME TypeOK, AcceptInv, [Next]_vars PROVE TypeOK'
  OBVIOUS
<1> USE AccountsAssumption, ServerFacts
<1>s. ASSUME NEW u \in People, NEW kind \in {"current", "former"},
             SignInChecks(u) \/ SignInOpens(u, kind) \/ SessionEnds(u, kind)
      PROVE  TypeOK'
  BY <1>s DEF TypeOK, SignInChecks, SignInOpens, SessionEnds, invitationVars, history,
              Kinds, Exists
<1>o. ASSUME NEW u \in People
      PROVE  /\ Former(sessions[u]) \in SUBSET Kinds
             /\ Overtakes(u) => /\ entering' \in [People -> SUBSET Kinds]
                                /\ late' \subseteq People
  BY DEF Overtakes, Former, TypeOK, Kinds
<1>1. ASSUME NEW d \in Actors, NEW by \in People, NEW u \in People, NEW r \in Roles,
             RoleReads(d, by, u, r)
      PROVE  TypeOK'
  <2>1. server' \in [Actors -> Server] /\ actions' \in 0..MaxActions
    BY <1>1, ServerStep DEF RoleReads
  <2> QED
    BY <1>1, <2>1 DEF TypeOK, RoleReads, accountVars, invitationVars, history, Exists
<1>2. ASSUME NEW d \in Actors, RoleWrites(d)
      PROVE  TypeOK'
  <2>1. server[d] \in Server /\ server[d].who \in People /\ server[d].role \in Roles
    BY <1>2 DEF TypeOK, RoleWrites
  <2>2. /\ server' \in [Actors -> Server] /\ actions' \in 0..MaxActions
        /\ overlapped' \in BOOLEAN /\ resigned' \in BOOLEAN
    <3>1. CASE server[d].role = "owner"
      <4>1. Go(d, Idle) /\ UNCHANGED <<overlapped, resigned>>
        BY <1>2, <3>1 DEF RoleWrites
      <4> QED
        BY <4>1, ServerStep DEF TypeOK
    <3>2. CASE server[d].role # "owner"
      <4>1. Remove(d)
        BY <1>2, <3>2 DEF RoleWrites
      <4> QED
        BY <1>2, <4>1, RemoveStep DEF RoleWrites
    <3> QED
      BY <3>1, <3>2
  <2>3. /\ role' \in [People -> Roles \union {"none"}]
        /\ \A u \in People : Exists(u) => Exists(u)'
        /\ sessions' \in [People -> SUBSET Kinds]
    BY <1>2, <2>1 DEF RoleWrites, TypeOK, Exists, Roles, SignedOut
  <2> QED
    BY <1>2, <1>o, <2>1, <2>2, <2>3 DEF RoleWrites, TypeOK, invitationVars
<1>3. ASSUME NEW d \in Actors, NEW by \in People, NEW u \in People, BanReads(d, by, u)
      PROVE  TypeOK'
  <2>1. server' \in [Actors -> Server] /\ actions' \in 0..MaxActions
    BY <1>3, ServerStep DEF BanReads
  <2> QED
    BY <1>3, <2>1 DEF TypeOK, BanReads, accountVars, invitationVars, history, Exists
<1>4. ASSUME NEW d \in Actors, BanWrites(d)
      PROVE  TypeOK'
  <2>1. server[d] \in Server /\ server[d].who \in People
    BY <1>4 DEF TypeOK, BanWrites
  <2>2. /\ server' \in [Actors -> Server] /\ actions' \in 0..MaxActions
        /\ overlapped' \in BOOLEAN /\ resigned' \in BOOLEAN
    BY <1>4, RemoveStep DEF BanWrites
  <2>3. banned' \in [People -> BOOLEAN] /\ sessions' \in [People -> SUBSET Kinds]
    BY <1>4 DEF BanWrites, TypeOK, SignedOut
  <2> QED
    BY <1>4, <1>o, <2>1, <2>2, <2>3 DEF BanWrites, TypeOK, Exists, invitationVars
<1>5. ASSUME NEW by \in People, NEW u \in People, Unban(by, u)
      PROVE  TypeOK'
  BY <1>5 DEF TypeOK, Unban, invitationVars, history, Exists
<1>6. ASSUME NEW d \in Actors, NEW by \in People, NEW u \in People, PasswordReplaced(d, by, u)
      PROVE  TypeOK'
  <2>1. server' \in [Actors -> Server] /\ actions' \in 0..MaxActions
    BY <1>6, ServerStep DEF PasswordReplaced
  <2>2. sessions' \in [People -> SUBSET Kinds]
    BY <1>6, <1>o DEF PasswordReplaced, TypeOK
  <2> QED
    BY <1>6, <1>o, <2>1, <2>2 DEF TypeOK, PasswordReplaced, invitationVars, Exists
<1>7. ASSUME NEW d \in Actors, PasswordSweeps(d)
      PROVE  TypeOK'
  <2>1. server' \in [Actors -> Server] /\ actions' = actions
    BY <1>7, ServerStep DEF PasswordSweeps, Go
  <2> QED
    BY <1>7, <2>1 DEF TypeOK, PasswordSweeps, invitationVars, history, Exists
<1>8. ASSUME NEW d \in Actors, NEW by \in People, NEW u \in People, NEW r \in Roles,
             InviteReads(d, by, u, r)
      PROVE  TypeOK'
  <2>1. server' \in [Actors -> Server] /\ actions' \in 0..MaxActions
    BY <1>8, ServerStep DEF InviteReads
  <2> QED
    BY <1>8, <2>1 DEF TypeOK, InviteReads, accountVars, invitationVars, history, Exists
<1>9. ASSUME NEW d \in Actors, InviteRevokes(d)
      PROVE  TypeOK'
  <2>1. /\ server[d] \in Server /\ server[d].who \in People /\ server[d].by \in People
        /\ server[d].role \in Roles /\ Outstanding(server[d].who) \in SUBSET Invitations
    BY <1>9 DEF TypeOK, InviteRevokes, Outstanding
  <2>2. server' \in [Actors -> Server] /\ actions' \in 0..MaxActions
    BY <1>9, <2>1, ServerStep DEF InviteRevokes
  <2> QED
    BY <1>9, <2>1, <2>2 DEF TypeOK, InviteRevokes, accountVars, invitationVars, Exists
<1>10. ASSUME NEW d \in Actors, InviteCommits(d)
       PROVE  TypeOK'
  <2>1. /\ server[d] \in Server /\ server[d].who \in People
        /\ server[d].role \in Roles /\ server[d].old \subseteq Invitations
    BY <1>10 DEF TypeOK, InviteCommits
  <2>2. server' \in [Actors -> Server] /\ actions' \in 0..MaxActions
    BY <1>10, ServerStep DEF InviteCommits
  <2>3. /\ invited' \in [Invitations -> People \union {Nobody}]
        /\ grant' \in [Invitations -> Roles \union {"none"}]
        /\ \A i \in Invitations : invited'[i] # Nobody => grant'[i] \in Roles
        /\ revoked' \subseteq Invitations
    BY <1>10, <2>1 DEF TypeOK, InviteCommits
  <2> QED
    BY <1>10, <2>2, <2>3 DEF TypeOK, InviteCommits, accountVars, history, Exists
<1>11. ASSUME NEW i \in Invitations, Expires(i) \/ \E by \in People : RevokeInvitation(by, i)
       PROVE  TypeOK'
  BY <1>11 DEF TypeOK, Expires, RevokeInvitation, accountVars, history, Exists
<1>12. ASSUME NEW d \in Actors, NEW i \in Invitations, AcceptReads(d, i)
       PROVE  TypeOK'
  <2>1. invited[i] \in People
    BY <1>12 DEF AcceptReads, Valid, TypeOK
  <2>2. server' \in [Actors -> Server] /\ actions' \in 0..MaxActions
    BY <1>12, <2>1, ServerStep DEF AcceptReads
  <2> QED
    BY <1>12, <2>2 DEF TypeOK, AcceptReads, accountVars, invitationVars, history, Exists
<1>13. ASSUME NEW d \in Actors, AcceptCreates(d)
       PROVE  TypeOK'
  <2>1. /\ server[d] \in Server /\ server[d].who \in People /\ server[d].of \in Invitations
        /\ grant[server[d].of] \in Roles
    BY <1>13 DEF TypeOK, AcceptCreates, AcceptInv
  <2>2. server' \in [Actors -> Server] /\ actions' \in 0..MaxActions
    BY <1>13, <2>1, ServerStep, EditedFacts DEF AcceptCreates
  <2>3. /\ role' \in [People -> Roles \union {"none"}]
        /\ made' \in [People -> Invitations \union {NoInvitation}]
        /\ \A u \in People : Exists(u) => Exists(u)'
    BY <1>13, <2>1 DEF AcceptCreates, InvitedRole, TypeOK, Exists, Roles
  <2> QED
    BY <1>13, <2>2, <2>3 DEF TypeOK, AcceptCreates, invitationVars
<1>14. ASSUME NEW d \in Actors, AcceptLinks(d) \/ AcceptMarks(d)
       PROVE  TypeOK'
  <2>1. /\ server[d] \in Server /\ server[d].who \in People /\ server[d].of \in Invitations
        /\ Exists(server[d].who)
    BY <1>14 DEF TypeOK, AcceptLinks, AcceptMarks, AcceptInv
  <2>2. server' \in [Actors -> Server] /\ actions' \in 0..MaxActions
    BY <1>14, <2>1, ServerStep, EditedFacts DEF AcceptLinks, AcceptMarks
  <2> QED
    BY <1>14, <2>1, <2>2
    DEF TypeOK, AcceptLinks, AcceptMarks, Linked, accountVars, invitationVars, history, Exists
<1>15. ASSUME NEW d \in Actors, GiveUp(d)
       PROVE  TypeOK'
  <2>1. server' \in [Actors -> Server] /\ actions' \in 0..MaxActions
    BY <1>15, ServerStep DEF GiveUp
  <2>2. server[d].op \in {"link", "mark", "sweep"} => server[d].who \in People
    BY DEF TypeOK
  <2> QED
    BY <1>15, <2>1, <2>2 DEF TypeOK, GiveUp, accountVars, invitationVars, Exists
<1>16. CASE UNCHANGED vars
  BY <1>16 DEF TypeOK, vars, accountVars, invitationVars, history, Exists
<1> QED
  BY <1>s, <1>1, <1>2, <1>3, <1>4, <1>5, <1>6, <1>7, <1>8, <1>9, <1>10, <1>11, <1>12,
     <1>13, <1>14, <1>15, <1>16 DEF Next, Roles

(* The steps that change accounts, those that change invitations, and      *)
(* those that change neither.                                              *)
AccountStep ==
  \/ \E u \in People :
       \/ SignInChecks(u)
       \/ \E kind \in Kinds : SignInOpens(u, kind) \/ SessionEnds(u, kind)
  \/ \E by, u \in People : Unban(by, u) \/ \E d \in Actors : PasswordReplaced(d, by, u)
  \/ \E d \in Actors : \/ RoleWrites(d) \/ BanWrites(d) \/ PasswordSweeps(d)
                       \/ AcceptCreates(d) \/ AcceptLinks(d)

InvitationStep ==
  \/ \E d \in Actors : InviteCommits(d) \/ AcceptMarks(d)
  \/ \E i \in Invitations : Expires(i) \/ \E by \in People : RevokeInvitation(by, i)

QuietStep ==
  \E d \in Actors :
    \/ \E by, u \in People : \/ BanReads(d, by, u)
                             \/ \E r \in Roles : RoleReads(d, by, u, r) \/ InviteReads(d, by, u, r)
    \/ \E i \in Invitations : AcceptReads(d, i)
    \/ InviteRevokes(d) \/ GiveUp(d)

LEMMA Groups ==
  [Next]_vars => AccountStep \/ InvitationStep \/ QuietStep \/ UNCHANGED vars
  BY DEF Next, AccountStep, InvitationStep, QuietStep, Kinds, Roles

LEMMA QuietFrame ==
  QuietStep \/ UNCHANGED vars =>
    /\ UNCHANGED <<accountVars, invitationVars, made, overlapped, resigned, late>>
    /\ crossed \subseteq crossed' /\ broken \subseteq broken'
  BY DEF QuietStep, BanReads, RoleReads, InviteReads, AcceptReads, InviteRevokes, GiveUp,
         vars, accountVars, invitationVars, history

LEMMA InvitationFrame ==
  ASSUME InvitationStep, TypeOK
  PROVE  /\ UNCHANGED <<accountVars, history>>
         /\ accepted \subseteq accepted' /\ revoked \subseteq revoked' /\ expired \subseteq expired'
         /\ \A i \in Invitations : invited[i] # Nobody => invited'[i] = invited[i]
  BY DEF InvitationStep, InviteCommits, AcceptMarks, Expires, RevokeInvitation, TypeOK

LEMMA AccountFrame ==
  ASSUME AccountStep
  PROVE  /\ UNCHANGED invitationVars /\ secret \subseteq secret'
         /\ late \subseteq late' /\ UNCHANGED <<crossed, broken>>
  BY DEF AccountStep, SignInChecks, SignInOpens, SessionEnds, Unban, PasswordReplaced,
         RoleWrites, BanWrites, PasswordSweeps, AcceptCreates, AcceptLinks, Linked,
         Overtakes, history

(* An account stays, and stays made from its invitation.                   *)
LEMMA AccountsStay ==
  ASSUME TypeOK, AccountStep, NEW u \in People, Exists(u)
  PROVE  Exists(u)' /\ made'[u] = made[u]
<1>1. ASSUME NEW d \in Actors, RoleWrites(d)
      PROVE  Exists(u)' /\ made'[u] = made[u]
  <2>1. server[d].who \in People /\ server[d].role \in Roles
    BY <1>1, ServerFacts DEF TypeOK, RoleWrites
  <2> QED
    BY <1>1, <2>1 DEF RoleWrites, Exists, Roles, TypeOK
<1>2. ASSUME NEW d \in Actors, AcceptCreates(d)
      PROVE  Exists(u)' /\ made'[u] = made[u]
  BY <1>2 DEF AcceptCreates, Exists, TypeOK
<1>3. \/ \E d \in Actors : RoleWrites(d) \/ AcceptCreates(d)
      \/ UNCHANGED <<role, made>>
  BY DEF AccountStep, SignInChecks, SignInOpens, SessionEnds, Unban, PasswordReplaced,
         BanWrites, PasswordSweeps, AcceptLinks, history
<1> QED
  BY <1>1, <1>2, <1>3 DEF Exists

(* What no step takes back.                                                *)
LEMMA Grows ==
  ASSUME TypeOK, [Next]_vars
  PROVE  /\ \A u \in People : Exists(u) => Exists(u)' /\ made'[u] = made[u]
         /\ secret \subseteq secret' /\ accepted \subseteq accepted'
         /\ revoked \subseteq revoked' /\ expired \subseteq expired'
         /\ \A i \in Invitations : invited[i] # Nobody => invited'[i] = invited[i]
         /\ late \subseteq late' /\ crossed \subseteq crossed' /\ broken \subseteq broken'
<1>1. CASE AccountStep
  BY <1>1, AccountFrame, AccountsStay DEF invitationVars
<1>2. CASE InvitationStep
  BY <1>2, InvitationFrame DEF accountVars, history, Exists
<1>3. CASE QuietStep \/ UNCHANGED vars
  BY <1>3, QuietFrame DEF accountVars, invitationVars, Exists
<1> QED
  BY <1>1, <1>2, <1>3, Groups

(* How the memory of an action changes: not, to nothing, by another        *)
(* removal, or by a step of its own.                                       *)
Own(e) ==
  \/ \E by, u \in People : \/ BanReads(e, by, u) \/ PasswordReplaced(e, by, u)
                           \/ \E r \in Roles : RoleReads(e, by, u, r) \/ InviteReads(e, by, u, r)
  \/ \E i \in Invitations : AcceptReads(e, i)
  \/ InviteRevokes(e) \/ AcceptCreates(e) \/ AcceptLinks(e)

Outdated(e) == /\ server[e].op \in {"role", "ban"}
               /\ server'[e] = [server[e] EXCEPT !.fresh = FALSE]

LEMMA OutdatedFacts ==
  ASSUME TypeOK, NEW d \in Actors, Outdated(d)
  PROVE  /\ server'[d] \in Server /\ server'[d].op = server[d].op
         /\ server'[d].who = server[d].who /\ server'[d].by = server[d].by
         /\ server'[d].fresh = FALSE
<1> DEFINE t == [server[d] EXCEPT !.fresh = FALSE]
<1>1. server[d] \in Server /\ server[d].op \in {"role", "ban"} /\ server'[d] = t
  BY DEF TypeOK, Outdated
<1>2. /\ t \in Server /\ t.op = server[d].op /\ t.who = server[d].who /\ t.by = server[d].by
      /\ t.fresh = FALSE
  BY <1>1, EditedFacts
<1> HIDE DEF t
<1> QED
  BY <1>1, <1>2

LEMMA AcceptFacts ==
  ASSUME TypeOK, NEW d \in Actors, AcceptCreates(d) \/ AcceptLinks(d)
  PROVE  /\ server[d] \in Server /\ server[d].op \in {"create", "link"}
         /\ server'[d] \in Server /\ server'[d].who = server[d].who
         /\ server'[d].of = server[d].of
         /\ server'[d].op = IF AcceptCreates(d) THEN "link" ELSE "mark"
<1>1. PICK op \in {"link", "mark"} :
        /\ server'[d] = [server[d] EXCEPT !.op = op]
        /\ op = IF AcceptCreates(d) THEN "link" ELSE "mark"
  BY DEF AcceptCreates, AcceptLinks, Go, TypeOK
<1> DEFINE t == [server[d] EXCEPT !.op = op]
<1>2. server[d] \in Server /\ server[d].op \in {"create", "link"} /\ server'[d] = t
  BY <1>1 DEF TypeOK, AcceptCreates, AcceptLinks
<1>3. t \in Server /\ t.op = op /\ t.who = server[d].who /\ t.of = server[d].of
  BY <1>2, EditedFacts
<1> HIDE DEF t
<1> QED
  BY <1>1, <1>2, <1>3

LEMMA ServerFrame ==
  ASSUME TypeOK, [Next]_vars, NEW e \in Actors
  PROVE  server'[e] = server[e] \/ server'[e] = Idle \/ Outdated(e) \/ Own(e)
<1>1. ASSUME NEW d \in Actors, RoleWrites(d) \/ BanWrites(d)
      PROVE  server'[e] = server[e] \/ server'[e] = Idle \/ Outdated(e)
  <2>1. \/ server' = [server EXCEPT ![d] = Idle]
        \/ Remove(d) /\ server[d].op \in {"role", "ban"}
    BY <1>1 DEF RoleWrites, BanWrites, Go
  <2>2. CASE server' = [server EXCEPT ![d] = Idle]
    BY <2>2 DEF TypeOK
  <2>3. CASE Remove(d) /\ server[d].op \in {"role", "ban"}
    BY <2>3, RemoveStep DEF Outdated
  <2> QED
    BY <2>1, <2>2, <2>3
<1>2. ASSUME NEW d \in Actors,
             \/ PasswordSweeps(d) \/ InviteCommits(d) \/ AcceptMarks(d) \/ GiveUp(d)
      PROVE  server'[e] = server[e] \/ server'[e] = Idle
  BY <1>2 DEF PasswordSweeps, InviteCommits, AcceptMarks, GiveUp, Go, TypeOK
<1>3. ASSUME NEW d \in Actors, Own(d)
      PROVE  server'[e] = server[e] \/ Own(e)
  <2>1. e # d => server'[e] = server[e]
    BY <1>3 DEF Own, RoleReads, BanReads, PasswordReplaced, InviteReads, AcceptReads,
                InviteRevokes, AcceptCreates, AcceptLinks, Begin, Go, TypeOK
  <2> QED
    BY <1>3, <2>1
<1>4. \/ \E d \in Actors : \/ RoleWrites(d) \/ BanWrites(d)
                           \/ PasswordSweeps(d) \/ InviteCommits(d) \/ AcceptMarks(d)
                           \/ GiveUp(d) \/ Own(d)
      \/ UNCHANGED server
  BY DEF Next, vars, Own, Roles, SignInChecks, SignInOpens, SessionEnds, Unban,
         RevokeInvitation, Expires
<1> QED
  BY <1>1, <1>2, <1>3, <1>4

LEMMA AcceptStep == TypeOK /\ AcceptInv /\ [Next]_vars => AcceptInv'
<1> SUFFICES ASSUME TypeOK, AcceptInv, [Next]_vars, NEW e \in Actors
             PROVE  /\ server'[e].op \in {"create", "link", "mark"} =>
                         invited'[server'[e].of] = server'[e].who
                    /\ server'[e].op \in {"link", "mark"} =>
                         Exists(server[e].who)' /\ made'[server'[e].who] = server'[e].of
                    /\ server'[e].op = "mark" => server'[e].who \in secret'
  BY DEF AcceptInv
<1>t. TypeOK'
  BY TypeStep
<1>1. CASE server'[e] = server[e]
  <2>1. server[e] \in Server
    BY DEF TypeOK
  <2> QED
    BY <1>t, <1>1, <2>1, Grows, ServerFacts, AccountsAssumption DEF AcceptInv, Exists
<1>2. CASE server'[e] = Idle
  BY <1>2 DEF Idle
<1>3. CASE Outdated(e)
  BY <1>3, OutdatedFacts DEF Outdated
<1>4. ASSUME NEW i \in Invitations, AcceptReads(e, i)
      PROVE  server'[e].op = "create" /\ invited'[server'[e].of] = server'[e].who
  BY <1>4 DEF AcceptReads, Begin, TypeOK, invitationVars
<1>5. CASE AcceptCreates(e) \/ AcceptLinks(e)
  <2>1. /\ server[e] \in Server /\ server[e].who \in People /\ server[e].of \in Invitations
        /\ invited[server[e].of] = server[e].who /\ UNCHANGED invited
    BY <1>5, ServerFacts DEF AcceptCreates, AcceptLinks, TypeOK, AcceptInv, invitationVars
  <2>2. server'[e].who = server[e].who /\ server'[e].of = server[e].of
    BY <1>5, AcceptFacts
  <2>3. CASE AcceptCreates(e)
    <3>1. server'[e].op = "link"
      BY <2>3, AcceptFacts
    <3>2. grant[server[e].of] \in Roles
      BY <2>1, AccountsAssumption DEF TypeOK
    <3>3. Exists(server[e].who)' /\ made'[server[e].who] = server[e].of
      BY <2>1, <2>2, <2>3, <3>2 DEF AcceptCreates, InvitedRole, Exists, TypeOK, Roles
    <3> QED
      BY <2>1, <2>2, <3>1, <3>3
  <2>4. CASE AcceptLinks(e)
    <3>1. Exists(server[e].who)' /\ made'[server[e].who] = server[e].of
          /\ server[e].who \in secret'
      BY <2>1, <2>2, <2>4
      DEF AcceptLinks, AcceptInv, Linked, Exists, TypeOK, history
    <3> QED
      BY <2>1, <2>2, <3>1
  <2> QED
    BY <1>5, <2>3, <2>4
<1>6. CASE Own(e) /\ ~AcceptCreates(e) /\ ~AcceptLinks(e) /\ \A i \in Invitations : ~AcceptReads(e, i)
  <2>1. server'[e].op \notin {"create", "link", "mark"}
    BY <1>6 DEF Own, RoleReads, BanReads, PasswordReplaced, InviteReads, InviteRevokes,
                Begin, Go, TypeOK
  <2> QED
    BY <2>1
<1> QED
  BY <1>1, <1>2, <1>3, <1>4, <1>5, <1>6, ServerFrame

LEMMA SignedStep == TypeOK /\ SignedInv /\ [Next]_vars => SignedInv'
<1> SUFFICES ASSUME TypeOK, SignedInv, [Next]_vars,
                    NEW u \in People, sessions'[u] \union entering'[u] # {}
             PROVE  u \in secret'
  BY DEF SignedInv
<1>1. CASE AccountStep
  <2>1. sessions[u] \union entering[u] # {} \/ u \in secret
    <3>1. ASSUME NEW v \in People,
                 \/ SignInChecks(v)
                 \/ \E kind \in Kinds : SignInOpens(v, kind) \/ SessionEnds(v, kind)
          PROVE  sessions[u] \union entering[u] # {} \/ u \in secret
      BY <3>1 DEF TypeOK, SignInChecks, SignInOpens, SessionEnds
    <3>2. ASSUME NEW v \in People, Overtakes(v),
                 \E kinds \in {{}, Former(sessions[v])} : sessions' = [sessions EXCEPT ![v] = kinds]
          PROVE  sessions[u] \union entering[u] # {}
      BY <3>2 DEF TypeOK, Overtakes, Former
    <3>3. ASSUME NEW d \in Actors, RoleWrites(d) \/ BanWrites(d)
          PROVE  sessions[u] \union entering[u] # {}
      <4>1. server[d].who \in People
        BY <3>3, ServerFacts DEF TypeOK, RoleWrites, BanWrites
      <4> QED
        BY <3>2, <3>3, <4>1 DEF RoleWrites, BanWrites, SignedOut
    <3>4. ASSUME NEW d \in Actors, NEW by \in People, NEW v \in People, PasswordReplaced(d, by, v)
          PROVE  sessions[u] \union entering[u] # {}
      BY <3>2, <3>4 DEF PasswordReplaced
    <3>5. ASSUME NEW d \in Actors, PasswordSweeps(d)
          PROVE  sessions[u] \union entering[u] # {}
      BY <3>5 DEF PasswordSweeps, TypeOK
    <3>6. ASSUME UNCHANGED <<sessions, entering>>
          PROVE  sessions[u] \union entering[u] # {}
      BY <3>6
    <3> QED
      BY <1>1, <3>1, <3>3, <3>4, <3>5, <3>6 DEF AccountStep, Unban, AcceptCreates, AcceptLinks
  <2> QED
    BY <1>1, <2>1, AccountFrame DEF SignedInv
<1>2. CASE UNCHANGED accountVars
  BY <1>2 DEF SignedInv, accountVars
<1> QED
  BY <1>1, <1>2, Groups, QuietFrame, InvitationFrame

LEMMA Types == Spec => [](TypeOK /\ AcceptInv /\ SignedInv)
  BY TypeInit, TypeStep, AcceptStep, SignedStep, PTL DEF Spec

(* Accounts, invitations, sessions and what the actions remember keep      *)
(* their types, and nobody has a credential without an account.            *)
THEOREM TypeCorrect == Spec => []TypeOK
  BY Types, PTL

-----------------------------------------------------------------------------
(* A decision to remove an owner that is not outdated was taken by an      *)
(* owner who can still act, and by the owner in question only if there was *)
(* and is another.                                                         *)
Sound(d) ==
  /\ server[d].fresh => Able(server[d].by)
  /\ server[d].op = "ban" => server[d].by # server[d].who
  /\ /\ server[d].fresh /\ server[d].by = server[d].who
     /\ server[d].op = "role" /\ server[d].role # "owner"
     => OtherOwner(server[d].who)

DecisionInv == \A d \in Actors : server[d].op \in {"role", "ban"} => Sound(d)

(* An owner's loss of role or access.                                      *)
Removal(d) == /\ RoleWrites(d) \/ BanWrites(d)
              /\ server[d].op = "role" => server[d].role # "owner"
              /\ role[server[d].who] = "owner"

(* Without a removal, owners stay owners and stay able.                    *)
LEMMA OwnersStay ==
  ASSUME TypeOK, [Next]_vars, \A d \in Actors : ~Removal(d), NEW u \in People, role[u] = "owner"
  PROVE  role'[u] = "owner" /\ (Able(u) => Able(u)')
<1>1. ASSUME NEW d \in Actors, RoleWrites(d)
      PROVE  role'[u] = "owner" /\ UNCHANGED <<banned, secret>>
  <2>1. server[d].who \in People
    BY <1>1, ServerFacts DEF TypeOK, RoleWrites
  <2> QED
    BY <1>1, <2>1 DEF RoleWrites, Removal, TypeOK
<1>2. ASSUME NEW d \in Actors, BanWrites(d)
      PROVE  UNCHANGED <<role, secret>> /\ banned'[u] = banned[u]
  <2>1. server[d].who \in People
    BY <1>2, ServerFacts DEF TypeOK, BanWrites
  <2> QED
    BY <1>2, <2>1 DEF BanWrites, Removal, TypeOK
<1>3. ASSUME NEW d \in Actors, AcceptCreates(d)
      PROVE  role'[u] = "owner" /\ UNCHANGED <<banned, secret>>
  BY <1>3 DEF AcceptCreates, Exists, TypeOK
<1>4. ASSUME NEW d \in Actors, AcceptLinks(d)
      PROVE  UNCHANGED <<role, banned>> /\ secret \subseteq secret'
  BY <1>4 DEF AcceptLinks, Linked
<1>5. ASSUME NEW by \in People, NEW v \in People, Unban(by, v)
      PROVE  UNCHANGED <<role, secret>> /\ (~banned[u] => ~banned'[u])
  BY <1>5 DEF Unban, TypeOK
<1>6. \/ \E d \in Actors : RoleWrites(d) \/ BanWrites(d) \/ AcceptCreates(d) \/ AcceptLinks(d)
      \/ \E by, v \in People : Unban(by, v)
      \/ UNCHANGED <<role, banned, secret>>
  <2>1. CASE AccountStep
    BY <2>1 DEF AccountStep, SignInChecks, SignInOpens, SessionEnds, PasswordReplaced, PasswordSweeps
  <2> QED
    BY <2>1, Groups, QuietFrame, InvitationFrame DEF accountVars
<1> QED
  BY <1>1, <1>2, <1>3, <1>4, <1>5, <1>6 DEF Able

(* A removal outdates every other decision.                                *)
LEMMA RemovalOutdates ==
  ASSUME TypeOK, NEW d \in Actors, Removal(d), NEW e \in Actors
  PROVE  server'[e].op \in {"role", "ban"} => server'[e].fresh = FALSE
<1>1. server' = Stale(d)
  BY DEF Removal, RoleWrites, BanWrites, Remove
<1>2. CASE e = d
  BY <1>1, <1>2 DEF Stale, Idle
<1>3. CASE e # d /\ server[e].op \in {"role", "ban"}
  BY <1>1, <1>3, EditedFacts DEF Stale, TypeOK
<1>4. CASE e # d /\ server[e].op \notin {"role", "ban"}
  BY <1>1, <1>4 DEF Stale
<1> QED
  BY <1>2, <1>3, <1>4

LEMMA DecisionStep ==
  TypeOK /\ SignedInv /\ DecisionInv /\ [Next]_vars => DecisionInv'
<1> SUFFICES ASSUME TypeOK, SignedInv, DecisionInv, [Next]_vars,
                    NEW e \in Actors, server'[e].op \in {"role", "ban"}
             PROVE  Sound(e)'
  BY DEF DecisionInv
<1>1. CASE Own(e)
  <2>1. /\ \E by, u \in People : BanReads(e, by, u) \/ \E r \in Roles : RoleReads(e, by, u, r)
        /\ UNCHANGED accountVars
    <3>1. ~InviteRevokes(e) /\ ~(\E i \in Invitations : AcceptReads(e, i))
      BY DEF InviteRevokes, AcceptReads, Begin, Go, TypeOK
    <3>2. ~AcceptCreates(e) /\ ~AcceptLinks(e)
      BY AcceptFacts
    <3>3. \A by, u \in People : ~PasswordReplaced(e, by, u)
      BY DEF PasswordReplaced, Begin, TypeOK
    <3>4. \A by, u \in People, r \in Roles : ~InviteReads(e, by, u, r)
      BY DEF InviteReads, Begin, TypeOK
    <3> QED
      BY <1>1, <3>1, <3>2, <3>3, <3>4 DEF Own, BanReads, RoleReads
  <2>2. \A by \in People : Admitted(by) => Able(by)'
    BY <2>1 DEF Admitted, Able, accountVars, SignedInv
  <2>3. \A u \in People : OtherOwner(u) => OtherOwner(u)'
    BY <2>1 DEF OtherOwner, accountVars
  <2>4. ASSUME NEW by \in People, NEW u \in People, BanReads(e, by, u)
        PROVE  Sound(e)'
    <3>1. /\ Able(by)' /\ u # by
          /\ server'[e] = [op |-> "ban", by |-> by, who |-> u, fresh |-> TRUE]
      BY <2>2, <2>4 DEF BanReads, Begin, TypeOK
    <3> QED
      BY <3>1 DEF Sound, Able
  <2>5. ASSUME NEW by \in People, NEW u \in People, NEW r \in Roles, RoleReads(e, by, u, r)
        PROVE  Sound(e)'
    <3>1. /\ Able(by)' /\ (by = u /\ r # "owner" => OtherOwner(u)')
          /\ server'[e] = [op |-> "role", by |-> by, who |-> u, role |-> r, fresh |-> TRUE]
      BY <2>2, <2>3, <2>5 DEF RoleReads, Begin, TypeOK, Admitted
    <3> QED
      BY <3>1 DEF Sound, Able, OtherOwner
  <2> QED
    BY <2>1, <2>4, <2>5
<1>2. CASE Outdated(e)
  BY <1>2, OutdatedFacts DEF Outdated, DecisionInv, Sound
<1>3. CASE server'[e] = server[e] /\ \E d \in Actors : Removal(d)
  BY <1>3, RemovalOutdates DEF DecisionInv, Sound
<1>4. CASE server'[e] = server[e] /\ \A d \in Actors : ~Removal(d)
  <2>1. server[e].by \in People /\ server[e].who \in People
    BY <1>4, ServerFacts DEF TypeOK
  <2>2. \A u \in People : OtherOwner(u) => OtherOwner(u)'
    BY <1>4, OwnersStay DEF OtherOwner
  <2>3. \A u \in People : Able(u) => Able(u)'
    BY <1>4, OwnersStay DEF Able
  <2> QED
    BY <1>4, <2>1, <2>2, <2>3 DEF DecisionInv, Sound, Able, OtherOwner
<1>5. server'[e] # Idle
  BY DEF Idle
<1> QED
  BY <1>1, <1>2, <1>3, <1>4, <1>5, ServerFrame

(* What is known of two removals, or of a last owner, stays known.         *)
LEMMA HistoryStays ==
  ASSUME TypeOK, [Next]_vars
  PROVE  (overlapped => overlapped') /\ (resigned => resigned')
<1>1. ASSUME NEW d \in Actors, Remove(d)
      PROVE  (overlapped => overlapped') /\ (resigned => resigned')
  <2>1. \/ UNCHANGED <<overlapped, resigned>>
        \/ overlapped' = (overlapped \/ ~server[d].fresh)
    BY <1>1 DEF Remove
  <2>2. \/ UNCHANGED <<overlapped, resigned>>
        \/ resigned' = (resigned \/ /\ server[d].by = server[d].who
                                    /\ {o \in People : role[o] = "owner"} # {server[d].who}
                                    /\ \A o \in People \ {server[d].who} : ~Able(o))
    BY <1>1, Zenon DEF Remove
  <2>3. overlapped => overlapped'
    BY <2>1, Zenon
  <2>4. resigned => resigned'
    BY <2>2, Zenon
  <2> QED
    BY <2>3, <2>4, Zenon
<1>2. UNCHANGED <<overlapped, resigned>> \/ \E d \in Actors : Remove(d)
  <2>1. CASE AccountStep
    BY <2>1 DEF AccountStep, SignInChecks, SignInOpens, SessionEnds, Unban, PasswordReplaced,
           RoleWrites, BanWrites, PasswordSweeps, AcceptCreates, AcceptLinks, history
  <2> QED
    BY <2>1, Groups, QuietFrame, InvitationFrame DEF history
<1>3. ASSUME UNCHANGED <<overlapped, resigned>>
      PROVE  (overlapped => overlapped') /\ (resigned => resigned')
  <2>1. overlapped' = overlapped /\ resigned' = resigned
    BY <1>3
  <2> QED
    BY <2>1, Zenon
<1> QED
  BY <1>1, <1>2, <1>3, Zenon

LEMMA OwnerStep ==
  TypeOK /\ DecisionInv /\ OwnerRemains /\ [Next]_vars => OwnerRemains'
<1> SUFFICES ASSUME TypeOK, DecisionInv, OwnerRemains, [Next]_vars
             PROVE  overlapped' \/ resigned' \/ \E u \in People : Able(u)'
  BY DEF OwnerRemains
<1>1. CASE \A d \in Actors : ~Removal(d)
  <2>1. \A u \in People : Able(u) => Able(u)'
    BY <1>1, OwnersStay DEF Able
  <2> QED
    BY <2>1, HistoryStays DEF OwnerRemains
<1>2. ASSUME NEW d \in Actors, Removal(d)
      PROVE  overlapped' \/ resigned' \/ \E u \in People : Able(u)'
  <2> PICK u, by : u = server[d].who /\ by = server[d].by
    OBVIOUS
  <2>1. /\ server[d].op \in {"role", "ban"} /\ u \in People /\ by \in People
        /\ Remove(d) /\ role[u] = "owner"
        /\ server[d].op = "role" => server[d].role # "owner"
    BY <1>2, ServerFacts DEF Removal, RoleWrites, BanWrites, TypeOK
  <2>2. /\ overlapped \/ ~server[d].fresh => overlapped'
        /\ by = u /\ {o \in People : role[o] = "owner"} # {u}
             /\ (\A o \in People \ {u} : ~Able(o)) => resigned'
    BY <2>1 DEF Remove
  <2>3. \A o \in People \ {u} : Able(o) => Able(o)'
    BY <1>2, <2>1 DEF Removal, RoleWrites, BanWrites, Able, TypeOK
  <2>4. CASE ~server[d].fresh
    BY <2>2, <2>4
  <2>5. CASE server[d].fresh /\ by # u
    BY <2>1, <2>3, <2>5 DEF DecisionInv, Sound
  <2>6. CASE server[d].fresh /\ by = u
    <3>1. OtherOwner(u)
      BY <2>1, <2>6 DEF DecisionInv, Sound
    <3>2. {o \in People : role[o] = "owner"} # {u}
      BY <3>1 DEF OtherOwner
    <3> QED
      BY <2>2, <2>3, <2>6, <3>2
  <2> QED
    BY <2>4, <2>5, <2>6
<1> QED
  BY <1>1, <1>2

(* Unless two removals were decided on the same owners, or the last owner  *)
(* stepped down for a colleague who cannot act, there is an owner who can  *)
(* sign in (changeUserRole, setUserBanned).                                *)
THEOREM LastOwnerIsSafe == Spec => []OwnerRemains
<1>1. Init => DecisionInv
  BY DEF Init, DecisionInv, Idle
<1>2. Init => OwnerRemains
  BY DEF Init, OwnerRemains, Able
<1> QED
  BY <1>1, <1>2, Types, DecisionStep, OwnerStep, PTL DEF Spec

-----------------------------------------------------------------------------
(* A sign-in that was overtaken is known to be late.                       *)
EnteringInv == \A u \in People : "former" \in entering[u] => u \in late

Swept(u) == \E d \in Actors : server[d].op = "sweep" /\ server[d].who = u

LEMMA EnteringStep == TypeOK /\ EnteringInv /\ [Next]_vars => EnteringInv'
<1> SUFFICES ASSUME TypeOK, EnteringInv, [Next]_vars,
                    NEW u \in People, "former" \in entering'[u]
             PROVE  u \in late'
  BY DEF EnteringInv
<1>1. late \subseteq late'
  BY Grows
<1>2. "former" \in entering[u] \/ u \in late'
  <2>1. ASSUME NEW v \in People, Overtakes(v)
        PROVE  "former" \in entering[u] \/ u \in late'
    BY <2>1 DEF Overtakes, Former, TypeOK
  <2>2. ASSUME NEW d \in Actors, RoleWrites(d) \/ BanWrites(d)
        PROVE  "former" \in entering[u] \/ u \in late'
    <3>1. server[d].who \in People /\ Overtakes(server[d].who)
      BY <2>2, ServerFacts DEF TypeOK, RoleWrites, BanWrites
    <3> QED
      BY <2>1, <3>1
  <2>3. CASE AccountStep
    <3>1. ASSUME NEW v \in People,
                 SignInChecks(v) \/ \E kind \in Kinds : SignInOpens(v, kind)
          PROVE  "former" \in entering[u]
      BY <3>1 DEF SignInChecks, SignInOpens, TypeOK
    <3>2. CASE UNCHANGED entering
      BY <3>2
    <3> QED
      BY <2>1, <2>2, <2>3, <3>1, <3>2
      DEF AccountStep, SessionEnds, Unban, PasswordReplaced, PasswordSweeps, AcceptCreates,
          AcceptLinks
  <2>4. CASE UNCHANGED accountVars
    BY <2>4 DEF accountVars
  <2> QED
    BY <2>3, <2>4, Groups, QuietFrame, InvitationFrame
<1> QED
  BY <1>1, <1>2 DEF EnteringInv

(* Whose sessions are to go is forgotten only when they went, or when the  *)
(* action died.                                                            *)
LEMMA SweptStep ==
  ASSUME TypeOK, [Next]_vars, NEW u \in People, Swept(u)
  PROVE  Swept(u)' \/ sessions'[u] = {} \/ u \in broken'
<1>1. PICK d \in Actors : server[d].op = "sweep" /\ server[d].who = u
  BY DEF Swept
<1>2. CASE server'[d] = server[d]
  BY <1>1, <1>2 DEF Swept
<1>3. CASE PasswordSweeps(d)
  BY <1>1, <1>3 DEF PasswordSweeps, TypeOK
<1>4. CASE GiveUp(d)
  BY <1>1, <1>4 DEF GiveUp
<1>5. server'[d] = server[d] \/ PasswordSweeps(d) \/ GiveUp(d)
  <2>1. ~Outdated(d)
    BY <1>1 DEF Outdated
  <2>2. ~Own(d)
    BY <1>1 DEF Own, BanReads, PasswordReplaced, RoleReads, InviteReads, AcceptReads,
                InviteRevokes, AcceptCreates, AcceptLinks, Begin, Idle
  <2>3. ASSUME NEW e \in Actors, e # d,
               PasswordSweeps(e) \/ InviteCommits(e) \/ AcceptMarks(e) \/ GiveUp(e) \/ Own(e)
        PROVE  server'[d] = server[d]
    BY <2>3 DEF PasswordSweeps, InviteCommits, AcceptMarks, GiveUp, Own, BanReads,
                PasswordReplaced, RoleReads, InviteReads, AcceptReads,
                InviteRevokes, AcceptCreates, AcceptLinks, Begin, Go, TypeOK
  <2>4. ASSUME NEW e \in Actors, RoleWrites(e) \/ BanWrites(e)
        PROVE  server'[d] = server[d]
    <3>1. e # d /\ (Remove(e) \/ Go(e, Idle)) /\ server[e].op \in {"role", "ban"}
      BY <1>1, <2>4 DEF RoleWrites, BanWrites
    <3>2. CASE Go(e, Idle)
      BY <3>1, <3>2 DEF Go, TypeOK
    <3>3. CASE Remove(e)
      BY <1>1, <3>1, <3>3, RemoveStep
    <3> QED
      BY <3>1, <3>2, <3>3
  <2>5. ~InviteCommits(d) /\ ~AcceptMarks(d)
    BY <1>1 DEF InviteCommits, AcceptMarks
  <2>6. \/ \E e \in Actors : \/ RoleWrites(e) \/ BanWrites(e)
                             \/ PasswordSweeps(e) \/ InviteCommits(e) \/ AcceptMarks(e)
                             \/ GiveUp(e) \/ Own(e)
        \/ UNCHANGED server
    BY DEF Next, vars, Own, Roles, SignInChecks, SignInOpens, SessionEnds, Unban,
           RevokeInvitation, Expires
  <2> QED
    BY <2>2, <2>3, <2>4, <2>5, <2>6
<1> QED
  BY <1>2, <1>3, <1>4, <1>5

LEMMA FormerStep ==
  TypeOK /\ EnteringInv /\ OldSessionsEnd /\ [Next]_vars => OldSessionsEnd'
<1> SUFFICES ASSUME TypeOK, EnteringInv, OldSessionsEnd, [Next]_vars,
                    NEW u \in People, "former" \in sessions'[u]
             PROVE  u \in late' \union broken' \/ Swept(u)'
  BY DEF OldSessionsEnd, Swept
<1>1. CASE "former" \in sessions[u]
  <2>1. u \in late \union broken \/ Swept(u)
    BY <1>1 DEF OldSessionsEnd, Swept
  <2> QED
    BY <2>1, Grows, SweptStep
<1>2. ASSUME NEW d \in Actors, NEW by \in People, PasswordReplaced(d, by, u)
      PROVE  Swept(u)'
  BY <1>2 DEF PasswordReplaced, Begin, Swept, TypeOK
<1>3. CASE "former" \notin sessions[u] /\ \A d \in Actors, by \in People : ~PasswordReplaced(d, by, u)
  <2>1. SignInOpens(u, "former")
    <3>1. CASE AccountStep
      <4>1. ASSUME NEW v \in People, \E kind \in Kinds : SignInOpens(v, kind) \/ SessionEnds(v, kind)
            PROVE  SignInOpens(u, "former")
        BY <1>3, <4>1 DEF SignInOpens, SessionEnds, TypeOK
      <4>2. ASSUME NEW d \in Actors, RoleWrites(d) \/ BanWrites(d) \/ PasswordSweeps(d)
            PROVE  FALSE
        BY <1>3, <4>2 DEF RoleWrites, BanWrites, PasswordSweeps, SignedOut, TypeOK
      <4>3. ASSUME NEW v \in People, NEW d \in Actors, NEW by \in People,
                   PasswordReplaced(d, by, v)
            PROVE  FALSE
        BY <1>3, <4>3 DEF PasswordReplaced, TypeOK
      <4>4. ~UNCHANGED sessions
        BY <1>3
      <4> QED
        BY <3>1, <4>1, <4>2, <4>3, <4>4
        DEF AccountStep, SignInChecks, Unban, AcceptCreates, AcceptLinks
    <3>2. CASE UNCHANGED accountVars
      BY <1>3, <3>2 DEF accountVars
    <3> QED
      BY <3>1, <3>2, Groups, QuietFrame, InvitationFrame
  <2> QED
    BY <2>1, Grows DEF SignInOpens, EnteringInv
<1> QED
  BY <1>1, <1>2, <1>3

(* A new role, a ban and a new password end the sessions opened before,    *)
(* but for a sign-in under way at that moment and a failure in between.    *)
THEOREM OldSessionsAreEnded == Spec => []OldSessionsEnd
<1>1. Init => EnteringInv /\ OldSessionsEnd
  BY DEF Init, EnteringInv, OldSessionsEnd
<1> QED
  BY <1>1, Types, EnteringStep, FormerStep, PTL DEF Spec

-----------------------------------------------------------------------------
(* An invitation about to be inserted revokes every token that works for   *)
(* its address, if nobody else invites that address at the same moment.    *)
TokenInv ==
  \A d \in Actors : server[d].op = "invite" =>
    \/ server[d].who \in crossed
    \/ /\ \A i \in Invitations :
            Valid(i) /\ invited[i] = server[d].who => i \in server[d].old
       /\ \A e \in Actors \ {d} :
            ~(server[e].op = "invite" /\ server[e].who = server[d].who)

(* A token that works did so before, or is inserted now.                   *)
LEMMA NewToken ==
  ASSUME TypeOK, [Next]_vars
  PROVE  \/ \A i \in Invitations : Valid(i)' => Valid(i) /\ invited'[i] = invited[i]
         \/ \E d \in Actors, k \in Invitations :
              /\ InviteCommits(d) /\ server'[d] = Idle
              /\ invited' = [invited EXCEPT ![k] = server[d].who]
              /\ revoked' = revoked \union server[d].old
<1>1. ASSUME NEW d \in Actors, InviteCommits(d)
      PROVE  \E k \in Invitations :
               /\ InviteCommits(d) /\ server'[d] = Idle
               /\ invited' = [invited EXCEPT ![k] = server[d].who]
               /\ revoked' = revoked \union server[d].old
  BY <1>1 DEF InviteCommits, Go, TypeOK
<1>2. CASE AccountStep \/ QuietStep \/ UNCHANGED vars
  BY <1>2, AccountFrame, QuietFrame DEF invitationVars, Valid
<1>3. ASSUME InvitationStep, \A d \in Actors : ~InviteCommits(d)
      PROVE  \A i \in Invitations : Valid(i)' => Valid(i) /\ invited'[i] = invited[i]
  BY <1>3 DEF InvitationStep, AcceptMarks, Expires, RevokeInvitation, Valid
<1> QED
  BY <1>1, <1>2, <1>3, Groups

(* A step of one action leaves the memory of another one as it is, but for *)
(* removals.                                                               *)
LEMMA OthersStay ==
  ASSUME TypeOK, NEW d \in Actors, Own(d) \/ InviteCommits(d), NEW e \in Actors \ {d}
  PROVE  server'[e] = server[e]
  BY DEF Own, InviteCommits, BanReads, PasswordReplaced, RoleReads, InviteReads, AcceptReads,
         InviteRevokes, AcceptCreates, AcceptLinks, Begin, Go, TypeOK

(* An action that is inserting an invitation was, or has just revoked.     *)
LEMMA InviteFrame ==
  ASSUME TypeOK, [Next]_vars, NEW d \in Actors, server'[d].op = "invite"
  PROVE  server'[d] = server[d] \/ InviteRevokes(d)
<1>1. ~Outdated(d)
  <2> SUFFICES ASSUME Outdated(d) PROVE FALSE
    OBVIOUS
  <2> QED
    BY OutdatedFacts DEF Outdated
<1>2. server'[d] # Idle
  BY DEF Idle
<1>3. ASSUME AcceptCreates(d) \/ AcceptLinks(d)
      PROVE  FALSE
  BY <1>3, AcceptFacts
<1>4. \A by, u \in People : ~BanReads(d, by, u) /\ ~PasswordReplaced(d, by, u)
  BY DEF BanReads, PasswordReplaced, Begin, TypeOK
<1>5. \A by, u \in People, r \in Roles : ~RoleReads(d, by, u, r) /\ ~InviteReads(d, by, u, r)
  BY DEF RoleReads, InviteReads, Begin, TypeOK
<1>6. \A i \in Invitations : ~AcceptReads(d, i)
  BY DEF AcceptReads, Begin, TypeOK
<1>7. Own(d) => InviteRevokes(d)
  BY <1>3, <1>4, <1>5, <1>6 DEF Own
<1> QED
  BY <1>1, <1>2, <1>7, ServerFrame

LEMMA TokenStep == TypeOK /\ TokenInv /\ [Next]_vars => TokenInv'
<1> SUFFICES ASSUME TypeOK, TokenInv, [Next]_vars, NEW d \in Actors,
                    server'[d].op = "invite", server'[d].who \notin crossed'
             PROVE  /\ \A i \in Invitations :
                         Valid(i)' /\ invited'[i] = server'[d].who => i \in server'[d].old
                    /\ \A e \in Actors \ {d} :
                         ~(server'[e].op = "invite" /\ server'[e].who = server'[d].who)
  BY DEF TokenInv
<1>1. crossed \subseteq crossed'
  BY Grows
<1>2. CASE server'[d] = server[d]
  <2>1. \A e \in Actors \ {d} : ~(server[e].op = "invite" /\ server[e].who = server[d].who)
    BY <1>1, <1>2 DEF TokenInv
  <2>2. ASSUME NEW i \in Invitations, Valid(i)', invited'[i] = server[d].who
        PROVE  i \in server[d].old
    <3>1. CASE Valid(i) /\ invited'[i] = invited[i]
      BY <1>1, <1>2, <2>2, <3>1 DEF TokenInv
    <3>2. ASSUME NEW e \in Actors, NEW k \in Invitations, InviteCommits(e), server'[e] = Idle,
                 invited' = [invited EXCEPT ![k] = server[e].who],
                 revoked' = revoked \union server[e].old
          PROVE  i \in server[d].old
      <4>1. e # d
        BY <1>2, <3>2 DEF InviteCommits, Idle
      <4>2. i # k
        BY <2>1, <2>2, <3>2, <4>1 DEF InviteCommits, TypeOK
      <4>3. Valid(i) /\ invited'[i] = invited[i]
        BY <2>2, <3>2, <4>2 DEF Valid, InviteCommits, TypeOK
      <4> QED
        BY <3>1, <4>3
    <3> QED
      BY <2>2, <3>1, <3>2, NewToken
  <2>3. ASSUME NEW e \in Actors \ {d}, server'[e].op = "invite", server'[e].who = server[d].who
        PROVE  FALSE
    <3>1. InviteRevokes(e)
      BY <2>1, <2>3, InviteFrame
    <3>2. Inviting(server[e].who) /\ server'[e].who = server[e].who
      BY <1>2, <2>3, <3>1 DEF InviteRevokes, Inviting, Go, TypeOK
    <3> QED
      BY <1>2, <2>3, <3>1, <3>2 DEF InviteRevokes
  <2> QED
    BY <1>2, <2>2, <2>3
<1>3. CASE InviteRevokes(d)
  <2>1. /\ server'[d].who = server[d].who /\ server'[d].old = Outstanding(server[d].who)
        /\ UNCHANGED invitationVars
        /\ ~Inviting(server[d].who)
    BY <1>3 DEF InviteRevokes, Go, TypeOK
  <2>2. \A i \in Invitations :
          Valid(i)' /\ invited'[i] = server'[d].who => i \in server'[d].old
    BY <2>1 DEF Valid, Outstanding, invitationVars
  <2>3. \A e \in Actors \ {d} : server'[e] = server[e]
    BY <1>3, OthersStay DEF Own
  <2> QED
    BY <2>1, <2>2, <2>3 DEF Inviting
<1> QED
  BY <1>2, <1>3, InviteFrame

LEMMA OneTokenStep == TypeOK /\ TokenInv /\ OneToken /\ [Next]_vars => OneToken'
<1> SUFFICES ASSUME TypeOK, TokenInv, OneToken, [Next]_vars,
                    NEW i \in Invitations, NEW j \in Invitations,
                    Valid(i)', Valid(j)', invited'[i] = invited'[j]
             PROVE  i = j \/ invited'[i] \in crossed'
  BY DEF OneToken
<1>1. crossed \subseteq crossed'
  BY Grows
<1>2. CASE \A n \in Invitations : Valid(n)' => Valid(n) /\ invited'[n] = invited[n]
  BY <1>1, <1>2 DEF OneToken
<1>3. ASSUME NEW d \in Actors, NEW k \in Invitations, InviteCommits(d),
             invited' = [invited EXCEPT ![k] = server[d].who],
             revoked' = revoked \union server[d].old
      PROVE  i = j \/ invited'[i] \in crossed'
  <2>1. \A n \in Invitations : Valid(n)' /\ n # k => Valid(n) /\ invited'[n] = invited[n]
    BY <1>3 DEF Valid, InviteCommits, TypeOK
  <2>2. invited'[k] = server[d].who
    BY <1>3 DEF TypeOK
  <2>3. ASSUME NEW n \in Invitations, n # k, Valid(n)', invited'[n] = server[d].who
        PROVE  server[d].who \in crossed
    <3>1. n \notin server[d].old
      BY <1>3, <2>3 DEF Valid
    <3> QED
      BY <1>3, <2>1, <2>3, <3>1 DEF TokenInv, InviteCommits
  <2> QED
    BY <1>1, <2>1, <2>2, <2>3 DEF OneToken
<1> QED
  BY <1>2, <1>3, NewToken

(* However often an address is invited, only one of its tokens works, if   *)
(* nobody invites it twice at the same moment (inviteUser).                *)
THEOREM TokensAreSingle == Spec => []OneToken
<1>1. Init => TokenInv
  BY DEF Init, TokenInv, Idle
<1>2. Init => OneToken
  BY DEF Init, OneToken, Valid
<1> QED
  BY <1>1, <1>2, Types, TokenStep, OneTokenStep, PTL DEF Spec

-----------------------------------------------------------------------------
Linking(u) == \E d \in Actors : server[d].op \in {"link", "mark"} /\ server[d].who = u

(* An acceptance that is under way is, or has left a whole account.        *)
LEMMA LinkingStep ==
  ASSUME TypeOK, AcceptInv, [Next]_vars, NEW u \in People, Linking(u)
  PROVE  \/ Linking(u)' \/ u \in broken'
         \/ u \in secret' /\ made'[u] \in accepted'
<1>1. PICK d \in Actors : server[d].op \in {"link", "mark"} /\ server[d].who = u
  BY DEF Linking
<1>g. secret \subseteq secret' /\ made'[u] = made[u]
  BY <1>1, Grows DEF AcceptInv
<1>2. CASE server'[d] = server[d]
  BY <1>1, <1>2 DEF Linking
<1>3. CASE AcceptLinks(d)
  BY <1>1, <1>3, AcceptFacts DEF Linking
<1>4. CASE AcceptMarks(d)
  <2>1. server[d].op = "mark" /\ accepted' = accepted \union {server[d].of}
    BY <1>4 DEF AcceptMarks
  <2>2. u \in secret /\ made[u] = server[d].of
    BY <1>1, <2>1 DEF AcceptInv
  <2> QED
    BY <1>g, <2>1, <2>2
<1>5. CASE GiveUp(d)
  BY <1>1, <1>5 DEF GiveUp
<1>6. server'[d] = server[d] \/ AcceptLinks(d) \/ AcceptMarks(d) \/ GiveUp(d)
  <2>1. \/ \E e \in Actors : \/ RoleWrites(e) \/ BanWrites(e)
                             \/ PasswordSweeps(e) \/ InviteCommits(e) \/ AcceptMarks(e)
                             \/ GiveUp(e) \/ Own(e)
        \/ UNCHANGED server
    BY DEF Next, vars, Own, Roles, SignInChecks, SignInOpens, SessionEnds, Unban,
           RevokeInvitation, Expires
  <2>2. ASSUME NEW e \in Actors \ {d},
               \/ PasswordSweeps(e) \/ AcceptMarks(e) \/ GiveUp(e)
               \/ Own(e) \/ InviteCommits(e)
        PROVE  server'[d] = server[d]
    BY <2>2, OthersStay DEF PasswordSweeps, AcceptMarks, GiveUp, Go, TypeOK
  <2>3. ASSUME NEW e \in Actors, RoleWrites(e) \/ BanWrites(e)
        PROVE  server'[d] = server[d]
    <3>1. e # d /\ (Remove(e) \/ Go(e, Idle)) /\ server[e].op \in {"role", "ban"}
      BY <1>1, <2>3 DEF RoleWrites, BanWrites
    <3>2. CASE Go(e, Idle)
      BY <3>1, <3>2 DEF Go, TypeOK
    <3>3. CASE Remove(e)
      BY <1>1, <3>1, <3>3, RemoveStep
    <3> QED
      BY <3>1, <3>2, <3>3
  <2>4. ~PasswordSweeps(d) /\ ~InviteCommits(d)
    BY <1>1 DEF PasswordSweeps, InviteCommits
  <2>5. Own(d) => AcceptLinks(d)
    BY <1>1 DEF Own, BanReads, PasswordReplaced, RoleReads, InviteReads, AcceptReads,
                InviteRevokes, AcceptCreates, Begin, Idle
  <2> QED
    BY <2>1, <2>2, <2>3, <2>4, <2>5
<1> QED
  BY <1>2, <1>3, <1>4, <1>5, <1>6

(* Who gets another role has an account.                                   *)
RoleInv == \A d \in Actors : server[d].op = "role" => Exists(server[d].who)

LEMMA RoleStep == TypeOK /\ RoleInv /\ [Next]_vars => RoleInv'
<1> SUFFICES ASSUME TypeOK, RoleInv, [Next]_vars, NEW d \in Actors, server'[d].op = "role"
             PROVE  Exists(server[d].who)'
  BY DEF RoleInv
<1> SUFFICES \E u \in People : server'[d].who = u /\ Exists(u)'
  BY DEF Exists
<1>1. CASE server'[d] = server[d]
  <2>1. server[d].who \in People
    BY <1>1, ServerFacts DEF TypeOK
  <2> QED
    BY <1>1, <2>1, Grows DEF RoleInv
<1>2. CASE Outdated(d)
  <2>1. server'[d] \in Server /\ server'[d].who = server[d].who /\ server[d].op = "role"
    BY <1>2, OutdatedFacts
  <2>2. server[d].who \in People
    BY <2>1, ServerFacts
  <2> QED
    BY <2>1, <2>2, Grows DEF RoleInv
<1>3. ASSUME NEW by \in People, NEW u \in People, NEW r \in Roles, RoleReads(d, by, u, r)
      PROVE  server'[d].who = u /\ Exists(u)'
  BY <1>3 DEF RoleReads, Begin, TypeOK, accountVars, Exists
<1>4. Own(d) => \E by, u \in People, r \in Roles : RoleReads(d, by, u, r)
  <2>1. ~AcceptCreates(d) /\ ~AcceptLinks(d)
    BY AcceptFacts
  <2>2. ~InviteRevokes(d) /\ \A i \in Invitations : ~AcceptReads(d, i)
    BY DEF InviteRevokes, AcceptReads, Begin, Go, TypeOK
  <2>3. \A by, u \in People : ~BanReads(d, by, u) /\ ~PasswordReplaced(d, by, u)
    BY DEF BanReads, PasswordReplaced, Begin, TypeOK
  <2>4. \A by, u \in People, r \in Roles : ~InviteReads(d, by, u, r)
    BY DEF InviteReads, Begin, TypeOK
  <2> QED
    BY <2>1, <2>2, <2>3, <2>4 DEF Own
<1>5. server'[d] # Idle
  BY DEF Idle
<1> QED
  BY <1>1, <1>2, <1>3, <1>4, <1>5, ServerFrame

LEMMA WholeStep ==
  TypeOK /\ AcceptInv /\ RoleInv /\ AccountsAreWhole /\ [Next]_vars => AccountsAreWhole'
<1> SUFFICES ASSUME TypeOK, AcceptInv, RoleInv, AccountsAreWhole, [Next]_vars,
                    NEW u \in People, Exists(u)'
             PROVE  \/ u \in secret' /\ made'[u] \in accepted' \union {NoInvitation}
                    \/ Linking(u)' \/ u \in broken'
  BY DEF AccountsAreWhole, Linking
<1>1. CASE Exists(u)
  <2>1. \/ u \in secret /\ made[u] \in accepted \union {NoInvitation}
        \/ Linking(u) \/ u \in broken
    BY <1>1 DEF AccountsAreWhole, Linking
  <2> QED
    BY <1>1, <2>1, Grows, LinkingStep
<1>2. CASE ~Exists(u)
  <2>1. ASSUME NEW d \in Actors, AcceptCreates(d)
        PROVE  Linking(u)'
    <3>1. server[d].who = u
      BY <1>2, <2>1 DEF AcceptCreates, Exists, TypeOK
    <3> QED
      BY <2>1, <3>1, AcceptFacts DEF Linking
  <2>2. ASSUME NEW d \in Actors, RoleWrites(d)
        PROVE  FALSE
    <3>1. server[d].who # u
      BY <1>2, <2>2 DEF RoleWrites, RoleInv
    <3> QED
      BY <1>2, <2>2, <3>1 DEF RoleWrites, Exists, TypeOK
  <2>3. ~UNCHANGED role
    BY <1>2 DEF Exists
  <2>4. CASE AccountStep
    BY <2>1, <2>2, <2>3, <2>4 DEF AccountStep, SignInChecks, SignInOpens, SessionEnds, Unban,
       PasswordReplaced, BanWrites, PasswordSweeps, AcceptLinks
  <2> QED
    BY <2>3, <2>4, Groups, QuietFrame, InvitationFrame DEF accountVars
<1> QED
  BY <1>1, <1>2

(* An invited account has its credential and has consumed its invitation,  *)
(* unless it is being made or that failed halfway (acceptInvitation).      *)
THEOREM AcceptedAccountsAreWhole == Spec => []AccountsAreWhole
<1>1. Init => RoleInv
  BY DEF Init, RoleInv, Idle
<1>2. Init => AccountsAreWhole
  BY DEF Init, AccountsAreWhole, Exists
<1> QED
  BY <1>1, <1>2, Types, RoleStep, WholeStep, PTL DEF Spec
=============================================================================
