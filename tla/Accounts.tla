------------------------------ MODULE Accounts ------------------------------
(***************************************************************************)
(* Who may enter the panel (_actions/users.ts, lib/auth/guards.ts,         *)
(* lib/auth/server.ts, db/schema/auth.ts): accounts with their roles,      *)
(* invitations, and the sessions that better-auth keeps.                   *)
(*                                                                         *)
(* An e-mail address and the account it may get are one element of People. *)
(* Managers and editors, who may do none of this, are "staff".             *)
(***************************************************************************)
EXTENDS Naturals

CONSTANTS People, Invitations, Nobody, NoInvitation,
          Actors,      \* server actions at work at the same time
          MaxActions   \* bound: server actions begun

ASSUME AccountsAssumption ==
  /\ Nobody \notin People /\ NoInvitation \notin Invitations /\ MaxActions \in Nat

VARIABLES
  role,      \* of an account: "none" while there is no such row
  banned,
  secret,    \* accounts with a credential to sign in with
  sessions,  \* per account: "current" or "former", opened before its last change
  entering,  \* sign-ins that passed their checks and have no session yet
  invited,   \* whom an invitation is for, with the role it gives: `grant`
  grant, accepted, revoked, expired,
  server     \* what a server action has read and done so far

VARIABLES    \* bound and history
  actions,
  made,        \* the invitation an account was made from
  overlapped,  \* an owner was removed on a decision older than another removal
  resigned,    \* the last owner able to act stepped down, counting one who is not
  late,        \* accounts changed while a sign-in of theirs was under way
  crossed,     \* people invited twice at the same moment
  broken       \* accounts whose making, or whose new password, failed halfway

accountVars == <<role, banned, secret, sessions, entering>>
invitationVars == <<invited, grant, accepted, revoked, expired>>
history == <<made, overlapped, resigned, late, crossed, broken>>
vars == <<accountVars, invitationVars, server, actions, history>>

Idle == [op |-> "idle", by |-> Nobody, who |-> Nobody]

Exists(u) == role[u] # "none"
Able(u) == role[u] = "owner" /\ ~banned[u] /\ u \in secret

(* requireCapability('users.manage'): a session, read afresh.              *)
Admitted(u) == role[u] = "owner" /\ ~banned[u] /\ sessions[u] # {}

Valid(i) == invited[i] # Nobody /\ i \notin accepted \union revoked \union expired

(* A studio at work: some owners, the first of them made by the script.    *)
Init ==
  /\ \E owners \in (SUBSET People) \ {{}} :
       /\ role = [u \in People |-> IF u \in owners THEN "owner" ELSE "none"]
       /\ secret = owners
  /\ banned = [u \in People |-> FALSE]
  /\ sessions = [u \in People |-> {}] /\ entering = [u \in People |-> {}]
  /\ invited = [i \in Invitations |-> Nobody] /\ grant = [i \in Invitations |-> "none"]
  /\ accepted = {} /\ revoked = {} /\ expired = {}
  /\ server = [d \in Actors |-> Idle] /\ actions = 0
  /\ made = [u \in People |-> NoInvitation]
  /\ overlapped = FALSE /\ resigned = FALSE
  /\ late = {} /\ crossed = {} /\ broken = {}

Begin(d, s) == /\ server[d] = Idle /\ actions < MaxActions
               /\ actions' = actions + 1 /\ server' = [server EXCEPT ![d] = s]
Go(d, s) == server' = [server EXCEPT ![d] = s] /\ UNCHANGED actions
-----------------------------------------------------------------------------
(* better-auth: a sign-in checks the password and the ban, then inserts.   *)
SignInChecks(u) ==
  /\ Exists(u) /\ u \in secret /\ ~banned[u]
  /\ entering' = [entering EXCEPT ![u] = @ \union {"current"}]
  /\ UNCHANGED <<role, banned, secret, sessions, invitationVars, server, actions, history>>

SignInOpens(u, kind) ==
  /\ kind \in entering[u]
  /\ entering' = [entering EXCEPT ![u] = @ \ {kind}]
  /\ sessions' = [sessions EXCEPT ![u] = @ \union {kind}]
  /\ UNCHANGED <<role, banned, secret, invitationVars, server, actions, history>>

SessionEnds(u, kind) ==
  /\ kind \in sessions[u]
  /\ sessions' = [sessions EXCEPT ![u] = @ \ {kind}]
  /\ UNCHANGED <<role, banned, secret, entering, invitationVars, server, actions, history>>

(* From here on, what was opened or is being opened for u is a former one. *)
Former(kinds) == IF kinds = {} THEN {} ELSE {"former"}
Overtakes(u) == /\ entering' = [entering EXCEPT ![u] = Former(@)]
                /\ late' = IF entering[u] = {} THEN late ELSE late \union {u}

(* A role or a ban signs the account out in its transaction. Slip: the     *)
(* sessions are left to expire.                                            *)
LeftSignedIn(u) == Former(sessions[u])
SignedOut(u) == {}
-----------------------------------------------------------------------------
(* Of owners the code counts rows, whether they can sign in or not. Slip:  *)
(* the owner to be removed is counted as the one who stays.                *)
SomeOwner(u) == \E o \in People : role[o] = "owner"
OtherOwner(u) == \E o \in People \ {u} : role[o] = "owner"

(* To lose the role, or access: the decision is stale once another owner's *)
(* removal commits.                                                        *)
Stale(d) == [e \in Actors |->
  IF e = d THEN Idle
  ELSE IF server[e].op \in {"role", "ban"} THEN [server[e] EXCEPT !.fresh = FALSE]
  ELSE server[e]]

Remove(d) ==
  LET u == server[d].who IN
  IF role[u] # "owner"
  THEN Go(d, Idle) /\ UNCHANGED <<overlapped, resigned>>
  ELSE /\ server' = Stale(d) /\ UNCHANGED actions
       /\ overlapped' = (overlapped \/ ~server[d].fresh)
       /\ resigned' = (resigned \/ /\ server[d].by = u
                                   /\ {o \in People : role[o] = "owner"} # {u}
                                   /\ \A o \in People \ {u} : ~Able(o))

RoleReads(d, by, u, r) ==
  /\ Admitted(by) /\ Exists(u)
  /\ role[u] = "owner" /\ r # "owner" => OtherOwner(u)
  /\ Begin(d, [op |-> "role", by |-> by, who |-> u, role |-> r, fresh |-> TRUE])
  /\ UNCHANGED <<accountVars, invitationVars, history>>

RoleWrites(d) ==
  LET u == server[d].who IN
  /\ server[d].op = "role"
  /\ IF server[d].role = "owner" THEN Go(d, Idle) /\ UNCHANGED <<overlapped, resigned>>
     ELSE Remove(d)
  /\ role' = [role EXCEPT ![u] = server[d].role]
  /\ sessions' = [sessions EXCEPT ![u] = SignedOut(u)]
  /\ Overtakes(u)
  /\ UNCHANGED <<banned, secret, invitationVars, made, crossed, broken>>

BanReads(d, by, u) ==
  /\ Admitted(by) /\ u # by /\ Exists(u)
  /\ role[u] = "owner" => OtherOwner(u)
  /\ Begin(d, [op |-> "ban", by |-> by, who |-> u, fresh |-> TRUE])
  /\ UNCHANGED <<accountVars, invitationVars, history>>

BanWrites(d) ==
  LET u == server[d].who IN
  /\ server[d].op = "ban"
  /\ Remove(d)
  /\ banned' = [banned EXCEPT ![u] = TRUE]
  /\ sessions' = [sessions EXCEPT ![u] = SignedOut(u)]
  /\ Overtakes(u)
  /\ UNCHANGED <<role, secret, invitationVars, made, crossed, broken>>

Unban(by, u) ==
  /\ Admitted(by) /\ u # by /\ banned[u]
  /\ actions < MaxActions /\ actions' = actions + 1
  /\ banned' = [banned EXCEPT ![u] = FALSE]
  /\ UNCHANGED <<role, secret, sessions, entering, invitationVars, server, history>>
-----------------------------------------------------------------------------
(* setUserPassword: better-auth replaces the credential; the sessions go   *)
(* in a transaction of their own.                                          *)
PasswordReplaced(d, by, u) ==
  /\ Admitted(by) /\ u # by /\ u \in secret
  /\ Begin(d, [op |-> "sweep", by |-> by, who |-> u])
  /\ sessions' = [sessions EXCEPT ![u] = Former(@)]
  /\ Overtakes(u)
  /\ UNCHANGED <<role, banned, secret, invitationVars, made, overlapped, resigned, crossed, broken>>

PasswordSweeps(d) ==
  /\ server[d].op = "sweep"
  /\ sessions' = [sessions EXCEPT ![server[d].who] = {}]
  /\ Go(d, Idle)
  /\ UNCHANGED <<role, banned, secret, entering, invitationVars, history>>
-----------------------------------------------------------------------------
(* inviteUser looks for an account, then revokes what is outstanding and   *)
(* inserts, in a transaction that does not see another one's insert.       *)
(* Slip: an invitation sent again leaves the old one as it is.             *)
NoneOf(u) == {}
Outstanding(u) == {i \in Invitations : invited[i] = u /\ i \notin accepted}

Inviting(u) == \E e \in Actors : server[e].op = "invite" /\ server[e].who = u

InviteReads(d, by, u, r) ==
  /\ Admitted(by) /\ ~Exists(u)
  /\ Begin(d, [op |-> "inviting", by |-> by, who |-> u, role |-> r])
  /\ UNCHANGED <<accountVars, invitationVars, history>>

InviteRevokes(d) ==
  LET u == server[d].who IN
  /\ server[d].op = "inviting"
  /\ crossed' = IF Inviting(u) THEN crossed \union {u} ELSE crossed
  /\ Go(d, [op |-> "invite", by |-> server[d].by, who |-> u, role |-> server[d].role,
            old |-> Outstanding(u)])
  /\ UNCHANGED <<accountVars, invitationVars, made, overlapped, resigned, late, broken>>

InviteCommits(d) ==
  LET s == server[d] IN
  /\ s.op = "invite"
  /\ \E i \in Invitations :
       /\ invited[i] = Nobody
       /\ invited' = [invited EXCEPT ![i] = s.who]
       /\ grant' = [grant EXCEPT ![i] = s.role]
  /\ revoked' = revoked \union s.old
  /\ Go(d, Idle)
  /\ UNCHANGED <<accountVars, accepted, expired, history>>

RevokeInvitation(by, i) ==
  /\ Admitted(by) /\ invited[i] # Nobody /\ i \notin revoked
  /\ actions < MaxActions /\ actions' = actions + 1
  /\ revoked' = revoked \union {i}
  /\ UNCHANGED <<accountVars, invited, grant, accepted, expired, server, history>>

Expires(i) ==
  /\ Valid(i)
  /\ expired' = expired \union {i}
  /\ UNCHANGED <<accountVars, invited, grant, accepted, revoked, server, actions, history>>
-----------------------------------------------------------------------------
(* acceptInvitation: two reads, then three statements without a            *)
(* transaction. Slip: the account's credential is forgotten.               *)
AcceptReads(d, i) ==
  /\ Valid(i) /\ ~Exists(invited[i])
  /\ Begin(d, [op |-> "create", by |-> Nobody, who |-> invited[i], of |-> i])
  /\ UNCHANGED <<accountVars, invitationVars, history>>

(* The role is the invitation's. Slip: the role better-auth gives by       *)
(* itself.                                                                 *)
LibraryRole(i) == "user"
InvitedRole(i) == grant[i]

(* user_email_uq refuses the second account; the loser throws.             *)
AcceptCreates(d) ==
  LET u == server[d].who IN
  /\ server[d].op = "create" /\ ~Exists(u)
  /\ role' = [role EXCEPT ![u] = InvitedRole(server[d].of)]
  /\ made' = [made EXCEPT ![u] = server[d].of]
  /\ Go(d, [server[d] EXCEPT !.op = "link"])
  /\ UNCHANGED <<banned, secret, sessions, entering, invitationVars,
                 overlapped, resigned, late, crossed, broken>>

NotLinked(u) == secret
Linked(u) == secret \union {u}

AcceptLinks(d) ==
  /\ server[d].op = "link"
  /\ secret' = Linked(server[d].who)
  /\ Go(d, [server[d] EXCEPT !.op = "mark"])
  /\ UNCHANGED <<role, banned, sessions, entering, invitationVars, history>>

AcceptMarks(d) ==
  /\ server[d].op = "mark"
  /\ accepted' = accepted \union {server[d].of}
  /\ Go(d, Idle)
  /\ UNCHANGED <<accountVars, invited, grant, revoked, expired, history>>

(* A statement fails, or the server dies: what was committed stays.        *)
GiveUp(d) ==
  /\ server[d] # Idle
  /\ broken' = IF server[d].op \in {"link", "mark", "sweep"}
               THEN broken \union {server[d].who} ELSE broken
  /\ Go(d, Idle)
  /\ UNCHANGED <<accountVars, invitationVars, made, overlapped, resigned, late, crossed>>

Next ==
  \/ \E u \in People :
       \/ SignInChecks(u)
       \/ \E kind \in {"current", "former"} : SignInOpens(u, kind) \/ SessionEnds(u, kind)
  \/ \E by, u \in People :
       \/ Unban(by, u)
       \/ \E d \in Actors :
            \/ BanReads(d, by, u) \/ PasswordReplaced(d, by, u)
            \/ \E r \in {"owner", "staff"} : RoleReads(d, by, u, r) \/ InviteReads(d, by, u, r)
  \/ \E d \in Actors :
       \/ RoleWrites(d) \/ BanWrites(d) \/ PasswordSweeps(d)
       \/ InviteRevokes(d) \/ InviteCommits(d)
       \/ AcceptCreates(d) \/ AcceptLinks(d) \/ AcceptMarks(d) \/ GiveUp(d)
  \/ \E i \in Invitations :
       \/ Expires(i)
       \/ \E by \in People : RevokeInvitation(by, i)
       \/ \E d \in Actors : AcceptReads(d, i)

Spec == Init /\ [][Next]_vars
-----------------------------------------------------------------------------
Roles == {"owner", "staff"}
Kinds == {"current", "former"}

Server ==
  {Idle}
  \union [op : {"role"}, by : People, who : People, role : Roles, fresh : BOOLEAN]
  \union [op : {"ban"}, by : People, who : People, fresh : BOOLEAN]
  \union [op : {"sweep"}, by : People, who : People]
  \union [op : {"inviting"}, by : People, who : People, role : Roles]
  \union [op : {"invite"}, by : People, who : People, role : Roles, old : SUBSET Invitations]
  \union [op : {"create", "link", "mark"}, by : {Nobody}, who : People, of : Invitations]

(* Every variable keeps its type; only accounts have credentials, and only *)
(* invitations in use are of any state.                                    *)
TypeOK ==
  /\ role \in [People -> Roles \union {"none"}] /\ banned \in [People -> BOOLEAN]
  /\ secret \subseteq {u \in People : Exists(u)}
  /\ sessions \in [People -> SUBSET Kinds] /\ entering \in [People -> SUBSET Kinds]
  /\ invited \in [Invitations -> People \union {Nobody}]
  /\ grant \in [Invitations -> Roles \union {"none"}]
  /\ accepted \subseteq Invitations /\ revoked \subseteq Invitations
  /\ expired \subseteq Invitations
  /\ \A i \in Invitations : invited[i] # Nobody => grant[i] \in Roles
  /\ server \in [Actors -> Server] /\ actions \in 0..MaxActions
  /\ made \in [People -> Invitations \union {NoInvitation}]
  /\ overlapped \in BOOLEAN /\ resigned \in BOOLEAN
  /\ late \subseteq People /\ crossed \subseteq People /\ broken \subseteq People

(* The panel never loses its last owner who can sign in (last_owner of     *)
(* changeUserRole and setUserBanned, cannot_ban_self): unless two removals *)
(* were decided on the same owners, or the last one stepped down trusting  *)
(* in a colleague who is banned or has no password, whom the code counts.  *)
OwnerRemains == overlapped \/ resigned \/ \E u \in People : Able(u)

(* Nobody stays signed in on what an account used to be: a new role, a ban *)
(* and a new password end the sessions opened before, but for a sign-in    *)
(* under way at that moment, and a failure between the password and the    *)
(* sessions (the transactions of changeUserRole, setUserBanned and         *)
(* setUserPassword).                                                       *)
OldSessionsEnd ==
  \A u \in People : "former" \in sessions[u] =>
    \/ u \in late \union broken
    \/ \E d \in Actors : server[d].op = "sweep" /\ server[d].who = u

(* An address never has two tokens that work, however often it is invited, *)
(* if nobody invites it twice at the same moment (inviteUser: "so a resend *)
(* cannot leave two valid tokens in circulation").                         *)
OneToken ==
  \A i, j \in Invitations :
    Valid(i) /\ Valid(j) /\ invited[i] = invited[j] => i = j \/ invited[i] \in crossed

(* An invited account is whole: it has a credential, and the invitation it *)
(* came from is consumed, unless it is being made or that failed halfway   *)
(* (acceptInvitation, whose writes are not one transaction).               *)
AccountsAreWhole ==
  \A u \in People : Exists(u) =>
    \/ u \in secret /\ made[u] \in accepted \union {NoInvitation}
    \/ \E d \in Actors : server[d].op \in {"link", "mark"} /\ server[d].who = u
    \/ u \in broken

(* "Refuses to remove the last owner." (changeUserRole)                    *)
LastOwnerStays == \E u \in People : role[u] = "owner"
=============================================================================
