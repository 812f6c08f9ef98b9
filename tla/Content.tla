------------------------------ MODULE Content ------------------------------
(***************************************************************************)
(* One document of the CMS: its revisions, the pointer to its draft and    *)
(* the locales that publish it (admin/_actions/content.ts), and its        *)
(* removal in two levels (admin/_actions/removal.ts).                      *)
(*                                                                         *)
(* Most actions read the document, decide, and write in a transaction that *)
(* trusts what was read; under READ COMMITTED another action may commit in *)
(* between. The unique index one_draft_per_document_uq and the foreign     *)
(* keys are all that stops a stale writer.                                 *)
(***************************************************************************)
EXTENDS Naturals

CONSTANTS Locales,      \* languages of the site
          Texts,        \* what a block list or an SEO text may say
          Blank,        \* the text a new document starts with
          Sessions,     \* concurrent server actions of the panel
          MaxRevisions, \* bound: revisions of the document
          MaxEdits      \* bound: texts saved

ASSUME ContentAssumption ==
  /\ Locales # {} /\ Blank \in Texts
  /\ MaxRevisions \in Nat \ {0, 1}
  /\ MaxEdits \in Nat

Revisions == 1..MaxRevisions
Content   == [blocks : Texts, seo : [Locales -> Texts]]
Empty     == [blocks |-> Blank, seo |-> [l \in Locales |-> Blank]]

VARIABLES
  isSystem,  \* documents.is_system
  place,     \* archived_at: "live" or "archived"; "purged" once deleted
  draft,     \* documents.draft_revision_id
  last,      \* the highest revision_number
  frozen,    \* document_revisions.is_draft is false
  content,   \* document_revisions.blocks and .meta
  status,    \* document_locales.status
  pointer,   \* document_locales.published_revision_id, 0 for null
  handler    \* what a server action read and means to do

VARIABLES
  released,  \* was the document ever published?
  edits

document  == <<isSystem, place, draft>>
revisions == <<last, frozen, content>>
locales   == <<status, pointer>>
contentVars == <<document, revisions, locales, handler, released, edits>>

AtRest == [op |-> "none", rev |-> 0, copy |-> Empty, to |-> {},
           early |-> FALSE, history |-> FALSE]

(* createProject: a first draft, published nowhere. A system page is       *)
(* seeded published in every locale, with a second revision as its draft.  *)
ContentInit ==
  /\ place = "live"
  /\ content = [r \in Revisions |-> Empty]
  /\ handler = [s \in Sessions |-> AtRest]
  /\ edits = 0
  /\ \/ /\ isSystem = FALSE /\ released = FALSE
        /\ draft = 1 /\ last = 1
        /\ frozen = [r \in Revisions |-> FALSE]
        /\ status = [l \in Locales |-> "draft"]
        /\ pointer = [l \in Locales |-> 0]
     \/ /\ isSystem = TRUE /\ released = TRUE
        /\ draft = 2 /\ last = 2
        /\ frozen = [r \in Revisions |-> r = 1]
        /\ status = [l \in Locales |-> "published"]
        /\ pointer = [l \in Locales |-> 1]

(* A handler remembers what it read. The last two fields are history: was  *)
(* the revision still open, had the document ever been published?          *)
Start(s, op, rev, copy, to) ==
  /\ handler[s] = AtRest
  /\ handler' = [handler EXCEPT ![s] =
       [op |-> op, rev |-> rev, copy |-> copy, to |-> to,
        early |-> ~frozen[rev], history |-> released]]
  /\ UNCHANGED <<document, revisions, locales, released>>

Finish(s) == handler' = [handler EXCEPT ![s] = AtRest]

-----------------------------------------------------------------------------
(* saveDraft: the draft pointer is read outside the transaction that       *)
(* writes the blocks, which does not look at is_draft.                     *)
Edit == edits < MaxEdits /\ edits' = edits + 1

SaveReads(s, t) ==
  /\ place # "purged" /\ Edit
  /\ Start(s, "save", draft, [Empty EXCEPT !.blocks = t], {})

SaveWrites(s) ==
  LET r == handler[s].rev IN
  /\ handler[s].op = "save"
  /\ content' = IF place = "purged" THEN content
                ELSE [content EXCEPT ![r].blocks = handler[s].copy.blocks]
  /\ Finish(s)
  /\ UNCHANGED <<document, last, frozen, locales, released, edits>>

(* updateSeo: the same, and the transaction reads meta before it writes    *)
(* the merged whole back.                                                  *)
SeoReads(s, l, t) ==
  /\ place # "purged" /\ Edit
  /\ Start(s, "seo", draft, [Empty EXCEPT !.seo[l] = t], {l})

SeoLoads(s) ==
  /\ handler[s].op = "seo"
  /\ handler' = [handler EXCEPT
       ![s].op = "merge",
       ![s].copy.seo = [l \in Locales |->
          IF l \in handler[s].to THEN @[l]
                                 ELSE content[handler[s].rev].seo[l]]]
  /\ UNCHANGED <<document, revisions, locales, released, edits>>

SeoWrites(s) ==
  LET r == handler[s].rev IN
  /\ handler[s].op = "merge"
  /\ content' = IF place = "purged" THEN content
                ELSE [content EXCEPT ![r].seo = handler[s].copy.seo]
  /\ Finish(s)
  /\ UNCHANGED <<document, last, frozen, locales, released, edits>>

-----------------------------------------------------------------------------
(* publishDocument, one transaction: it reads the draft, and its first     *)
(* write locks it. What it clones is what it read.                         *)
PublishReads(s, L) ==
  /\ place # "purged" /\ UNCHANGED edits
  /\ Start(s, "publish", draft, content[draft], L)

(* one_draft_per_document_uq refuses the clone when the revision read is   *)
(* no longer the open one. Slip: relying on the pointer without the index. *)
NeverRefused(s) == FALSE
OpensSecondDraft(s) ==
  \E r \in 1..last : r # handler[s].rev /\ ~frozen[r]

(* Slip: leaving the document on the revision it has just frozen.          *)
FrozenAsDraft(s) == handler[s].rev
NewDraft(s) == last + 1

PublishCommits(s) ==
  LET r == handler[s].rev
      L == handler[s].to
  IN
  /\ handler[s].op = "publish"
  /\ place # "purged" /\ ~OpensSecondDraft(s)
  /\ last < MaxRevisions
  /\ frozen' = [frozen EXCEPT ![r] = TRUE]
  /\ status' = [l \in Locales |-> IF l \in L THEN "published" ELSE status[l]]
  /\ pointer' = [l \in Locales |-> IF l \in L THEN r ELSE pointer[l]]
  /\ last' = last + 1
  /\ content' = [content EXCEPT ![last + 1] = handler[s].copy]
  /\ draft' = NewDraft(s)
  /\ released' = TRUE
  /\ Finish(s)
  /\ UNCHANGED <<isSystem, place, edits>>

PublishFails(s) ==
  /\ handler[s].op = "publish"
  /\ place = "purged" \/ OpensSecondDraft(s)
  /\ Finish(s)
  /\ UNCHANGED <<document, revisions, locales, released, edits>>

(* rollbackDocument, one transaction. Slip: accepting the open draft.      *)
AnyRevision(r) == r <= last
Restorable(r) == r <= last /\ frozen[r]

Rollback(r, L) ==
  /\ place # "purged" /\ Restorable(r)
  /\ status' = [l \in Locales |-> IF l \in L THEN "published" ELSE status[l]]
  /\ pointer' = [l \in Locales |-> IF l \in L THEN r ELSE pointer[l]]
  /\ released' = TRUE
  /\ UNCHANGED <<document, revisions, handler, edits>>

(* unpublishDocument: the status moves, the pointer stays. Slips: not      *)
(* sparing system pages; a value that is not one of publish_status.        *)
AnyDocument == TRUE
Removable == ~isSystem
OffSiteUnknown == "unpublished"
OffSite == "archived"

Unpublish(L) ==
  /\ place # "purged" /\ Removable
  /\ status' = [l \in Locales |-> IF l \in L THEN OffSite ELSE status[l]]
  /\ UNCHANGED <<document, revisions, pointer, handler, released, edits>>

(* archiveProject: the same for every locale of whatever document has the  *)
(* id. It looks neither at the kind nor at is_system, and leaves           *)
(* archived_at alone.                                                      *)
ArchiveProject ==
  /\ place # "purged"
  /\ status' = [l \in Locales |-> OffSite]
  /\ UNCHANGED <<document, revisions, pointer, handler, released, edits>>

-----------------------------------------------------------------------------
(* archiveDocument and restoreDocument: the place is read outside the      *)
(* transaction that writes it.                                             *)
ArchiveReads(s) ==
  /\ place = "live" /\ Removable /\ UNCHANGED edits
  /\ Start(s, "archive", draft, Empty, {})

ArchiveWrites(s) ==
  /\ handler[s].op = "archive"
  /\ \/ /\ place # "purged"
        /\ place' = "archived"
        /\ status' = [l \in Locales |-> OffSite]
     \/ place = "purged" /\ UNCHANGED <<place, status>>
  /\ Finish(s)
  /\ UNCHANGED <<isSystem, draft, revisions, pointer, released, edits>>

RestoreReads(s) ==
  /\ place = "archived" /\ UNCHANGED edits
  /\ Start(s, "restore", draft, Empty, {})

RestoreWrites(s) ==
  /\ handler[s].op = "restore"
  /\ place' = IF place = "purged" THEN "purged" ELSE "live"
  /\ Finish(s)
  /\ UNCHANGED <<isSystem, draft, revisions, locales, released, edits>>

(* purgeDocument, from the archive and only if no locale ever pointed at a *)
(* revision. Slip: asking whether one is published now.                    *)
NotPublishedNow == \A l \in Locales : status[l] # "published"
NeverPublished == \A l \in Locales : pointer[l] = 0

PurgeReads(s) ==
  /\ place = "archived" /\ Removable /\ NeverPublished /\ UNCHANGED edits
  /\ Start(s, "purge", draft, Empty, {})

PurgeWrites(s) ==
  /\ handler[s].op = "purge"
  /\ place' = "purged"
  /\ pointer' = [l \in Locales |-> 0]
  /\ Finish(s)
  /\ UNCHANGED <<isSystem, draft, revisions, status, released, edits>>

-----------------------------------------------------------------------------
ContentNext ==
  \/ \E s \in Sessions, t \in Texts :
       SaveReads(s, t) \/ \E l \in Locales : SeoReads(s, l, t)
  \/ \E s \in Sessions, L \in (SUBSET Locales) \ {{}} : PublishReads(s, L)
  \/ \E s \in Sessions : SaveWrites(s) \/ SeoLoads(s) \/ SeoWrites(s)
  \/ \E s \in Sessions : PublishCommits(s) \/ PublishFails(s)
  \/ ArchiveProject
  \/ \E L \in (SUBSET Locales) \ {{}} :
       Unpublish(L) \/ \E r \in Revisions : Rollback(r, L)
  \/ \E s \in Sessions : ArchiveReads(s) \/ RestoreReads(s) \/ PurgeReads(s)
  \/ \E s \in Sessions : ArchiveWrites(s) \/ RestoreWrites(s) \/ PurgeWrites(s)

ContentSpec == ContentInit /\ [][ContentNext]_contentVars
-----------------------------------------------------------------------------
Session == [op : {"none", "save", "seo", "merge", "publish", "archive",
                  "restore", "purge"},
            rev : 0..MaxRevisions, copy : Content, to : SUBSET Locales,
            early : BOOLEAN, history : BOOLEAN]

ContentTypeOK ==
  /\ isSystem \in BOOLEAN
  /\ place \in {"live", "archived", "purged"}
  /\ last \in Revisions /\ draft \in 1..last
  /\ frozen \in [Revisions -> BOOLEAN]
  /\ content \in [Revisions -> Content]
  /\ status \in [Locales -> {"draft", "published", "archived"}]
  /\ pointer \in [Locales -> 0..last]
  /\ handler \in [Sessions -> Session]
  /\ released \in BOOLEAN
  /\ edits \in Nat

(* "At most one open draft per document", and it is the one the document   *)
(* points at: publications that race leave neither two drafts nor none,    *)
(* and the panel never edits a revision other than the open one.           *)
OneDraft == \A r \in 1..last : ~frozen[r] <=> r = draft

(* What a locale publishes is a frozen revision, never the draft somebody  *)
(* is editing, whatever publications, rollbacks and removals raced.        *)
LiveIsFrozen == \A l \in Locales : pointer[l] # 0 => frozen[pointer[l]]

(* purgeDocument refuses "anything that has ever been published in any     *)
(* locale": unpublishing, archiving, restoring and rolling back leave the  *)
(* evidence it looks for, so no purge is decided on a document with a past.*)
PurgeSparesHistory ==
  \A s \in Sessions : handler[s].op = "purge" => ~handler[s].history

(* A frozen revision is written only by a save that read the pointer while *)
(* the revision was still the draft; no later save can reach it.           *)
FrozenWrittenOnlyByEarlyReaders ==
  [][\A r \in Revisions : frozen[r] /\ content'[r] # content[r] =>
       \E s \in Sessions : /\ handler[s].op \in {"save", "merge"}
                           /\ handler[s].rev = r /\ handler[s].early
                           /\ handler'[s] = AtRest]_contentVars

(* "A site with no home page is not a state the CMS should be able to      *)
(* reach": no handler takes a locale of a system page off the site. One    *)
(* does: archiveProject, given the id of a system page.                    *)
OnSite(l) == place = "live" /\ status[l] = "published" /\ pointer[l] # 0
SystemStaysUp == isSystem => \A l \in Locales : OnSite(l)

(* And it is the only one: whatever handlers began before or run meanwhile,*)
(* nothing unpublishes, archives or purges a system page by another way.   *)
SystemPageFallsOnlyToArchiveProject ==
  [][isSystem /\ (\E l \in Locales : OnSite(l) /\ ~OnSite(l)')
       => ArchiveProject]_contentVars

(* "Revisions are immutable once frozen" (admin/_actions/content.ts:27).   *)
FrozenIsImmutable ==
  [][\A r \in Revisions : frozen[r] => content'[r] = content[r]]_contentVars

(* "two people editing the Russian and the Spanish of one page must not    *)
(* overwrite each other" (admin/_actions/content.ts:496): the SEO text of  *)
(* a language moves only when a handler that edits that language saves it. *)
OtherLanguagesKeepTheirSeo ==
  [][\A r \in 1..last, l \in Locales :
       content'[r].seo[l] # content[r].seo[l] =>
         \E s \in Sessions : /\ handler[s].op = "merge" /\ l \in handler[s].to
                             /\ handler'[s] = AtRest]_contentVars

(* "The document comes back unpublished - putting it in front of visitors  *)
(* again stays a separate, deliberate click" (admin/_actions/removal.ts:100)*)
RestoreExposesNothing ==
  [][place = "archived" /\ place' = "live" => \A l \in Locales : ~OnSite(l)']_contentVars
=============================================================================
