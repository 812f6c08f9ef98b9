---------------------------- MODULE PublicCache ----------------------------
(***************************************************************************)
(* Cached reads of the public site against the server actions that change  *)
(* what they read (data/cache-tags.ts, data/cache-invalidation.ts,         *)
(* lib/cache-invalidation.ts, the 'use cache' functions of data/public,    *)
(* and the updateTag calls of _actions), in one language.                  *)
(*                                                                         *)
(* Entries do not depend on each other: one read is watched, any of them.  *)
(* The cache itself is Next.js': an entry belongs to the process that made *)
(* it, and one whose tag expires while it is being made is not kept.       *)
(***************************************************************************)
EXTENDS Naturals, FiniteSets

CONSTANTS Pages, Projects,  \* documents, by kind
          Index,            \* the page with template portfolio_index
          Slugs,
          Revisions,        \* of every document
          Unpublished,
          Replicas, Actors, \* server actions at work at the same time
          Home,             \* the replica an action runs on
          MaxActions,       \* bound: server actions begun
          MaxCrashes        \* bound: actions that die after their commit

ASSUME CacheAssumption ==
  /\ Index \in Pages /\ Pages \intersect Projects = {}
  /\ Revisions # {} /\ Unpublished \notin Revisions /\ Home \in [Actors -> Replicas]
  /\ MaxActions \in Nat /\ MaxCrashes \in Nat

Docs == Pages \union Projects
Kind(d) == IF d \in Pages THEN "page" ELSE "project"

(* data/cache-tags.ts.                                                     *)
path(k, s)    == [tag |-> "path", kind |-> k, slug |-> s]
document(d)   == [tag |-> "doc", id |-> d]
projectsIndex == [tag |-> "projects-index"]
navigation    == [tag |-> "nav"]
settings      == [tag |-> "settings"]
media         == [tag |-> "media"]
redirects     == [tag |-> "redirects"]

(* A read goes by its tag; listPublishedPaths, for the sitemap, has two.   *)
sitemap == [tag |-> "sitemap"]
TagsOf(r) == IF r = sitemap THEN {projectsIndex, navigation} ELSE {r}
Reads == {path(k, s) : k \in {"page", "project"}, s \in Slugs}
         \union {document(d) : d \in Docs}
         \union {projectsIndex, navigation, settings, media, redirects, sitemap}

VARIABLES
  slug,     \* document_locales.slug
  shown,    \* the revision visitors see, or Unpublished
  edition,  \* of the rows other reads look at: how often they were written
  read,     \* the watched read
  entry,    \* its cache entry on each replica: <<>>, or <<value>>
  filling,  \* the same, of an entry being made
  session,  \* where a server action stands
  actions, crashes

VARIABLE excused  \* history: an expiry the code leaves out, or that was lost

db   == <<slug, shown, edition>>
vars == <<db, read, entry, filling, session, actions, crashes, excused>>

Idle == [at |-> "idle"]
Plain == {"cards", "menu", "settings", "media", "redirects"}

(* The unique index on kind, locale and slug.                              *)
Taken(d, s) == \E e \in Docs \ {d} : slug[e] = s /\ Kind(e) = Kind(d)

Init ==
  /\ slug \in [Docs -> Slugs] /\ \A d \in Docs : ~Taken(d, slug[d])
  /\ \E v \in {CHOOSE v \in Revisions : TRUE, Unpublished} : shown = [d \in Docs |-> v]
  /\ edition = [p \in Plain |-> 0]
  /\ read \in Reads
  /\ entry = [r \in Replicas |-> <<>>] /\ filling = [r \in Replicas |-> <<>>]
  /\ session = [x \in Actors |-> Idle] /\ actions = 0 /\ crashes = 0
  /\ excused = [r \in Replicas |-> FALSE]

-----------------------------------------------------------------------------
(* What the database would answer: resolvePage and resolveProject;         *)
(* getDocumentSlug; listPublishedProjects, whose cards link below the      *)
(* index; getNavigation; listPublishedPaths; and tables read whole.        *)
Up == {d \in Docs : shown[d] # Unpublished}
AtPath(k, s)  == {<<d, shown[d]>> : d \in {e \in Up : Kind(e) = k /\ slug[e] = s}}
SlugOf(d)     == {slug[e] : e \in {d} \intersect Up}
ProjectCards  == <<{<<d, slug[d], shown[d]>> : d \in Up \intersect Projects},
                   SlugOf(Index), edition["cards"]>>
Menu          == <<{<<d, slug[d]>> : d \in Up}, edition["menu"]>>
PublishedPaths == {<<d, slug[d], shown[d]>> : d \in Up}

Value ==
  CASE read.tag = "path" -> AtPath(read.kind, read.slug)
    [] read.tag = "doc" -> SlugOf(read.id)
    [] read.tag = "projects-index" -> ProjectCards
    [] read.tag = "nav" -> Menu
    [] read.tag = "sitemap" -> PublishedPaths
    [] OTHER -> edition[read.tag]

Fresh(e) == e \in {<<>>, <<Value>>}

(* An excuse lasts as long as something is out of date.                    *)
Excuse(new) ==
  excused' = [r \in Replicas |->
    (excused[r] \/ r \in new) /\ ~(Fresh(entry[r])' /\ Fresh(filling[r])')]

(* A request makes an entry, the first or a newer one; it reads first.     *)
Miss(r) ==
  /\ filling[r] = <<>> /\ filling' = [filling EXCEPT ![r] = <<Value>>]
  /\ UNCHANGED <<db, read, entry, session, actions, crashes>> /\ Excuse({})

Store(r) ==
  /\ filling[r] # <<>>
  /\ entry' = [entry EXCEPT ![r] = filling[r]] /\ filling' = [filling EXCEPT ![r] = <<>>]
  /\ UNCHANGED <<db, read, session, actions, crashes>> /\ Excuse({})

(* cacheLife(PUBLIC_CACHE_PROFILE).                                        *)
Lapse(r) ==
  /\ entry[r] # <<>> /\ entry' = [entry EXCEPT ![r] = <<>>]
  /\ UNCHANGED <<db, read, filling, session, actions, crashes>> /\ Excuse({})

Drop(r, tags) ==
  IF TagsOf(read) \intersect tags = {} THEN UNCHANGED <<entry, filling>>
  ELSE entry' = [entry EXCEPT ![r] = <<>>] /\ filling' = [filling EXCEPT ![r] = <<>>]

-----------------------------------------------------------------------------
(* invalidateDocumentRefs: what it expires for the rows of d as they are.  *)
(* Slips: the menus are forgotten; a tag is made of the wrong column.      *)
WithoutMenus(d) == {path(Kind(d), slug[d]), document(d), projectsIndex}
Mistagged(d) == {path(Kind(d), slug[d]), document(slug[d]), projectsIndex, navigation}
RefTags(d) == {path(Kind(d), slug[d]), document(d), projectsIndex, navigation}

(* What an action expires by name, and what for rows it reads after its    *)
(* commit: invalidateDocument, and the loop of invalidatePublicPages.      *)
ByDocument == {"publish", "unpublish", "updateSlug", "touch"}
SiteWide == {"menu", "settings"}
Named(s) ==
  CASE s.op = "updateSlug" -> {redirects}
    [] s.op \in {"archiveProject", "updateProjectMeta"} -> {projectsIndex, document(s.doc)}
    [] s.op \in SiteWide -> {navigation, projectsIndex, settings}
    [] s.op = "media" -> {media, navigation}
    [] s.op = "redirects" -> {redirects}
    [] OTHER -> {}
Found(s) ==
  CASE s.op \in ByDocument -> RefTags(s.doc)
    [] s.op \in SiteWide -> UNION {{path(Kind(d), slug[d]), document(d)} : d \in Up}
    [] OTHER -> {}
Owes(s) == CASE s.at = "committed" -> Named(s) \union Found(s)
             [] s.at = "expiring" -> s.tags
             [] OTHER -> {}

Begins(x) == session[x] = Idle /\ actions < MaxActions /\ actions' = actions + 1
Go(x, s) == session' = [session EXCEPT ![x] = s]
Elsewhere(x) == Replicas \ {Home[x]}

(* The transaction commits; what it leaves out for good is `left`.         *)
Commits(x, op, d, left) ==
  /\ Begins(x) /\ Go(x, [at |-> "committed", op |-> op, doc |-> d])
  /\ UNCHANGED <<read, entry, filling, crashes>>
  /\ Excuse(Elsewhere(x) \union IF read \in left THEN Replicas ELSE {})

(* publishDocument and rollbackDocument.                                   *)
Publish(x, d) ==
  /\ \E v \in Revisions : shown' = [shown EXCEPT ![d] = v]
  /\ UNCHANGED <<slug, edition>> /\ Commits(x, "publish", d, {})

Unpublish(x, d) ==
  /\ shown' = [shown EXCEPT ![d] = Unpublished]
  /\ UNCHANGED <<slug, edition>> /\ Commits(x, "unpublish", d, {})

(* updateSeo, restoreDocument: nothing visitors see changes.               *)
Touch(x, d) == UNCHANGED db /\ Commits(x, "touch", d, {})

(* invalidateDocument finds the new slug only.                             *)
UpdateSlug(x, d, s) ==
  /\ slug[d] # s /\ ~Taken(d, s)
  /\ slug' = [slug EXCEPT ![d] = s]
  /\ edition' = [edition EXCEPT !["redirects"] = @ + 1]
  /\ UNCHANGED shown /\ Commits(x, "updateSlug", d, {path(Kind(d), slug[d])})

(* archiveProject takes the id of any document, and knows of no paths and  *)
(* menus.                                                                  *)
ArchiveProject(x, d) ==
  /\ shown' = [shown EXCEPT ![d] = Unpublished]
  /\ UNCHANGED <<slug, edition>>
  /\ Commits(x, "archiveProject", d, {path(Kind(d), slug[d]), navigation})

UpdateProjectMeta(x, d) ==
  /\ d \in Projects
  /\ edition' = [edition EXCEPT !["cards"] = @ + 1]
  /\ UNCHANGED <<slug, shown>> /\ Commits(x, "updateProjectMeta", d, {})

(* The actions on menus, settings, images and redirects.                   *)
Write(x, p) ==
  /\ p # "cards" /\ edition' = [edition EXCEPT ![p] = @ + 1]
  /\ UNCHANGED <<slug, shown>> /\ Commits(x, p, Index, {})

(* archiveDocument and purgeDocument note the rows before they write: if   *)
(* the slug changes in between, its page is left out.                      *)
RemovalReads(x, d) ==
  /\ Begins(x) /\ Go(x, [at |-> "noted", doc |-> d, tags |-> RefTags(d)])
  /\ UNCHANGED <<db, read, entry, filling, crashes, excused>>

RemovalCommits(x) ==
  LET s == session[x] IN
  /\ s.at = "noted"
  /\ shown' = [shown EXCEPT ![s.doc] = Unpublished]
  /\ Go(x, [at |-> "expiring", tags |-> s.tags])
  /\ UNCHANGED <<slug, edition, read, entry, filling, actions, crashes>>
  /\ Excuse(Elsewhere(x) \union
            IF read = path(Kind(s.doc), slug[s.doc]) /\ read \notin s.tags
            THEN Replicas ELSE {})

(* The rows are read; updateTag takes effect when the action answers.      *)
Collect(x) ==
  /\ session[x].at = "committed"
  /\ Go(x, [at |-> "expiring", tags |-> Owes(session[x])])
  /\ UNCHANGED <<db, read, entry, filling, actions, crashes, excused>>

Expire(x) ==
  /\ session[x].at = "expiring"
  /\ Drop(Home[x], session[x].tags) /\ Go(x, Idle)
  /\ UNCHANGED <<db, read, actions, crashes>> /\ Excuse({})

(* The server dies, or the query for the rows fails, after the commit; or  *)
(* before, and nothing has happened.                                       *)
Crash(x) ==
  /\ session[x] # Idle /\ crashes < MaxCrashes /\ crashes' = crashes + 1
  /\ Go(x, Idle)
  /\ UNCHANGED <<db, read, entry, filling, actions>>
  /\ Excuse(IF TagsOf(read) \intersect Owes(session[x]) = {} THEN {} ELSE {Home[x]})

Next ==
  \/ \E r \in Replicas : Miss(r) \/ Store(r) \/ Lapse(r)
  \/ \E x \in Actors :
       \/ \E d \in Docs :
            \/ Publish(x, d) \/ Unpublish(x, d) \/ Touch(x, d)
            \/ \E s \in Slugs : UpdateSlug(x, d, s)
            \/ ArchiveProject(x, d) \/ UpdateProjectMeta(x, d)
            \/ RemovalReads(x, d)
       \/ \E p \in Plain : Write(x, p)
       \/ RemovalCommits(x) \/ Collect(x) \/ Expire(x) \/ Crash(x)

Spec == Init /\ [][Next]_vars
-----------------------------------------------------------------------------
Stale(r) == ~Fresh(entry[r]) \/ ~Fresh(filling[r])

(* Every variable keeps its type; only tags that some read carries are     *)
(* ever expired.                                                           *)
TypeOK ==
  /\ slug \in [Docs -> Slugs] /\ shown \in [Docs -> Revisions \union {Unpublished}]
  /\ edition \in [Plain -> 0..MaxActions] /\ read \in Reads
  /\ \A x \in Actors :
       \/ session[x] = Idle
       \/ session[x].at = "committed" /\ session[x].doc \in Docs
       \/ session[x].at \in {"noted", "expiring"}
            /\ session[x].tags \subseteq UNION {TagsOf(r) : r \in Reads}
  /\ actions \in 0..MaxActions /\ crashes \in 0..MaxCrashes
  /\ excused \in [Replicas -> BOOLEAN]

(* "The owner must see their change on the very next request": an entry    *)
(* that is out of date is about to be expired by the action that made it   *)
(* so. Excused are other replicas, actions that died after their commit,   *)
(* the address a document was renamed from, the page and the menus of what *)
(* archiveProject took down, and the page of a document that was renamed   *)
(* while it was being archived; nothing else is.                           *)
StaleIsExplained ==
  \A r \in Replicas : Stale(r) =>
    \/ excused[r]
    \/ \E x \in Actors : Home[x] = r /\ TagsOf(read) \intersect Owes(session[x]) # {}

(* "Invalidated on publish and on slug change" (cache-tags.ts:11): when    *)
(* all actions have answered, no path shows what was there before.         *)
PathsAreInvalidated ==
  read.tag = "path" /\ (\A x \in Actors : session[x] = Idle)
    => \A r \in Replicas : Fresh(entry[r])
=============================================================================
