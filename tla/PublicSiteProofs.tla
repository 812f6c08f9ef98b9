-------------------------- MODULE PublicSiteProofs --------------------------
(***************************************************************************)
(* Proofs about what a visitor of the public site meets: the cached pages  *)
(* (PublicCache), the cookie banner (Consent), the enquiry form (LeadForm).*)
(* The three share no state; each part stands by itself.                   *)
(***************************************************************************)
EXTENDS PublicCache, Consent, LeadForm, TLAPS

(***************************************************************************)
(* Cached reads: StaleIsExplained is inductive once the types are known.   *)
(* What an action owes is computed from the rows as they are when it looks *)
(* (Found), so another action that commits in between may change the debt. *)
(* It cannot lose the watched read from it without owing that read an      *)
(* expiry of its own, or leaving it out: OtherReads says that what one     *)
(* document's rows do not feed neither shows something else nor drops out  *)
(* of a debt, and every commit is a case of DocumentStep or EditionStep.   *)
(***************************************************************************)

(* What `op` of a session may be.                                          *)
Ops == ByDocument \union SiteWide
       \union {"archiveProject", "updateProjectMeta", "media", "redirects"}

(* Where a session stands, with all it carries. A removal has noted tags   *)
(* of its document, under a slug that may since have been given up.        *)
SessionInv ==
  \A x \in Actors :
    \/ session[x] = Idle
    \/ \E op \in Ops, d \in Docs :
         session[x] = [at |-> "committed", op |-> op, doc |-> d]
    \/ \E d \in Docs, s \in Slugs :
         session[x] = [at |-> "noted", doc |-> d,
                       tags |-> {path(Kind(d), s), document(d), projectsIndex, navigation}]
    \/ \E owed \in SUBSET UNION {TagsOf(r) : r \in Reads} :
         session[x] = [at |-> "expiring", tags |-> owed]

(* What TypeOK leaves open: the rest are functions, too, and no row is     *)
(* written twice by one action.                                            *)
Shape ==
  /\ entry = [r \in Replicas |-> entry[r]] /\ filling = [r \in Replicas |-> filling[r]]
  /\ session = [x \in Actors |-> session[x]]
  /\ \A p \in Plain : edition[p] <= actions

CacheInv == TypeOK /\ Shape /\ SessionInv /\ StaleIsExplained

-----------------------------------------------------------------------------
(* Tags that some read carries.                                            *)
Known == UNION {TagsOf(r) : r \in Reads}

(* x still has to expire something that the watched read carries.          *)
Due(x) == TagsOf(read) \intersect Owes(session[x]) # {}

(* The watched read is one of these; each has a tag of its own.            *)
LEMMA ReadsByTag ==
  \A r \in Reads :
    \/ \E k \in {"page", "project"}, s \in Slugs : r = path(k, s)
    \/ \E d \in Docs : r = document(d)
    \/ r \in {projectsIndex, navigation, settings, media, redirects, sitemap}
  BY DEF Reads

(* Every tag an action expires is one that some read carries.              *)
LEMMA KnownTags ==
  /\ \A d \in Docs, s \in Slugs : path(Kind(d), s) \in Known
  /\ \A d \in Docs : document(d) \in Known
  /\ {projectsIndex, navigation, settings, media, redirects} \subseteq Known
<1>1. ASSUME NEW r \in Reads, r # sitemap
      PROVE  r \in Known
  BY <1>1 DEF Known, TagsOf
<1>2. \A d \in Docs, s \in Slugs : path(Kind(d), s) \in Reads /\ path(Kind(d), s) # sitemap
  BY DEF Reads, Kind, path, sitemap
<1>3. \A d \in Docs : document(d) \in Reads /\ document(d) # sitemap
  BY DEF Reads, document, sitemap
<1>4. \A r \in {projectsIndex, navigation, settings, media, redirects} :
        r \in Reads /\ r # sitemap
  BY DEF Reads, projectsIndex, navigation, settings, media, redirects, sitemap
<1> QED
  BY <1>1, <1>2, <1>3, <1>4

(* A step that changes nothing the watched read shows, and no debt.        *)
LEMMA QuietStep ==
  ASSUME CacheInv, NEW STATE new, Excuse(new), UNCHANGED <<db, read>>,
         \A r \in Replicas :
           /\ entry'[r] \in {entry[r], filling[r], <<>>}
           /\ filling'[r] \in {filling[r], <<Value>>, <<>>},
         \A r \in Replicas \ new : Stale(r)' =>
           \A x \in Actors : Home[x] = r /\ Due(x) => Due(x)'
  PROVE  StaleIsExplained'
<1>1. Value' = Value
  BY DEF db, Value, AtPath, SlugOf, ProjectCards, Menu, PublishedPaths, Up
<1>2. ASSUME NEW r \in Replicas, Stale(r)'
      PROVE  Stale(r)
  BY <1>1, <1>2 DEF Stale, Fresh
<1>3. ASSUME NEW r \in Replicas, Stale(r)'
      PROVE  excused'[r] = (excused[r] \/ r \in new)
  BY <1>3 DEF Excuse, Stale
<1>4. ASSUME NEW r \in Replicas, Stale(r)'
      PROVE  excused'[r] \/ \E x \in Actors : Home[x] = r /\ Due(x)'
  <2>1. CASE r \in new
    BY <1>3, <1>4, <2>1
  <2>2. CASE r \notin new
    <3>1. excused[r] \/ \E x \in Actors : Home[x] = r /\ Due(x)
      BY <1>2, <1>4 DEF CacheInv, StaleIsExplained, Due
    <3> QED
      BY <3>1, <1>3, <1>4, <2>2
  <2> QED
    BY <2>1, <2>2
<1> QED
  BY <1>4 DEF StaleIsExplained, Due


(* A step that writes only rows of d, and no column of other rows that the *)
(* watched read shows: if the read is none of those that name d, it shows  *)
(* what it showed, and whatever action owed it an expiry still does.       *)
LEMMA OtherReads ==
  ASSUME TypeOK, TypeOK', NEW d \in Docs, read' = read,
         \A e \in Docs \ {d} : slug'[e] = slug[e] /\ shown'[e] = shown[e],
         read \notin {path(Kind(d), slug[d]), path(Kind(d), slug'[d]), document(d),
                     projectsIndex, navigation, sitemap},
         read.tag \in Plain => edition'[read.tag] = edition[read.tag]
  PROVE  /\ Value' = Value
         /\ \A s \in [at : {"committed"}, op : Ops, doc : Docs] :
              TagsOf(read) \intersect Owes(s) # {} => TagsOf(read)' \intersect Owes(s)' # {}
<1>1. read \in Reads /\ TagsOf(read) = {read} /\ TagsOf(read)' = {read}
  BY DEF TypeOK, TagsOf
<1>2. \A e \in Docs \ {d} : e \in Up' <=> e \in Up
  BY DEF Up
<1>3. Value' = Value
  <2>1. CASE \E k \in {"page", "project"}, s \in Slugs : read = path(k, s)
    <3>1. PICK k \in {"page", "project"}, s \in Slugs : read = path(k, s)
      BY <2>1
    <3>2. Value = AtPath(k, s) /\ Value' = AtPath(k, s)'
      BY <3>1 DEF Value, path
    <3>3. \A e \in Docs : (e \in Up /\ Kind(e) = k /\ slug[e] = s)
                        <=> (e \in Up' /\ Kind(e) = k /\ slug'[e] = s)
      BY <1>2, <3>1 DEF Docs
    <3>4. \A e \in Docs : Kind(e) = k /\ slug[e] = s => shown'[e] = shown[e]
      BY <3>1
    <3>5. AtPath(k, s)' = AtPath(k, s)
      BY <3>3, <3>4 DEF AtPath, Up
    <3> QED
      BY <3>2, <3>5
  <2>2. CASE \E e \in Docs : read = document(e)
    <3>1. PICK e \in Docs : read = document(e)
      BY <2>2
    <3>2. Value = SlugOf(e) /\ Value' = SlugOf(e)'
      BY <3>1 DEF Value, document
    <3> QED
      BY <3>1, <3>2, <1>2 DEF SlugOf
  <2>3. CASE read \in {settings, media, redirects}
    BY <2>3 DEF Value, settings, media, redirects, Plain
  <2> QED
    BY <1>1, <2>1, <2>2, <2>3, ReadsByTag
<1>4. ASSUME NEW s \in [at : {"committed"}, op : Ops, doc : Docs], read \in Owes(s)
      PROVE  read \in Owes(s)'
  <2>1. Owes(s) = Named(s) \union Found(s) /\ Owes(s)' = Named(s) \union Found(s)'
    BY DEF Owes, Named
  <2>2. CASE read \in Named(s)
    BY <2>1, <2>2
  <2>3. CASE read \in Found(s)
    <3>1. CASE s.op \in ByDocument
      <4>1. Found(s) = RefTags(s.doc) /\ Found(s)' = RefTags(s.doc)'
        BY <3>1 DEF Found, ByDocument, SiteWide
      <4>2. s.doc # d
        BY <2>3, <4>1 DEF RefTags
      <4> QED
        BY <2>1, <2>3, <4>1, <4>2 DEF RefTags
    <3>2. CASE s.op \in SiteWide
      <4>1. s.op \notin ByDocument
        BY <3>2 DEF SiteWide, ByDocument
      <4>2. /\ Found(s) = UNION {{path(Kind(e), slug[e]), document(e)} : e \in Up}
            /\ Found(s)' = UNION {{path(Kind(e), slug[e]), document(e)} : e \in Up}'
        BY <3>2, <4>1 DEF Found
      <4>3. PICK e \in Up : read \in {path(Kind(e), slug[e]), document(e)}
        BY <2>3, <4>2
      <4>4. e \in Docs \ {d}
        BY <4>3 DEF Up
      <4>5. e \in Up' /\ read \in {path(Kind(e), slug'[e]), document(e)}
        BY <1>2, <4>3, <4>4
      <4> QED
        BY <2>1, <4>2, <4>5
    <3>3. CASE s.op \notin ByDocument \union SiteWide
      BY <2>3, <3>3 DEF Found
    <3> QED
      BY <3>1, <3>2, <3>3
  <2> QED
    BY <1>4, <2>1, <2>2, <2>3
<1> QED
  BY <1>1, <1>3, <1>4

(* What an action that has committed carries with it.                      *)
LEMMA Committed ==
  ASSUME SessionInv, NEW x \in Actors, session[x].at = "committed"
  PROVE  session[x] \in [at : {"committed"}, op : Ops, doc : Docs]
<1>1. session[x] # Idle
  BY DEF Idle
<1>2. \A d, t : session[x] # [at |-> "noted", doc |-> d, tags |-> t]
  OBVIOUS
<1>3. \A t : session[x] # [at |-> "expiring", tags |-> t]
  OBVIOUS
<1>4. \E op \in Ops, d \in Docs : session[x] = [at |-> "committed", op |-> op, doc |-> d]
  BY <1>1, <1>2, <1>3 DEF SessionInv
<1> QED
  BY <1>4

(* An action changes what visitors see: every other replica is excused.    *)
LEMMA CommitStep ==
  ASSUME CacheInv, NEW x \in Actors, NEW STATE new, Elsewhere(x) \subseteq new, Excuse(new),
         UNCHANGED <<read, entry, filling>>, Owes(session[x]) = {},
         \/ Replicas \subseteq new
         \/ Due(x)'
         \/ Value' = Value /\ \A y \in Actors \ {x} : Due(y) => Due(y)'
  PROVE  StaleIsExplained'
<1> SUFFICES ASSUME NEW r \in Replicas, Stale(r)'
             PROVE  excused'[r] \/ \E y \in Actors : Home[y] = r /\ Due(y)'
  BY DEF StaleIsExplained, Due
<1>1. excused'[r] = (excused[r] \/ r \in new)
  BY DEF Excuse, Stale
<1>2. CASE r \in new
  BY <1>1, <1>2
<1>3. CASE r \notin new /\ Due(x)'
  BY <1>3 DEF Elsewhere
<1>4. CASE Value' = Value /\ \A y \in Actors \ {x} : Due(y) => Due(y)'
  <2>1. Stale(r)
    BY <1>4 DEF Stale, Fresh
  <2>2. excused[r] \/ \E y \in Actors : Home[y] = r /\ Due(y)
    BY <2>1 DEF CacheInv, StaleIsExplained, Due
  <2>3. ~Due(x)
    BY DEF Due
  <2> QED
    BY <1>1, <1>4, <2>2, <2>3
<1> QED
  BY <1>2, <1>3, <1>4

(* It writes the rows of d, and expires or leaves out every read of them.  *)
LEMMA DocumentStep ==
  ASSUME CacheInv, TypeOK', NEW x \in Actors,
         NEW STATE new, Elsewhere(x) \subseteq new, Excuse(new),
         UNCHANGED <<read, entry, filling>>, Owes(session[x]) = {},
         \A y \in Actors \ {x} : session'[y] = session[y],
         NEW d \in Docs,
         \A e \in Docs \ {d} : slug'[e] = slug[e] /\ shown'[e] = shown[e],
         \/ Replicas \subseteq new
         \/ Due(x)'
         \/ /\ read \notin {path(Kind(d), slug[d]), path(Kind(d), slug'[d]), document(d),
                           projectsIndex, navigation, sitemap}
            /\ read.tag \in Plain => edition'[read.tag] = edition[read.tag]
  PROVE  StaleIsExplained'
<1>1. CASE Replicas \subseteq new \/ Due(x)'
  BY <1>1, CommitStep
<1>2. CASE /\ read \notin {path(Kind(d), slug[d]), path(Kind(d), slug'[d]), document(d),
                           projectsIndex, navigation, sitemap}
           /\ read.tag \in Plain => edition'[read.tag] = edition[read.tag]
  <2>1. /\ Value' = Value
        /\ \A s \in [at : {"committed"}, op : Ops, doc : Docs] :
             TagsOf(read) \intersect Owes(s) # {} => TagsOf(read)' \intersect Owes(s)' # {}
    BY <1>2, OtherReads DEF CacheInv
  <2>2. ASSUME NEW y \in Actors \ {x}, Due(y)
        PROVE  Due(y)'
    <3>1. PICK s : s = session[y]
      OBVIOUS
    <3>2. CASE s.at = "committed"
      <4>1. s \in [at : {"committed"}, op : Ops, doc : Docs]
        BY <3>1, <3>2, Committed DEF CacheInv
      <4>2. TagsOf(read) \intersect Owes(s) # {}
        BY <2>2, <3>1 DEF Due
      <4>3. TagsOf(read)' \intersect Owes(s)' # {}
        BY <2>1, <4>1, <4>2
      <4> QED
        BY <4>3, <3>1 DEF Due
    <3>3. CASE s.at # "committed"
      BY <2>2, <3>1, <3>3 DEF Due, Owes
    <3> QED
      BY <3>2, <3>3
  <2> QED
    BY <2>1, <2>2, CommitStep
<1> QED
  BY <1>1, <1>2

(* It writes rows that only some reads look at, and expires those.         *)
LEMMA EditionStep ==
  ASSUME CacheInv, NEW x \in Actors, NEW STATE new, Elsewhere(x) \subseteq new, Excuse(new),
         UNCHANGED <<slug, shown, read, entry, filling>>, Owes(session[x]) = {},
         \A y \in Actors \ {x} : session'[y] = session[y],
         Due(x)' \/ Value' = Value
  PROVE  StaleIsExplained'
<1>1. \A y \in Actors \ {x} : Due(y)' <=> Due(y)
  BY DEF Due, Owes, Found, RefTags, Up
<1> QED
  BY <1>1, CommitStep

-----------------------------------------------------------------------------
(* Nothing is cached or owed at the start.                                 *)
LEMMA Initially == Init => CacheInv
<1> SUFFICES ASSUME Init
             PROVE  CacheInv
  OBVIOUS
<1>1. shown \in [Docs -> Revisions \union {Unpublished}]
  BY CacheAssumption DEF Init
<1>2. TypeOK /\ Shape /\ SessionInv
  BY <1>1, CacheAssumption DEF Init, TypeOK, Shape, SessionInv, Plain
<1>3. StaleIsExplained
  BY DEF Init, StaleIsExplained, Stale, Fresh
<1> QED
  BY <1>2, <1>3 DEF CacheInv

(* excused stays a function to BOOLEAN, whatever it is given.              *)
LEMMA ExcuseTypes ==
  ASSUME NEW STATE new, Excuse(new)
  PROVE  excused' \in [Replicas -> BOOLEAN]
  BY DEF Excuse

(* A step of a replica, or of an action that is not a commit.              *)
LEMMA SmallStepTypes ==
  ASSUME CacheInv, UNCHANGED <<db, read, actions>>, crashes' \in 0..MaxCrashes,
         excused' \in [Replicas -> BOOLEAN],
         \/ UNCHANGED <<entry, filling>>
         \/ \E r \in Replicas : \E v, w :
              entry' = [entry EXCEPT ![r] = v] /\ filling' = [filling EXCEPT ![r] = w],
         \/ session' = session
         \/ \E x \in Actors : Go(x, Idle)
         \/ \E x \in Actors, owed \in SUBSET Known :
              Go(x, [at |-> "expiring", tags |-> owed])
  PROVE  TypeOK' /\ Shape' /\ SessionInv'
<1>1. Shape'
  BY DEF CacheInv, Shape, Go, db
<1>2. SessionInv'
  <2>1. CASE session' = session
    BY <2>1 DEF CacheInv, SessionInv
  <2>2. ASSUME NEW x \in Actors, Go(x, Idle)
        PROVE  SessionInv'
    BY <2>2 DEF CacheInv, SessionInv, Shape, Go
  <2>3. ASSUME NEW x \in Actors, NEW owed \in SUBSET Known,
               Go(x, [at |-> "expiring", tags |-> owed])
        PROVE  SessionInv'
    BY <2>3 DEF CacheInv, SessionInv, Shape, Go, Known
  <2> QED
    BY <2>1, <2>2, <2>3
<1>3. \A x \in Actors :
       \/ session'[x] = Idle
       \/ session'[x].at = "committed" /\ session'[x].doc \in Docs
       \/ session'[x].at \in {"noted", "expiring"} /\ session'[x].tags \subseteq Known
  BY DEF CacheInv, TypeOK, Known, Go, Shape
<1>4. TypeOK'
  BY <1>3 DEF CacheInv, TypeOK, Known, db
<1> QED
  BY <1>1, <1>2, <1>4

(* A commit.                                                               *)
LEMMA CommitTypes ==
  ASSUME CacheInv, NEW x \in Actors, NEW op \in Ops, NEW d \in Docs, NEW STATE left,
         Commits(x, op, d, left),
         slug' \in [Docs -> Slugs], shown' \in [Docs -> Revisions \union {Unpublished}],
         edition' \in [Plain -> Nat], \A p \in Plain : edition'[p] <= edition[p] + 1
  PROVE  TypeOK' /\ Shape' /\ SessionInv'
<1>1. actions \in Nat /\ actions' = actions + 1 /\ actions' \in 0..MaxActions
  BY CacheAssumption DEF Commits, Begins, CacheInv, TypeOK
<1>2. edition \in [Plain -> Nat] /\ \A p \in Plain : edition[p] <= actions
  BY DEF CacheInv, TypeOK, Shape
<1>3. \A p \in Plain : edition'[p] <= actions'
  BY <1>1, <1>2
<1>4. edition' \in [Plain -> 0..MaxActions]
  BY <1>1, <1>3, CacheAssumption
<1>5. session' = [session EXCEPT ![x] = [at |-> "committed", op |-> op, doc |-> d]]
  BY DEF Commits, Go
<1>6. Shape'
  BY <1>3, <1>5 DEF CacheInv, Shape, Commits
<1>7. SessionInv'
  BY <1>5 DEF CacheInv, SessionInv, Shape
<1>8. excused' \in [Replicas -> BOOLEAN]
  BY ExcuseTypes DEF Commits
<1>9. \A y \in Actors :
       \/ session'[y] = Idle
       \/ session'[y].at = "committed" /\ session'[y].doc \in Docs
       \/ session'[y].at \in {"noted", "expiring"} /\ session'[y].tags \subseteq Known
  BY <1>5 DEF CacheInv, TypeOK, Known, Shape
<1>10. TypeOK'
  BY <1>1, <1>4, <1>8, <1>9 DEF CacheInv, TypeOK, Known, Commits
<1> QED
  BY <1>6, <1>7, <1>10

-----------------------------------------------------------------------------
(* A request makes an entry or keeps it, or time drops one.                *)
LEMMA ReplicaStep ==
  ASSUME CacheInv, NEW r \in Replicas, Miss(r) \/ Store(r) \/ Lapse(r)
  PROVE  CacheInv'
<1>1. TypeOK' /\ Shape' /\ SessionInv'
  <2>1. UNCHANGED <<db, read, actions, crashes, session>> /\ Excuse({})
    BY DEF Miss, Store, Lapse
  <2>2. excused' \in [Replicas -> BOOLEAN]
    BY <2>1, ExcuseTypes
  <2>3. /\ entry = [entry EXCEPT ![r] = entry[r]]
        /\ filling = [filling EXCEPT ![r] = filling[r]]
    BY DEF CacheInv, Shape
  <2>4. \E v, w : entry' = [entry EXCEPT ![r] = v] /\ filling' = [filling EXCEPT ![r] = w]
    BY <2>3 DEF Miss, Store, Lapse
  <2>5. crashes' \in 0..MaxCrashes
    BY <2>1 DEF CacheInv, TypeOK
  <2> QED
    BY <2>1, <2>2, <2>4, <2>5, SmallStepTypes
<1>2. /\ UNCHANGED <<db, read, session>> /\ Excuse({})
      /\ \A q \in Replicas :
           /\ entry'[q] \in {entry[q], filling[q], <<>>}
           /\ filling'[q] \in {filling[q], <<Value>>, <<>>}
  BY DEF Miss, Store, Lapse, CacheInv, Shape
<1>3. \A x \in Actors : Due(x) => Due(x)'
  BY <1>2 DEF Due, Owes, Found, RefTags, Up, db
<1>4. StaleIsExplained'
  BY <1>2, <1>3, QuietStep
<1> QED
  BY <1>1, <1>4 DEF CacheInv

(* A debt stands while neither the session nor the rows change.            *)
LEMMA UnchangedSite ==
  ASSUME UNCHANGED <<slug, shown, read>>, NEW x \in Actors, session'[x] = session[x]
  PROVE  Due(x)' <=> Due(x)
  BY DEF Due, Owes, Found, RefTags, Up

(* An action that looks its tags up owes what it owed.                     *)
LEMMA CollectStep ==
  ASSUME CacheInv, NEW x \in Actors, Collect(x)
  PROVE  CacheInv'
<1>1. UNCHANGED <<db, read, entry, filling, actions, crashes, excused>>
  BY DEF Collect
<1>2. session' = [session EXCEPT ![x] = [at |-> "expiring", tags |-> Owes(session[x])]]
  BY DEF Collect, Go
<1>3. Owes(session[x]) \subseteq Known
  <2>1. /\ session[x] \in [at : {"committed"}, op : Ops, doc : Docs]
        /\ session[x].at = "committed"
    BY Committed DEF Collect, CacheInv
  <2>2. slug \in [Docs -> Slugs]
    BY DEF CacheInv, TypeOK
  <2>3. Named(session[x]) \subseteq Known
    BY <2>1, KnownTags DEF Named
  <2>4. Found(session[x]) \subseteq Known
    BY <2>1, <2>2, KnownTags DEF Found, RefTags, Up
  <2> QED
    BY <2>1, <2>3, <2>4 DEF Owes
<1>4. TypeOK' /\ Shape' /\ SessionInv'
  BY <1>1, <1>2, <1>3, SmallStepTypes DEF CacheInv, TypeOK, Go
<1>5. ASSUME NEW y \in Actors, Due(y)
      PROVE  Due(y)'
  <2>1. CASE y = x
    <3>1. session'[x] = [at |-> "expiring", tags |-> Owes(session[x])]
      BY <1>2 DEF CacheInv, Shape
    <3>2. Owes(session[x])' = Owes(session[x])
      BY <3>1 DEF Owes
    <3> QED
      BY <1>1, <1>5, <2>1, <3>2 DEF Due
  <2>2. CASE y # x
    BY <1>1, <1>2, <1>5, <2>2, UnchangedSite DEF CacheInv, Shape, db
  <2> QED
    BY <2>1, <2>2
<1>6. \A r \in Replicas : Stale(r)' => Stale(r)
  BY <1>1
  DEF Stale, Fresh, Value, AtPath, SlugOf, ProjectCards, Menu, PublishedPaths, Up, db
<1>7. StaleIsExplained'
  BY <1>1, <1>5, <1>6 DEF CacheInv, StaleIsExplained, Due
<1> QED
  BY <1>4, <1>7 DEF CacheInv

(* A removal that has only read owes nothing yet.                          *)
LEMMA RemovalReadsStep ==
  ASSUME CacheInv, NEW x \in Actors, NEW d \in Docs, RemovalReads(x, d)
  PROVE  CacheInv'
<1>1. UNCHANGED <<db, read, entry, filling, crashes, excused>>
  BY DEF RemovalReads
<1>2. /\ session[x] = Idle
      /\ session' = [session EXCEPT ![x] = [at |-> "noted", doc |-> d, tags |-> RefTags(d)]]
      /\ actions \in Nat /\ actions' = actions + 1 /\ actions' \in 0..MaxActions
  BY CacheAssumption DEF RemovalReads, Begins, Go, CacheInv, TypeOK
<1>3. /\ slug[d] \in Slugs
      /\ RefTags(d) = {path(Kind(d), slug[d]), document(d), projectsIndex, navigation}
      /\ RefTags(d) \subseteq Known
  BY KnownTags DEF CacheInv, TypeOK, RefTags
<1>4. SessionInv'
  BY <1>2, <1>3 DEF CacheInv, SessionInv, Shape
<1>5. Shape'
  <2>1. \A p \in Plain : edition[p] \in Nat /\ edition[p] <= actions /\ edition' = edition
    BY <1>1 DEF CacheInv, TypeOK, Shape, db
  <2>2. \A p \in Plain : edition'[p] <= actions'
    BY <1>2, <2>1
  <2> QED
    BY <1>1, <1>2, <2>2 DEF CacheInv, Shape
<1>6. TypeOK'
  <2>1. \A y \in Actors :
       \/ session'[y] = Idle
       \/ session'[y].at = "committed" /\ session'[y].doc \in Docs
       \/ session'[y].at \in {"noted", "expiring"} /\ session'[y].tags \subseteq Known
    BY <1>2, <1>3 DEF CacheInv, TypeOK, Known, Shape
  <2> QED
    BY <1>1, <1>2, <2>1 DEF CacheInv, TypeOK, Known, db
<1>7. ASSUME NEW y \in Actors, Due(y)
      PROVE  Due(y)'
  <2>1. y # x
    BY <1>2, <1>7 DEF Due, Owes, Idle
  <2> QED
    BY <1>1, <1>2, <1>7, <2>1, UnchangedSite DEF CacheInv, Shape, db
<1>8. \A r \in Replicas : Stale(r)' => Stale(r)
  BY <1>1
  DEF Stale, Fresh, Value, AtPath, SlugOf, ProjectCards, Menu, PublishedPaths, Up, db
<1>9. StaleIsExplained'
  BY <1>1, <1>7, <1>8 DEF CacheInv, StaleIsExplained, Due
<1> QED
  BY <1>4, <1>5, <1>6, <1>9 DEF CacheInv

(* An expiry settles the debt of its replica, of entries being made too.   *)
LEMMA ExpireStep ==
  ASSUME CacheInv, NEW x \in Actors, Expire(x)
  PROVE  CacheInv'
<1>1. /\ UNCHANGED <<db, read, actions, crashes>> /\ Excuse({})
      /\ session[x].at = "expiring" /\ Drop(Home[x], session[x].tags) /\ Go(x, Idle)
  BY DEF Expire
<1>2. TypeOK' /\ Shape' /\ SessionInv'
  BY <1>1, ExcuseTypes, SmallStepTypes, CacheAssumption DEF CacheInv, TypeOK, Drop
<1>3. \A q \in Replicas :
           /\ entry'[q] \in {entry[q], filling[q], <<>>}
           /\ filling'[q] \in {filling[q], <<Value>>, <<>>}
  BY <1>1 DEF Drop, CacheInv, Shape
<1>4. ASSUME NEW r \in Replicas, Stale(r)', NEW y \in Actors, Home[y] = r, Due(y)
      PROVE  Due(y)'
  <2>1. CASE y = x
    <3>1. TagsOf(read) \intersect session[x].tags # {}
      BY <1>1, <1>4, <2>1 DEF Due, Owes
    <3>2. entry'[r] = <<>> /\ filling'[r] = <<>>
      BY <1>1, <1>4, <2>1, <3>1 DEF Drop, CacheInv, Shape
    <3> QED
      BY <1>4, <3>2 DEF Stale, Fresh
  <2>2. CASE y # x
    BY <1>1, <1>4, <2>2, UnchangedSite DEF Go, CacheInv, Shape, db
  <2> QED
    BY <2>1, <2>2
<1>5. StaleIsExplained'
  BY <1>1, <1>3, <1>4, QuietStep
<1> QED
  BY <1>2, <1>5 DEF CacheInv

(* What dies with an action is excused, if anything was owed.              *)
LEMMA CrashStep ==
  ASSUME CacheInv, NEW x \in Actors, Crash(x)
  PROVE  CacheInv'
<1> DEFINE new == IF TagsOf(read) \intersect Owes(session[x]) = {} THEN {} ELSE {Home[x]}
<1>1. /\ UNCHANGED <<db, read, entry, filling, actions>> /\ Excuse(new)
      /\ Go(x, Idle) /\ crashes' \in 0..MaxCrashes
  BY CacheAssumption DEF Crash, CacheInv, TypeOK
<1>2. TypeOK' /\ Shape' /\ SessionInv'
  BY <1>1, ExcuseTypes, SmallStepTypes
<1>3. ASSUME NEW r \in Replicas \ new, NEW y \in Actors, Home[y] = r, Due(y)
      PROVE  Due(y)'
  <2>1. y # x
    BY <1>3 DEF Due
  <2> QED
    BY <1>1, <1>3, <2>1, UnchangedSite DEF Go, CacheInv, Shape, db
<1>4. StaleIsExplained'
  <2> HIDE DEF new
  <2> QED
    BY <1>1, <1>3, QuietStep
<1> QED
  BY <1>2, <1>4 DEF CacheInv

-----------------------------------------------------------------------------
(* What a commit says, in the terms of DocumentStep and EditionStep.       *)
LEMMA CommitFacts ==
  ASSUME CacheInv, NEW x \in Actors, NEW op, NEW d, NEW STATE left, Commits(x, op, d, left)
  PROVE  /\ Excuse(Elsewhere(x) \union IF read \in left THEN Replicas ELSE {})
         /\ UNCHANGED <<read, entry, filling>> /\ Owes(session[x]) = {}
         /\ \A y \in Actors \ {x} : session'[y] = session[y]
         /\ session'[x] = [at |-> "committed", op |-> op, doc |-> d]
  BY DEF Commits, Begins, Go, CacheInv, Shape, Owes, Idle

(* What an action owes, and whether the watched read carries it.           *)
LEMMA Owed ==
  ASSUME NEW x \in Actors, read' = read
  PROVE  /\ read # sitemap /\ read \in Owes(session[x])' => Due(x)'
         /\ read = sitemap /\ {projectsIndex, navigation} \intersect Owes(session[x])' # {}
            => Due(x)'
<1>1. CASE read # sitemap
  <2>1. TagsOf(read)' = {read}
    BY <1>1 DEF TagsOf
  <2> QED
    BY <1>1, <2>1 DEF Due
<1>2. CASE read = sitemap
  <2>1. TagsOf(read)' = {projectsIndex, navigation}
    BY <1>2 DEF TagsOf
  <2> QED
    BY <1>2, <2>1 DEF Due
<1> QED
  BY <1>1, <1>2

(* The commits, one by one.                                                *)
LEMMA PublishStep ==
  ASSUME CacheInv, NEW x \in Actors, NEW d \in Docs, Publish(x, d) \/ Unpublish(x, d)
  PROVE  CacheInv'
<1>1. PICK op \in {"publish", "unpublish"} :
        /\ \E v \in Revisions \union {Unpublished} : shown' = [shown EXCEPT ![d] = v]
        /\ UNCHANGED <<slug, edition>> /\ Commits(x, op, d, {})
  BY DEF Publish, Unpublish
<1>2. TypeOK' /\ Shape' /\ SessionInv'
  <2>1. /\ slug' \in [Docs -> Slugs] /\ shown' \in [Docs -> Revisions \union {Unpublished}]
        /\ edition' \in [Plain -> Nat] /\ \A p \in Plain : edition'[p] <= edition[p] + 1
    BY <1>1 DEF CacheInv, TypeOK
  <2>2. op \in Ops
    BY DEF Ops, ByDocument
  <2> QED
    BY <1>1, <2>1, <2>2, CommitTypes
<1>3. Owes(session[x])' = {path(Kind(d), slug'[d]), document(d), projectsIndex, navigation}
  <2>1. session'[x] = [at |-> "committed", op |-> op, doc |-> d]
    BY <1>1, CommitFacts
  <2> QED
    BY <2>1 DEF Owes, Named, Found, RefTags, ByDocument, SiteWide
<1>4. slug' = slug /\ edition' = edition
      /\ \A e \in Docs \ {d} : slug'[e] = slug[e] /\ shown'[e] = shown[e]
  BY <1>1 DEF CacheInv, TypeOK
<1>5. Due(x)' \/ read \notin {path(Kind(d), slug[d]), path(Kind(d), slug'[d]),
                                document(d), projectsIndex, navigation, sitemap}
  <2>1. read' = read
    BY <1>1, CommitFacts
  <2> QED
    BY <1>3, <1>4, <2>1, Owed
<1>6. StaleIsExplained'
  <2> DEFINE new == Elsewhere(x) \union IF read \in {} THEN Replicas ELSE {}
  <2>1. /\ Elsewhere(x) \subseteq new /\ Excuse(new)
        /\ UNCHANGED <<read, entry, filling>> /\ Owes(session[x]) = {}
        /\ \A y \in Actors \ {x} : session'[y] = session[y]
    BY <1>1, CommitFacts
  <2> HIDE DEF new
  <2> QED
    BY <1>2, <1>4, <1>5, <2>1, DocumentStep
<1> QED
  BY <1>2, <1>6 DEF CacheInv

LEMMA TouchStep ==
  ASSUME CacheInv, NEW x \in Actors, NEW d \in Docs, Touch(x, d)
  PROVE  CacheInv'
<1>1. UNCHANGED db /\ Commits(x, "touch", d, {})
  BY DEF Touch
<1>2. TypeOK' /\ Shape' /\ SessionInv'
  <2>1. /\ slug' \in [Docs -> Slugs] /\ shown' \in [Docs -> Revisions \union {Unpublished}]
        /\ edition' \in [Plain -> Nat] /\ \A p \in Plain : edition'[p] <= edition[p] + 1
    BY <1>1 DEF CacheInv, TypeOK, db
  <2>2. "touch" \in Ops
    BY DEF Ops, ByDocument
  <2> QED
    BY <1>1, <2>1, <2>2, CommitTypes
<1>3. StaleIsExplained'
  <2> DEFINE new == Elsewhere(x) \union IF read \in {} THEN Replicas ELSE {}
  <2>1. /\ Elsewhere(x) \subseteq new /\ Excuse(new)
        /\ UNCHANGED <<read, entry, filling>> /\ Owes(session[x]) = {}
        /\ \A y \in Actors \ {x} : session'[y] = session[y]
    BY <1>1, CommitFacts
  <2>2. Value' = Value
    BY <1>1, <2>1
    DEF db, Value, AtPath, SlugOf, ProjectCards, Menu, PublishedPaths, Up
  <2> HIDE DEF new
  <2> QED
    BY <1>1, <2>1, <2>2, EditionStep DEF db
<1> QED
  BY <1>2, <1>3 DEF CacheInv

LEMMA UpdateSlugStep ==
  ASSUME CacheInv, NEW x \in Actors, NEW d \in Docs, NEW s \in Slugs, UpdateSlug(x, d, s)
  PROVE  CacheInv'
<1> DEFINE left == {path(Kind(d), slug[d])}
<1>1. /\ slug' = [slug EXCEPT ![d] = s] /\ shown' = shown
      /\ edition' = [edition EXCEPT !["redirects"] = @ + 1]
      /\ Commits(x, "updateSlug", d, left)
  BY DEF UpdateSlug
<1>2. TypeOK' /\ Shape' /\ SessionInv'
  <2>1. /\ slug' \in [Docs -> Slugs] /\ shown' \in [Docs -> Revisions \union {Unpublished}]
        /\ edition' \in [Plain -> Nat] /\ \A p \in Plain : edition'[p] <= edition[p] + 1
    <3>1. slug \in [Docs -> Slugs] /\ shown \in [Docs -> Revisions \union {Unpublished}]
          /\ edition \in [Plain -> Nat] /\ "redirects" \in Plain
      BY DEF CacheInv, TypeOK, Plain
    <3> QED
      BY <1>1, <3>1
  <2>2. "updateSlug" \in Ops
    BY DEF Ops, ByDocument
  <2> HIDE DEF left
  <2> QED
    BY <1>1, <2>1, <2>2, CommitTypes
<1>3. Owes(session[x])' = {redirects, path(Kind(d), slug'[d]), document(d),
                           projectsIndex, navigation}
  <2> HIDE DEF left
  <2>1. session'[x] = [at |-> "committed", op |-> "updateSlug", doc |-> d]
    BY <1>1, CommitFacts
  <2> QED
    BY <2>1 DEF Owes, Named, Found, RefTags, ByDocument, SiteWide
<1>4. \A e \in Docs \ {d} : slug'[e] = slug[e] /\ shown'[e] = shown[e]
  BY <1>1 DEF CacheInv, TypeOK
<1> DEFINE new == Elsewhere(x) \union IF read \in left THEN Replicas ELSE {}
<1>5. /\ Elsewhere(x) \subseteq new /\ Excuse(new)
      /\ UNCHANGED <<read, entry, filling>> /\ Owes(session[x]) = {}
      /\ \A y \in Actors \ {x} : session'[y] = session[y]
  <2> HIDE DEF left
  <2> QED
    BY <1>1, CommitFacts
<1>6. \/ Replicas \subseteq new
      \/ Due(x)'
      \/ /\ read \notin {path(Kind(d), slug[d]), path(Kind(d), slug'[d]), document(d),
                        projectsIndex, navigation, sitemap}
         /\ read.tag \in Plain => edition'[read.tag] = edition[read.tag]
  <2>1. CASE read \in left
    BY <2>1
  <2>2. CASE read = redirects
    BY <1>3, <1>5, <2>2, Owed DEF redirects, sitemap
  <2>3. CASE read \in {path(Kind(d), slug'[d]), document(d), projectsIndex,
                      navigation, sitemap}
    BY <1>3, <1>5, <2>3, Owed
  <2>4. CASE read \notin left /\ read # redirects /\
             read \notin {path(Kind(d), slug'[d]), document(d), projectsIndex,
                         navigation, sitemap}
    <3>1. read.tag # "redirects"
      BY <2>4, ReadsByTag
      DEF CacheInv, TypeOK, path, document, projectsIndex, navigation, settings, media,
          redirects, sitemap
    <3> QED
      BY <1>1, <2>4, <3>1 DEF CacheInv, TypeOK
  <2> QED
    BY <2>1, <2>2, <2>3, <2>4
<1>7. StaleIsExplained'
  <2> HIDE DEF new, left
  <2> QED
    BY <1>2, <1>4, <1>5, <1>6, DocumentStep
<1> QED
  BY <1>2, <1>7 DEF CacheInv

LEMMA ArchiveProjectStep ==
  ASSUME CacheInv, NEW x \in Actors, NEW d \in Docs, ArchiveProject(x, d)
  PROVE  CacheInv'
<1> DEFINE left == {path(Kind(d), slug[d]), navigation}
<1>1. /\ shown' = [shown EXCEPT ![d] = Unpublished] /\ slug' = slug /\ edition' = edition
      /\ Commits(x, "archiveProject", d, left)
  BY DEF ArchiveProject
<1>2. TypeOK' /\ Shape' /\ SessionInv'
  <2>1. /\ slug' \in [Docs -> Slugs] /\ shown' \in [Docs -> Revisions \union {Unpublished}]
        /\ edition' \in [Plain -> Nat] /\ \A p \in Plain : edition'[p] <= edition[p] + 1
    BY <1>1 DEF CacheInv, TypeOK
  <2>2. "archiveProject" \in Ops
    BY DEF Ops
  <2> HIDE DEF left
  <2> QED
    BY <1>1, <2>1, <2>2, CommitTypes
<1>3. Owes(session[x])' = {document(d), projectsIndex}
  <2> HIDE DEF left
  <2>1. session'[x] = [at |-> "committed", op |-> "archiveProject", doc |-> d]
    BY <1>1, CommitFacts
  <2> QED
    BY <2>1 DEF Owes, Named, Found, ByDocument, SiteWide
<1>4. \A e \in Docs \ {d} : slug'[e] = slug[e] /\ shown'[e] = shown[e]
  BY <1>1 DEF CacheInv, TypeOK
<1>5. Kind(d) \in {"page", "project"}
  BY DEF Kind
<1> DEFINE new == Elsewhere(x) \union IF read \in left THEN Replicas ELSE {}
<1>6. /\ Elsewhere(x) \subseteq new /\ Excuse(new)
      /\ UNCHANGED <<read, entry, filling>> /\ Owes(session[x]) = {}
      /\ \A y \in Actors \ {x} : session'[y] = session[y]
  <2> HIDE DEF left
  <2> QED
    BY <1>1, CommitFacts
<1>7. \/ Replicas \subseteq new
      \/ Due(x)'
      \/ read \notin {path(Kind(d), slug[d]), path(Kind(d), slug'[d]), document(d),
                     projectsIndex, navigation, sitemap}
  <2>1. CASE read \in left
    BY <2>1
  <2>2. CASE read \in {document(d), projectsIndex, sitemap}
    BY <1>3, <1>6, <2>2, Owed
  <2> QED
    BY <1>1, <1>5, <2>1, <2>2
<1>8. StaleIsExplained'
  <2> HIDE DEF new, left
  <2> QED
    BY <1>1, <1>2, <1>4, <1>6, <1>7, DocumentStep
<1> QED
  BY <1>2, <1>8 DEF CacheInv
LEMMA UpdateProjectMetaStep ==
  ASSUME CacheInv, NEW x \in Actors, NEW d \in Docs, UpdateProjectMeta(x, d)
  PROVE  CacheInv'
<1>1. /\ edition' = [edition EXCEPT !["cards"] = @ + 1] /\ slug' = slug /\ shown' = shown
      /\ Commits(x, "updateProjectMeta", d, {})
  BY DEF UpdateProjectMeta
<1>2. TypeOK' /\ Shape' /\ SessionInv'
  <2>1. /\ slug' \in [Docs -> Slugs] /\ shown' \in [Docs -> Revisions \union {Unpublished}]
        /\ edition' \in [Plain -> Nat] /\ \A p \in Plain : edition'[p] <= edition[p] + 1
    <3>1. slug \in [Docs -> Slugs] /\ shown \in [Docs -> Revisions \union {Unpublished}]
          /\ edition \in [Plain -> Nat] /\ "cards" \in Plain
      BY DEF CacheInv, TypeOK, Plain
    <3> QED
      BY <1>1, <3>1
  <2>2. "updateProjectMeta" \in Ops
    BY DEF Ops
  <2> QED
    BY <1>1, <2>1, <2>2, CommitTypes
<1>3. Owes(session[x])' = {document(d), projectsIndex}
  <2>1. session'[x] = [at |-> "committed", op |-> "updateProjectMeta", doc |-> d]
    BY <1>1, CommitFacts
  <2> QED
    BY <2>1 DEF Owes, Named, Found, ByDocument, SiteWide
<1> DEFINE new == Elsewhere(x) \union IF read \in {} THEN Replicas ELSE {}
<1>4. /\ Elsewhere(x) \subseteq new /\ Excuse(new)
      /\ UNCHANGED <<read, entry, filling>> /\ Owes(session[x]) = {}
      /\ \A y \in Actors \ {x} : session'[y] = session[y]
  BY <1>1, CommitFacts
<1>5. Due(x)' \/ Value' = Value
  <2>1. CASE read = projectsIndex
    BY <1>3, <1>4, <2>1, Owed DEF projectsIndex, sitemap
  <2>2. CASE read # projectsIndex
    <3>1. read \in Reads /\ read' = read /\ edition \in [Plain -> 0..MaxActions]
      BY <1>4 DEF CacheInv, TypeOK
    <3>2. read.tag \notin {"projects-index", "cards"}
      BY <2>2, <3>1, ReadsByTag
      DEF path, document, projectsIndex, navigation, settings, media, redirects, sitemap
    <3>3. UNCHANGED <<slug, shown>> /\ edition'["menu"] = edition["menu"]
      BY <1>1, <3>1 DEF Plain
    <3>4. read.tag \in Plain => edition'[read.tag] = edition[read.tag]
      BY <1>1, <3>1, <3>2
    <3>5. read.tag \in {"path", "doc", "nav", "sitemap"} \union Plain
      BY <2>2, <3>1, ReadsByTag
      DEF path, document, projectsIndex, navigation, settings, media, redirects,
          sitemap, Plain
    <3> QED
      BY <3>1, <3>2, <3>3, <3>4, <3>5
      DEF Value, AtPath, SlugOf, Menu, PublishedPaths, Up
  <2> QED
    BY <2>1, <2>2
<1>6. StaleIsExplained'
  <2> HIDE DEF new
  <2> QED
    BY <1>1, <1>4, <1>5, EditionStep
<1> QED
  BY <1>2, <1>6 DEF CacheInv

LEMMA WriteStep ==
  ASSUME CacheInv, NEW x \in Actors, NEW p \in Plain, Write(x, p)
  PROVE  CacheInv'
<1>1. /\ edition' = [edition EXCEPT ![p] = @ + 1] /\ slug' = slug /\ shown' = shown
      /\ p \in {"menu", "settings", "media", "redirects"} /\ Commits(x, p, Index, {})
  BY DEF Write, Plain
<1>2. TypeOK' /\ Shape' /\ SessionInv'
  <2>1. /\ slug' \in [Docs -> Slugs] /\ shown' \in [Docs -> Revisions \union {Unpublished}]
        /\ edition' \in [Plain -> Nat] /\ \A q \in Plain : edition'[q] <= edition[q] + 1
    <3>1. slug \in [Docs -> Slugs] /\ shown \in [Docs -> Revisions \union {Unpublished}]
          /\ edition \in [Plain -> Nat]
      BY DEF CacheInv, TypeOK
    <3> QED
      BY <1>1, <3>1
  <2>2. p \in Ops /\ Index \in Docs
    BY <1>1, CacheAssumption DEF Ops, SiteWide, Docs
  <2> QED
    BY <1>1, <2>1, <2>2, CommitTypes
<1>3. /\ p = "menu" => {navigation, projectsIndex} \subseteq Owes(session[x])'
      /\ p = "settings" => settings \in Owes(session[x])'
      /\ p = "media" => media \in Owes(session[x])'
      /\ p = "redirects" => redirects \in Owes(session[x])'
  <2>1. session'[x] = [at |-> "committed", op |-> p, doc |-> Index]
    BY <1>1, CommitFacts
  <2> QED
    BY <1>1, <2>1 DEF Owes, Named, ByDocument, SiteWide
<1> DEFINE new == Elsewhere(x) \union IF read \in {} THEN Replicas ELSE {}
<1>4. /\ Elsewhere(x) \subseteq new /\ Excuse(new)
      /\ UNCHANGED <<read, entry, filling>> /\ Owes(session[x]) = {}
      /\ \A y \in Actors \ {x} : session'[y] = session[y]
  BY <1>1, CommitFacts
<1>5. Due(x)' \/ Value' = Value
  <2>1. read \in Reads /\ read' = read /\ edition \in [Plain -> 0..MaxActions]
    BY <1>4 DEF CacheInv, TypeOK
  <2>2. read.tag \in {"path", "doc", "sitemap", "projects-index", "nav"}
                   \union {"settings", "media", "redirects"}
    BY <2>1, ReadsByTag
    DEF path, document, projectsIndex, navigation, settings, media, redirects, sitemap
  <2>3. /\ read.tag = "nav" => read = navigation
        /\ read.tag = "settings" => read = settings
        /\ read.tag = "media" => read = media
        /\ read.tag = "redirects" => read = redirects
    BY <2>1, ReadsByTag
    DEF path, document, projectsIndex, navigation, settings, media, redirects, sitemap
  <2>4. \A q \in Plain \ {p} : edition'[q] = edition[q]
    BY <1>1, <2>1
  <2>5. CASE read.tag \in {"path", "doc", "sitemap"}
    BY <1>1, <2>1, <2>5 DEF Value, AtPath, SlugOf, PublishedPaths, Up
  <2>6. CASE read.tag = "projects-index"
    <3>1. edition'["cards"] = edition["cards"]
      BY <1>1, <2>4 DEF Plain
    <3> QED
      BY <1>1, <2>1, <2>6, <3>1 DEF Value, ProjectCards, SlugOf, Up
  <2>7. CASE read.tag = "nav"
    <3>1. CASE p = "menu"
      BY <1>3, <1>4, <2>3, <2>7, <3>1, Owed DEF navigation, sitemap
    <3>2. CASE p # "menu"
      BY <1>1, <2>1, <2>4, <2>7, <3>2 DEF Value, Menu, Up, Plain
    <3> QED
      BY <3>1, <3>2
  <2>8. CASE read.tag \in {"settings", "media", "redirects"}
    <3>1. CASE p = read.tag
      <4>1. read # sitemap
        BY <2>8 DEF sitemap
      <4>2. read \in Owes(session[x])'
        BY <1>1, <1>3, <2>3, <2>8, <3>1
      <4> QED
        BY <1>4, <4>1, <4>2, Owed
    <3>2. CASE p # read.tag
      BY <2>1, <2>4, <2>8, <3>2 DEF Value, Plain
    <3> QED
      BY <3>1, <3>2
  <2> QED
    BY <2>2, <2>5, <2>6, <2>7, <2>8
<1>6. StaleIsExplained'
  <2> HIDE DEF new
  <2> QED
    BY <1>1, <1>4, <1>5, EditionStep
<1> QED
  BY <1>2, <1>6 DEF CacheInv
LEMMA RemovalCommitsStep ==
  ASSUME CacheInv, NEW x \in Actors, RemovalCommits(x)
  PROVE  CacheInv'
<1>1. PICK d \in Docs, old \in Slugs :
        session[x] = [at |-> "noted", doc |-> d,
                      tags |-> {path(Kind(d), old), document(d), projectsIndex, navigation}]
  <2>1. session[x].at = "noted" /\ SessionInv
    BY DEF RemovalCommits, CacheInv
  <2>2. session[x] # Idle
    BY <2>1 DEF Idle
  <2>3. \A op, d : session[x] # [at |-> "committed", op |-> op, doc |-> d]
    BY <2>1
  <2>4. \A t : session[x] # [at |-> "expiring", tags |-> t]
    BY <2>1
  <2> QED
    BY <2>1, <2>2, <2>3, <2>4 DEF SessionInv
<1> DEFINE owed == {path(Kind(d), old), document(d), projectsIndex, navigation}
           new == Elsewhere(x) \union
                  IF read = path(Kind(d), slug[d]) /\ read \notin owed THEN Replicas ELSE {}
<1>2. /\ shown' = [shown EXCEPT ![d] = Unpublished]
      /\ session' = [session EXCEPT ![x] = [at |-> "expiring", tags |-> owed]]
      /\ UNCHANGED <<slug, edition, read, entry, filling, actions, crashes>>
      /\ Excuse(new)
  BY <1>1 DEF RemovalCommits, Go
<1>3. Owes(session[x])' = owed /\ Owes(session[x]) = {}
  BY <1>1, <1>2 DEF CacheInv, Shape, Owes
<1>4. TypeOK' /\ Shape' /\ SessionInv'
  <2>1. owed \subseteq Known
    BY KnownTags
  <2>2. excused' \in [Replicas -> BOOLEAN]
    BY <1>2, ExcuseTypes
  <2> HIDE DEF owed, new
  <2>3. Shape'
    BY <1>2 DEF CacheInv, Shape
  <2>4. SessionInv'
    BY <1>2, <2>1 DEF CacheInv, SessionInv, Shape, Known
  <2>5. \A y \in Actors :
       \/ session'[y] = Idle
       \/ session'[y].at = "committed" /\ session'[y].doc \in Docs
       \/ session'[y].at \in {"noted", "expiring"} /\ session'[y].tags \subseteq Known
    BY <1>2, <2>1 DEF CacheInv, TypeOK, Known, Shape
  <2>6. TypeOK'
    BY <1>2, <2>2, <2>5 DEF CacheInv, TypeOK, Known
  <2> QED
    BY <2>3, <2>4, <2>6
<1>5. /\ \A e \in Docs \ {d} : slug'[e] = slug[e] /\ shown'[e] = shown[e]
      /\ \A y \in Actors \ {x} : session'[y] = session[y]
      /\ Elsewhere(x) \subseteq new
  BY <1>2 DEF CacheInv, Shape, TypeOK
<1>6. \/ Replicas \subseteq new
      \/ Due(x)'
      \/ /\ read \notin {path(Kind(d), slug[d]), path(Kind(d), slug'[d]), document(d),
                        projectsIndex, navigation, sitemap}
         /\ read.tag \in Plain => edition'[read.tag] = edition[read.tag]
  <2>1. CASE read = sitemap \/ read \in owed
    BY <1>2, <1>3, <2>1, Owed
  <2>2. CASE read = path(Kind(d), slug[d]) /\ read \notin owed
    BY <2>2
  <2> QED
    BY <1>2, <2>1, <2>2
<1>7. StaleIsExplained'
  <2> HIDE DEF owed, new
  <2> QED
    BY <1>2, <1>3, <1>4, <1>5, <1>6, DocumentStep
<1> QED
  BY <1>4, <1>7 DEF CacheInv

(* Nothing happens, or one of the steps above does.                        *)
LEMMA StutterStep ==
  ASSUME CacheInv, UNCHANGED vars
  PROVE  CacheInv'
  BY DEF CacheInv, TypeOK, Shape, SessionInv, StaleIsExplained, Stale, Fresh, Value, AtPath,
         SlugOf, ProjectCards, Menu, PublishedPaths, Up, Owes, Named, Found, RefTags, vars, db

LEMMA Preserved == CacheInv /\ [Next]_vars => CacheInv'
<1> SUFFICES ASSUME CacheInv, [Next]_vars
             PROVE  CacheInv'
  OBVIOUS
<1>1. CASE UNCHANGED vars
  BY <1>1, StutterStep
<1>2. CASE \E r \in Replicas : Miss(r) \/ Store(r) \/ Lapse(r)
  BY <1>2, ReplicaStep
<1>3. ASSUME NEW x \in Actors, NEW d \in Docs,
             \/ Publish(x, d) \/ Unpublish(x, d) \/ Touch(x, d)
             \/ \E s \in Slugs : UpdateSlug(x, d, s)
             \/ ArchiveProject(x, d) \/ UpdateProjectMeta(x, d)
             \/ RemovalReads(x, d)
      PROVE  CacheInv'
  BY <1>3, PublishStep, TouchStep, UpdateSlugStep, ArchiveProjectStep,
     UpdateProjectMetaStep, RemovalReadsStep
<1>4. ASSUME NEW x \in Actors, \E p \in Plain : Write(x, p)
      PROVE  CacheInv'
  BY <1>4, WriteStep
<1>5. ASSUME NEW x \in Actors, RemovalCommits(x) \/ Collect(x) \/ Expire(x) \/ Crash(x)
      PROVE  CacheInv'
  BY <1>5, RemovalCommitsStep, CollectStep, ExpireStep, CrashStep
<1> QED
  BY <1>1, <1>2, <1>3, <1>4, <1>5 DEF Next

-----------------------------------------------------------------------------
(* The inductive invariant holds throughout.                               *)
THEOREM CacheInductive == Spec => []CacheInv
  BY Initially, Preserved, PTL DEF Spec

(* Every variable keeps its type; only tags that some read carries are     *)
(* ever expired (data/cache-tags.ts).                                      *)
THEOREM CacheTypes == Spec => []TypeOK
  BY CacheInductive, PTL DEF CacheInv

(* A cached read that is out of date is about to be expired by an action,  *)
(* or is one of the excused (data/cache-invalidation.ts, _actions),        *)
(* whatever documents, replicas and actions there are.                     *)
THEOREM StalenessIsExplained == Spec => []StaleIsExplained
<1>1. CacheInv => StaleIsExplained
  BY DEF CacheInv
<1> QED
  BY <1>1, CacheInductive, PTL

-----------------------------------------------------------------------------
(***************************************************************************)
(* Consent, for every number of tabs, every set of campaigns and any       *)
(* number of decisions.                                                    *)
(***************************************************************************)
(* The tab that decided knows what it decided.                             *)
AuthorInv == \A t \in Tabs : author = t => heard[t] \in {Deaf, cookie}

(* What the cookie allows was granted by somebody.                         *)
GrantInv == Agreed(cookie) \subseteq granted

ConsentInv ==
  /\ ConsentTypeOK /\ AuthorInv /\ GrantInv
  /\ NothingBeforeConsent /\ OwnChoiceIsHeard

-----------------------------------------------------------------------------
LEMMA CookieFacts ==
  /\ Unknown \in Cookies /\ Agreed(Unknown) = {}
  /\ \A c \in Cookies : Agreed(c) \subseteq Categories
  /\ \A c \in SUBSET Categories : c \in Cookies /\ Agreed(c) = c
  BY DEF Cookies, Unknown, Agreed, Categories

(* A tab that renders what was agreed to loads the tags of that, and       *)
(* records touches only for marketing.                                     *)
LEMMA RenderStep ==
  ASSUME ConsentTypeOK, NEW t \in Tabs, NEW c \in Cookies, NEW from,
         NEW page \in BOOLEAN,
         arrival' \in [Tabs -> Campaigns \union {Direct, "closed"}],
         arrival'[t] \in Campaigns \union {Direct},
         Render(t, c, from, page),
         granted \subseteq granted', Agreed(c) \subseteq granted',
         NothingBeforeConsent
  PROVE  /\ snapshot' \in [Tabs -> Cookies]
         /\ tags' \in [Tabs -> SUBSET {"gtag", "pixel"}]
         /\ firstTouch' \in Campaigns \union {Direct, NoTouch}
         /\ lastTouch' \in [Tabs -> Campaigns \union {Direct, NoTouch}]
         /\ NothingBeforeConsent'
<1>1. snapshot' \in [Tabs -> Cookies]
  BY DEF Render, ConsentTypeOK
<1>2. tags' \in [Tabs -> SUBSET {"gtag", "pixel"}]
  BY DEF Render, ConsentTypeOK, TagsFor
<1>3. /\ firstTouch' \in Campaigns \union {Direct, NoTouch}
      /\ lastTouch' \in [Tabs -> Campaigns \union {Direct, NoTouch}]
  BY DEF Render, ConsentTypeOK
<1>4. ASSUME NEW u \in Tabs
      PROVE  /\ "gtag" \in tags'[u] => "analytics" \in granted'
             /\ "pixel" \in tags'[u] => "marketing" \in granted'
  BY DEF Render, ConsentTypeOK, TagsFor, NothingBeforeConsent
<1>5. "marketing" \notin granted' =>
        firstTouch' = NoTouch /\ \A u \in Tabs : lastTouch'[u] = NoTouch
  BY DEF Render, Allowed, NothingBeforeConsent
<1> QED
  BY <1>1, <1>2, <1>3, <1>4, <1>5 DEF NothingBeforeConsent

LEMMA ConsentInitially == ConsentInit => ConsentInv
  BY CookieFacts, ConsentAssumption
  DEF ConsentInit, ConsentInv, ConsentTypeOK, AuthorInv, GrantInv,
      NothingBeforeConsent, OwnChoiceIsHeard

LEMMA ConsentPreserved == ConsentInv /\ [ConsentNext]_consentVars => ConsentInv'
<1> SUFFICES ASSUME ConsentInv, [ConsentNext]_consentVars
             PROVE  ConsentInv'
  OBVIOUS
<1> USE DEF ConsentInv
<1>1. ASSUME NEW t \in Tabs, NEW a \in Campaigns \union {Direct}, Load(t, a)
      PROVE  ConsentInv'
  <2>1. /\ arrival' \in [Tabs -> Campaigns \union {Direct, "closed"}]
        /\ arrival'[t] = a
    BY <1>1 DEF Load, ConsentTypeOK
  <2>2. /\ Render(t, cookie, Unknown, TRUE) /\ cookie \in Cookies
        /\ cookie' = cookie /\ granted' = granted
    BY <1>1 DEF Load, ConsentTypeOK
  <2>3. /\ snapshot' \in [Tabs -> Cookies]
        /\ tags' \in [Tabs -> SUBSET {"gtag", "pixel"}]
        /\ firstTouch' \in Campaigns \union {Direct, NoTouch}
        /\ lastTouch' \in [Tabs -> Campaigns \union {Direct, NoTouch}]
        /\ NothingBeforeConsent'
    BY <2>1, <2>2, RenderStep DEF GrantInv
  <2>4. ConsentTypeOK'
    BY <1>1, <2>1, <2>3, ConsentAssumption DEF Load, Counts, ConsentTypeOK
  <2>5. AuthorInv' /\ GrantInv' /\ OwnChoiceIsHeard'
    BY <1>1
    DEF Load, ConsentTypeOK, AuthorInv, GrantInv, OwnChoiceIsHeard,
        Agreed
  <2> QED
    BY <2>3, <2>4, <2>5
<1>2. ASSUME NEW t \in Tabs, NEW c \in SUBSET Categories, Choose(t, c)
      PROVE  ConsentInv'
  <2>1. /\ arrival' = arrival /\ arrival[t] \in Campaigns \union {Direct}
        /\ c \in Cookies /\ Agreed(c) = c
        /\ Render(t, c, snapshot[t], FALSE)
        /\ cookie' = c /\ author' = t /\ granted' = granted \union c
    BY <1>2, CookieFacts DEF Choose, Shown, ConsentTypeOK
  <2>2. /\ snapshot' \in [Tabs -> Cookies]
        /\ tags' \in [Tabs -> SUBSET {"gtag", "pixel"}]
        /\ firstTouch' \in Campaigns \union {Direct, NoTouch}
        /\ lastTouch' \in [Tabs -> Campaigns \union {Direct, NoTouch}]
        /\ NothingBeforeConsent'
    <3>1. /\ arrival' \in [Tabs -> Campaigns \union {Direct, "closed"}]
          /\ arrival'[t] \in Campaigns \union {Direct}
          /\ granted \subseteq granted' /\ Agreed(c) \subseteq granted'
      BY <2>1 DEF ConsentTypeOK
    <3> QED
      BY <2>1, <3>1, RenderStep
  <2>3. /\ heard' \in [Tabs -> Cookies \union {Deaf}]
        /\ heard'[t] \in {Deaf, c}
    BY <1>2, <2>1 DEF Choose, Hears, ConsentTypeOK
  <2>4. ConsentTypeOK'
    BY <1>2, <2>1, <2>2, <2>3, ConsentAssumption DEF Choose, Counts, ConsentTypeOK
  <2>5. AuthorInv' /\ GrantInv' /\ OwnChoiceIsHeard'
    BY <1>2, <2>1, <2>3 DEF Choose, AuthorInv, GrantInv, OwnChoiceIsHeard
  <2> QED
    BY <2>2, <2>4, <2>5
<1>3. ASSUME NEW t \in Tabs, Reopen(t)
      PROVE  ConsentInv'
  BY <1>3
  DEF Reopen, ConsentTypeOK, AuthorInv, GrantInv, NothingBeforeConsent,
              OwnChoiceIsHeard, Agreed
<1>4. ASSUME NEW t \in Tabs, Focus(t)
      PROVE  ConsentInv'
  <2>1. /\ arrival' = arrival /\ arrival[t] \in Campaigns \union {Direct}
        /\ Render(t, cookie, snapshot[t], FALSE) /\ cookie \in Cookies
        /\ UNCHANGED <<cookie, banner, heard, choices, author, granted, strays>>
    BY <1>4 DEF Focus, Shown, ConsentTypeOK
  <2>2. /\ arrival' \in [Tabs -> Campaigns \union {Direct, "closed"}]
        /\ arrival'[t] \in Campaigns \union {Direct}
        /\ granted \subseteq granted' /\ Agreed(cookie) \subseteq granted'
    BY <2>1 DEF ConsentTypeOK, GrantInv
  <2>3. /\ snapshot' \in [Tabs -> Cookies]
        /\ tags' \in [Tabs -> SUBSET {"gtag", "pixel"}]
        /\ firstTouch' \in Campaigns \union {Direct, NoTouch}
        /\ lastTouch' \in [Tabs -> Campaigns \union {Direct, NoTouch}]
        /\ NothingBeforeConsent'
    BY <2>1, <2>2, RenderStep
  <2>4. ConsentTypeOK'
    BY <2>1, <2>2, <2>3 DEF ConsentTypeOK
  <2>5. AuthorInv' /\ GrantInv' /\ OwnChoiceIsHeard'
    BY <2>1 DEF AuthorInv, GrantInv, OwnChoiceIsHeard, Agreed
  <2> QED
    BY <2>3, <2>4, <2>5
<1>5. ASSUME NEW t \in Tabs, Track(t)
      PROVE  ConsentInv'
  <2> DEFINE known == IF heard[t] = Deaf THEN cookie ELSE heard[t]
  <2>1. known \in Cookies /\ heard' = [heard EXCEPT ![t] = known]
    BY <1>5 DEF Track, ConsentTypeOK
  <2>2. author = t => known = cookie
    BY DEF AuthorInv
  <2>3. \/ strays' = strays
        \/ author # t /\ strays' = strays \union {[tab |-> t, author |-> author]}
    BY <1>5, <2>2 DEF Track
  <2>4. UNCHANGED <<cookie, firstTouch, lastTouch, arrival, banner, snapshot, tags,
                    choices, author, granted>>
    BY <1>5 DEF Track
  <2> HIDE DEF known
  <2>5. ConsentTypeOK'
    BY <2>1, <2>3, <2>4 DEF ConsentTypeOK
  <2>6. AuthorInv'
    BY <2>1, <2>2, <2>4 DEF AuthorInv, ConsentTypeOK
  <2>7. OwnChoiceIsHeard'
    BY <2>3 DEF OwnChoiceIsHeard
  <2> QED
    BY <2>4, <2>5, <2>6, <2>7 DEF GrantInv, NothingBeforeConsent, Agreed
<1>6. ASSUME ConsentLapses
      PROVE  ConsentInv'
  BY <1>6, CookieFacts, ConsentAssumption
  DEF ConsentLapses, Counts, ConsentTypeOK, AuthorInv, GrantInv,
      NothingBeforeConsent, OwnChoiceIsHeard
<1>7. ASSUME UNCHANGED consentVars
      PROVE  ConsentInv'
  BY <1>7
  DEF consentVars, ConsentTypeOK, AuthorInv, GrantInv, NothingBeforeConsent,
              OwnChoiceIsHeard, Agreed
<1> QED
  BY <1>1, <1>2, <1>3, <1>4, <1>5, <1>6, <1>7 DEF ConsentNext

LEMMA ConsentInductive == ConsentSpec => []ConsentInv
  BY ConsentInitially, ConsentPreserved, PTL DEF ConsentSpec

-----------------------------------------------------------------------------
(* The cookie, the touches, each tab's page and the history have the types *)
(* that Consent declares.                                                  *)
THEOREM ConsentTypes == ConsentSpec => []ConsentTypeOK
  BY ConsentInductive, PTL DEF ConsentInv

(* The tab in which a choice was made sends nothing against it (apply and  *)
(* ensureListening of features/consent and features/analytics).            *)
THEOREM OwnChoiceHeard == ConsentSpec => []OwnChoiceIsHeard
  BY ConsentInductive, PTL DEF ConsentInv

(* No tag is loaded and no touch recorded for a category that the visitor  *)
(* never agreed to (AnalyticsLoader, AttributionBeacon).                   *)
THEOREM ConsentComesFirst == ConsentSpec => []NothingBeforeConsent
  BY ConsentInductive, PTL DEF ConsentInv

-----------------------------------------------------------------------------
(***************************************************************************)
(* The enquiry form: for any number of visitors, dialogs and submissions,  *)
(* what the form says agrees with what is stored, and the limiter lets no  *)
(* more through than it should.                                            *)
(*                                                                         *)
(* What a visitor sees depends on an answer that may be lost, so the       *)
(* inductive invariant follows each submission: a form waits for one at    *)
(* most, of its own key (HeardInv); what no form waits for is known to be  *)
(* unheard; a key that is stored and heard has either thanked its visitor  *)
(* or is about to (SettledInv).                                            *)
(***************************************************************************)
(* The limiter's own count is never behind what it let through.            *)
PassedInv == passed <= used[Address] /\ passed <= Limit

(* A key is minted by one dialog, and everything else borrows it.          *)
KeyInv ==
  /\ DOMAIN leads \subseteq minted
  /\ \A v \in Visitors : key[v] \in minted \union {"none"}
  /\ \A v \in Visitors : panel[v] = "closed" <=> key[v] = "none"
  /\ \A v, w \in Visitors : key[v] = key[w] /\ key[v] # "none" => v = w
  /\ \A n \in DOMAIN calls : calls[n].key \in minted

(* A form waits for one submission, of the dialog it shows.                *)
HeardInv ==
  /\ \A n \in DOMAIN calls :
       /\ calls[n].heard => /\ key[calls[n].by] = calls[n].key
                            /\ panel[calls[n].by] \notin {"closed", "thanks"}
       /\ ~calls[n].heard => calls[n].key \in unheard
  /\ \A n, m \in DOMAIN calls :
       calls[n].heard /\ calls[m].heard /\ calls[n].by = calls[m].by => n = m

(* What a visitor asked for is stored, or an earlier wording of it is.     *)
Has(c) == c.key \in DOMAIN leads /\ (leads[c.key] = c.wish \/ c.key \in unheard)

(* A genuine submission is thanked only for a lead.                        *)
CallInv ==
  \A n \in DOMAIN calls :
    /\ calls[n].at = "admitted" => calls[n].timely /\ calls[n].wish # "blank"
    /\ calls[n].at = "thanks" /\ calls[n].timely => Has(calls[n])

(* A stored key whose answers all arrived has thanked, or is thanking.     *)
Thanking(v) ==
  \E n \in DOMAIN calls :
    /\ calls[n].by = v /\ calls[n].key = key[v]
    /\ calls[n].heard /\ calls[n].at = "thanks"
SettledInv ==
  \A v \in Visitors : key[v] \in DOMAIN leads =>
    key[v] \in unheard \/ panel[v] = "thanks" \/ Thanking(v)

FormInv ==
  /\ FormTypeOK
  /\ PassedInv /\ KeyInv /\ HeardInv /\ CallInv /\ SettledInv
  /\ ThanksMeansLead

-----------------------------------------------------------------------------
(* Changing one submission leaves the others and their number alone.       *)
LEMMA PutFacts ==
  ASSUME NEW n \in DOMAIN calls, NEW c, Put(n, c)
  PROVE  /\ DOMAIN calls' = DOMAIN calls /\ calls'[n] = c
         /\ \A m \in DOMAIN calls : m # n => calls'[m] = calls[m]
  BY DEF Put

(* A submission that is over leaves the others alone.                      *)
LEMMA DoneFacts ==
  ASSUME NEW n, Done(n)
  PROVE  /\ DOMAIN calls' = (DOMAIN calls) \ {n}
         /\ \A m \in DOMAIN calls' : calls'[m] = calls[m]
  BY DEF Done, Restrict

(* The gate keeps what it has of a key, or stores the first wish under it. *)
LEMMA KeepsFacts ==
  ASSUME NEW c
  PROVE  /\ DOMAIN Keeps(c) = (DOMAIN leads) \union {c.key}
         /\ \A k \in DOMAIN leads : Keeps(c)[k] = leads[k]
         /\ c.key \notin DOMAIN leads => Keeps(c)[c.key] = c.wish
  BY DEF Keeps, With

(* A new submission is added to those under way.                           *)
LEMMA SubmitFacts ==
  ASSUME NEW v \in Visitors, NEW w, Submit(v, w), (sent + 1) \notin DOMAIN calls
  PROVE  /\ DOMAIN calls' = (DOMAIN calls) \union {sent + 1}
         /\ calls'[sent + 1] = [by |-> v, key |-> key[v], wish |-> w,
               timely |-> token[v] = "ripe", at |-> "arriving", heard |-> TRUE]
         /\ \A m \in DOMAIN calls : calls'[m] = calls[m]
  BY DEF Submit, With

(* An answer changes where a submission is and nothing else about it.      *)
LEMMA AnsweredFacts ==
  ASSUME FormTypeOK, NEW n \in DOMAIN calls,
         NEW a \in {"arriving", "admitted"} \union Answers, Answered(n, a)
  PROVE  /\ DOMAIN calls' = DOMAIN calls
         /\ \A m \in DOMAIN calls : m # n => calls'[m] = calls[m]
         /\ calls'[n] \in Call /\ calls'[n].at = a
         /\ calls'[n].by = calls[n].by /\ calls'[n].key = calls[n].key
         /\ calls'[n].wish = calls[n].wish /\ calls'[n].timely = calls[n].timely
         /\ calls'[n].heard = calls[n].heard
<1>1. calls[n] \in Call
  BY DEF FormTypeOK
<1>2. Put(n, [calls[n] EXCEPT !.at = a])
  BY DEF Answered
<1> DEFINE c == [calls[n] EXCEPT !.at = a]
<1>3. c \in Call /\ c.at = a /\ c.by = calls[n].by /\ c.key = calls[n].key
      /\ c.wish = calls[n].wish /\ c.timely = calls[n].timely /\ c.heard = calls[n].heard
  BY <1>1 DEF Call
<1> HIDE DEF c
<1>4. /\ DOMAIN calls' = DOMAIN calls /\ calls'[n] = c
      /\ \A m \in DOMAIN calls : m # n => calls'[m] = calls[m]
  BY <1>2, PutFacts DEF c
<1> QED
  BY <1>3, <1>4

-----------------------------------------------------------------------------
(* Nothing is open, under way or stored at the start.                      *)
LEMMA FormInitially == FormInit => FormInv
<1> SUFFICES ASSUME FormInit PROVE FormInv
  OBVIOUS
<1>1. FormTypeOK
  BY LeadFormAssumption DEF FormInit, FormTypeOK
<1>2. PassedInv
  BY LeadFormAssumption DEF FormInit, PassedInv
<1>3. KeyInv /\ HeardInv /\ CallInv /\ SettledInv /\ ThanksMeansLead
  BY DEF FormInit, KeyInv, HeardInv, CallInv, SettledInv, ThanksMeansLead
<1> QED
  BY <1>1, <1>2, <1>3 DEF FormInv

(* A step of the server on one submission: it answers, and has stored the  *)
(* lead when it thanks for a genuine one.                                  *)
LEMMA ServerKeeps ==
  ASSUME FormInv, NEW n \in DOMAIN calls,
         NEW a \in {"admitted"} \union Answers, Answered(n, a),
         calls[n].at \in {"arriving", "admitted"},
         UNCHANGED <<browser, minted, sent, thanked>>,
         used' \in [Visitors \union {Address} -> Nat], passed' \in Nat, PassedInv',
         \/ /\ a = "thanks" => ~calls[n].timely
            /\ a = "admitted" => calls[n].timely /\ calls[n].wish # "blank"
            /\ UNCHANGED <<leads, unheard>>
         \/ /\ calls[n].at = "admitted" /\ leads' = Keeps(calls[n])
            /\ \/ a = "thanks" /\ unheard' = unheard
               \/ a = "generic" /\ unheard' = unheard \union {calls[n].key}
  PROVE  FormInv'
<1> USE DEF FormInv
<1> DEFINE c == calls[n]
<1>1. /\ DOMAIN calls' = DOMAIN calls
      /\ \A m \in DOMAIN calls : m # n => calls'[m] = calls[m]
      /\ calls'[n] \in Call /\ calls'[n].at = a
      /\ calls'[n].by = c.by /\ calls'[n].key = c.key
      /\ calls'[n].wish = c.wish /\ calls'[n].timely = c.timely
      /\ calls'[n].heard = c.heard
  BY AnsweredFacts
<1>2. panel' = panel /\ key' = key /\ token' = token
  BY DEF browser
<1>3. c \in Call /\ c.by \in Visitors /\ c.key \in Keys
  BY DEF FormTypeOK, Call
<1>4. /\ DOMAIN leads \subseteq DOMAIN leads'
      /\ DOMAIN leads' \subseteq (DOMAIN leads) \union {c.key}
      /\ \A k \in DOMAIN leads : leads'[k] = leads[k]
      /\ unheard \subseteq unheard' /\ unheard' \subseteq unheard \union {c.key}
  <2>1. CASE leads' = leads
    BY <2>1
  <2>2. CASE leads' = Keeps(c)
    BY <2>2, KeepsFacts
  <2> QED
    BY <2>1, <2>2
<1>5. leads' # leads => /\ c.at = "admitted" /\ c.wish \in Wishes /\ c.timely
                        /\ leads' = Keeps(c)
  BY <1>3 DEF CallInv, Call
<1>6. \A k \in DOMAIN leads' : leads'[k] \in Wishes
  <2>1. \A k \in DOMAIN leads : leads[k] \in Wishes
    BY DEF FormTypeOK
  <2>2. CASE leads' = leads
    BY <2>1, <2>2
  <2>3. CASE leads' # leads
    BY <2>1, <2>3, <1>4, <1>5, KeepsFacts
  <2> QED
    BY <2>2, <2>3
<1>7. FormTypeOK'
  BY <1>1, <1>2, <1>3, <1>4, <1>6 DEF FormTypeOK
<1>8. c.key \in minted
  BY DEF KeyInv
<1>9. KeyInv'
  BY <1>1, <1>2, <1>4, <1>8 DEF KeyInv
<1>10. HeardInv'
  BY <1>1, <1>2, <1>4 DEF HeardInv
<1>11. \A x : Has(x) => Has(x)'
  BY <1>4 DEF Has
<1>12. c.key \in DOMAIN leads /\ c.key \notin unheard => c.at # "admitted"
  BY <1>3 DEF HeardInv, SettledInv, Thanking
<1>13. a = "thanks" /\ c.timely => /\ c.key \in DOMAIN leads'
                                   /\ leads'[c.key] = c.wish \/ c.key \in unheard
  BY <1>12, <1>4, KeepsFacts
<1>14. CallInv'
  <2> SUFFICES ASSUME NEW m \in DOMAIN calls'
               PROVE  /\ calls'[m].at = "admitted" =>
                           calls'[m].timely /\ calls'[m].wish # "blank"
                      /\ calls'[m].at = "thanks" /\ calls'[m].timely => Has(calls[m])'
    BY DEF CallInv
  <2>1. CASE m = n
    BY <2>1, <1>1, <1>4, <1>5, <1>13 DEF Has
  <2>2. CASE m # n
    <3>1. calls'[m] = calls[m] /\ m \in DOMAIN calls
      BY <2>2, <1>1
    <3> QED
      BY <3>1, <1>4 DEF CallInv, Has
  <2> QED
    BY <2>1, <2>2
<1>15. SettledInv'
  <2> SUFFICES ASSUME NEW v \in Visitors, key[v] \in DOMAIN leads', key[v] \notin unheard',
                      panel[v] # "thanks"
               PROVE  Thanking(v)'
    BY <1>2 DEF SettledInv
  <2>1. CASE key[v] \in DOMAIN leads
    <3>1. Thanking(v)
      BY <2>1, <1>4 DEF SettledInv
    <3>2. PICK m \in DOMAIN calls : /\ calls[m].by = v /\ calls[m].key = key[v]
                                    /\ calls[m].heard /\ calls[m].at = "thanks"
      BY <3>1 DEF Thanking
    <3>3. calls'[m] = calls[m]
      BY <3>2, <1>1
    <3> QED
      BY <3>2, <3>3, <1>1, <1>2 DEF Thanking
  <2>2. CASE key[v] \notin DOMAIN leads
    <3>1. key[v] = c.key /\ leads' # leads
      BY <2>2, <1>4
    <3>2. a = "thanks"
      BY <3>1
    <3>3. c.heard
      BY <3>1, <1>4 DEF HeardInv
    <3>4. c.by = v
      BY <3>1, <3>3, <1>3, LeadFormAssumption DEF HeardInv, KeyInv
    <3> QED
      BY <3>1, <3>2, <3>3, <3>4, <1>1, <1>2 DEF Thanking
  <2> QED
    BY <2>1, <2>2
<1>16. ThanksMeansLead'
  BY <1>4 DEF ThanksMeansLead
<1> QED
  BY <1>7, <1>9, <1>10, <1>14, <1>15, <1>16

(* The steps of the server, one by one.                                    *)
LEMMA FilterKeeps ==
  ASSUME FormInv, NEW n \in DOMAIN calls, Filter(n) PROVE FormInv'
<1> USE DEF FormInv
<1>1. /\ calls[n].at = "arriving" /\ UNCHANGED <<used, passed>>
      /\ UNCHANGED <<browser, leads, minted, sent, thanked, unheard>>
  BY DEF Filter, Arriving, Unlimited
<1>2. used' \in [Visitors \union {Address} -> Nat] /\ passed' \in Nat /\ PassedInv'
  BY <1>1 DEF FormTypeOK, PassedInv
<1>3. CASE ~calls[n].timely /\ Answered(n, "thanks")
  BY <1>1, <1>2, <1>3, ServerKeeps DEF Answers
<1>4. CASE Answered(n, "invalid")
  BY <1>1, <1>2, <1>4, ServerKeeps DEF Answers
<1> QED
  BY <1>3, <1>4 DEF Filter, Trusted

(* The limiter counts whatever it does, and passes no more than it counts. *)
LEMMA AdmitKeeps ==
  ASSUME FormInv, NEW n \in DOMAIN calls, Admit(n) PROVE FormInv'
<1> USE DEF FormInv
<1> DEFINE v == calls[n].by
           byAddress == used[Address] + 1
           byPhone == used[v] + 1
<1>1. /\ calls[n].at = "arriving" /\ calls[n].timely /\ calls[n].wish # "blank"
      /\ UNCHANGED <<browser, leads, minted, sent, thanked, unheard>>
  BY DEF Admit, Genuine, Arriving, Trusted
<1>2. /\ v \in Visitors /\ v # Address /\ passed \in Nat
      /\ used \in [Visitors \union {Address} -> Nat]
  BY LeadFormAssumption DEF FormTypeOK, Call
<1>3. Limit \in Nat
  BY LeadFormAssumption
<1>4. /\ used' \in [Visitors \union {Address} -> Nat]
      /\ used'[Address] = byAddress
  <2>1. CASE used' = [used EXCEPT ![Address] = byAddress]
    BY <2>1, <1>2
  <2>2. CASE used' = [used EXCEPT ![Address] = byAddress, ![v] = byPhone]
    BY <2>2, <1>2
  <2> QED
    BY <2>1, <2>2 DEF Admit
<1>5. CASE Answered(n, "limited") /\ UNCHANGED passed
  <2>1. passed' \in Nat /\ PassedInv'
    BY <1>2, <1>4, <1>5 DEF PassedInv
  <2> QED
    BY <1>1, <1>4, <1>5, <2>1, ServerKeeps DEF Answers
<1>6. CASE ~Exceeds(byAddress) /\ Answered(n, "admitted") /\ passed' = passed + 1
  <2>1. passed' \in Nat /\ PassedInv'
    BY <1>2, <1>3, <1>4, <1>6 DEF PassedInv, Exceeds
  <2> QED
    BY <1>1, <1>4, <1>6, <2>1, ServerKeeps
<1> QED
  BY <1>5, <1>6 DEF Admit

(* The limiter that fails, the gate, and the two ways it fails.            *)
LEMMA StoringKeeps ==
  ASSUME FormInv, NEW n \in DOMAIN calls,
         LimiterFails(n) \/ StoreLead(n) \/ Fails(n) \/ FailsAfterwards(n)
  PROVE  FormInv'
<1> USE DEF FormInv
<1>1. UNCHANGED <<browser, used, minted, sent, thanked, passed>>
  BY DEF LimiterFails, StoreLead, Fails, FailsAfterwards
<1>2. used' \in [Visitors \union {Address} -> Nat] /\ passed' \in Nat /\ PassedInv'
  BY <1>1 DEF FormTypeOK, PassedInv
<1>3. CASE LimiterFails(n)
  <2>1. /\ Answered(n, "admitted") /\ calls[n].at = "arriving"
        /\ calls[n].timely /\ calls[n].wish # "blank" /\ UNCHANGED <<leads, unheard>>
    BY <1>3 DEF LimiterFails, Genuine, Arriving, Trusted
  <2> QED
    BY <1>1, <1>2, <2>1, ServerKeeps
<1>4. CASE StoreLead(n)
  <2>1. /\ Answered(n, "thanks") /\ calls[n].at = "admitted"
        /\ leads' = Keeps(calls[n]) /\ UNCHANGED unheard
    BY <1>4 DEF StoreLead
  <2> QED
    BY <1>1, <1>2, <2>1, ServerKeeps DEF Answers
<1>5. CASE Fails(n)
  <2>1. /\ Answered(n, "generic") /\ calls[n].at = "admitted"
        /\ UNCHANGED <<leads, unheard>>
    BY <1>5 DEF Fails, Undone
  <2> QED
    BY <1>1, <1>2, <2>1, ServerKeeps DEF Answers
<1>6. CASE FailsAfterwards(n)
  <2>1. /\ Answered(n, "generic") /\ calls[n].at = "admitted"
        /\ leads' = Keeps(calls[n]) /\ unheard' = unheard \union {calls[n].key}
    BY <1>6 DEF FailsAfterwards
  <2> QED
    BY <1>1, <1>2, <2>1, ServerKeeps DEF Answers
<1> QED
  BY <1>3, <1>4, <1>5, <1>6

-----------------------------------------------------------------------------
(* A dialog opens under a key nobody has stored anything under.            *)
LEMMA OpenKeeps ==
  ASSUME FormInv, NEW v \in Visitors, Open(v) PROVE FormInv'
<1> USE DEF FormInv
<1>1. PICK k \in Keys \ minted : /\ key' = [key EXCEPT ![v] = k]
                                 /\ minted' = minted \union {k}
  BY DEF Open
<1>2. /\ panel[v] = "closed" /\ panel' = [panel EXCEPT ![v] = "form"]
      /\ token' = [token EXCEPT ![v] = "fresh"]
      /\ UNCHANGED <<calls, leads, used, sent, thanked, unheard, passed>>
  BY DEF Open
<1>3. k # "none" /\ key[v] = "none" /\ k \notin DOMAIN leads
  BY <1>2, LeadFormAssumption DEF KeyInv
<1>4. panel \in [Visitors -> {"closed", "form"} \union Answers]
      /\ key \in [Visitors -> Keys \union {"none"}]
  BY DEF FormTypeOK
<1>5. FormTypeOK'
  BY <1>1, <1>2 DEF FormTypeOK
<1>6. KeyInv'
  BY <1>1, <1>2, <1>3, <1>4 DEF KeyInv
<1>7. \A n \in DOMAIN calls : calls[n].heard => calls[n].by # v
  BY <1>2 DEF HeardInv
<1>8. \A n \in DOMAIN calls : calls[n].by \in Visitors
  BY DEF FormTypeOK, Call
<1>9. HeardInv'
  BY <1>1, <1>2, <1>4, <1>7, <1>8 DEF HeardInv
<1>10. CallInv' /\ ThanksMeansLead' /\ PassedInv'
  BY <1>2 DEF CallInv, Has, ThanksMeansLead, PassedInv
<1>11. SettledInv'
  <2> SUFFICES ASSUME NEW u \in Visitors, key'[u] \in DOMAIN leads
               PROVE  key'[u] \in unheard \/ panel'[u] = "thanks" \/ Thanking(u)'
    BY <1>2 DEF SettledInv
  <2>1. u # v /\ key'[u] = key[u] /\ panel'[u] = panel[u]
    BY <1>1, <1>2, <1>3, <1>4
  <2> QED
    BY <2>1, <1>2 DEF SettledInv, Thanking
<1> QED
  BY <1>5, <1>6, <1>9, <1>10, <1>11

(* Closing tells every submission of the visitor that nobody listens.      *)
LEMMA CloseKeeps ==
  ASSUME FormInv, NEW v \in Visitors, Close(v) PROVE FormInv'
<1> USE DEF FormInv
<1>1. /\ panel[v] # "closed" /\ panel' = [panel EXCEPT ![v] = "closed"]
      /\ unheard' = unheard \union {k \in {key[v]} : Pending(v)}
      /\ key' = [key EXCEPT ![v] = "none"] /\ token' = [token EXCEPT ![v] = "fresh"]
      /\ UNCHANGED <<leads, used, minted, sent, thanked, passed>>
  BY DEF Close
<1>2. panel \in [Visitors -> {"closed", "form"} \union Answers]
      /\ key \in [Visitors -> Keys \union {"none"}]
  BY DEF FormTypeOK
<1>3. /\ DOMAIN calls' = DOMAIN calls
      /\ \A n \in DOMAIN calls : calls[n].by # v => calls'[n] = calls[n]
      /\ \A n \in DOMAIN calls :
           /\ calls'[n] \in Call /\ calls'[n].at = calls[n].at
           /\ calls'[n].by = calls[n].by /\ calls'[n].key = calls[n].key
           /\ calls'[n].wish = calls[n].wish /\ calls'[n].timely = calls[n].timely
           /\ calls'[n].heard => calls[n].heard /\ calls[n].by # v
  <2>1. calls' = [n \in DOMAIN calls |->
                   IF calls[n].by = v THEN [calls[n] EXCEPT !.heard = FALSE] ELSE calls[n]]
    BY DEF Close
  <2>2. DOMAIN calls' = DOMAIN calls
    BY <2>1
  <2> SUFFICES ASSUME NEW n \in DOMAIN calls
               PROVE  /\ calls[n].by # v => calls'[n] = calls[n]
                      /\ calls'[n] \in Call /\ calls'[n].at = calls[n].at
                      /\ calls'[n].by = calls[n].by /\ calls'[n].key = calls[n].key
                      /\ calls'[n].wish = calls[n].wish /\ calls'[n].timely = calls[n].timely
                      /\ calls'[n].heard => calls[n].heard /\ calls[n].by # v
    BY <2>2
  <2>3. calls[n] \in Call
    BY DEF FormTypeOK
  <2>4. CASE calls[n].by = v
    <3>1. calls'[n] = [calls[n] EXCEPT !.heard = FALSE]
      BY <2>1, <2>4
    <3> QED
      BY <3>1, <2>3, <2>4 DEF Call
  <2>5. CASE calls[n].by # v
    BY <2>1, <2>3, <2>5
  <2> QED
    BY <2>4, <2>5
<1>4. key[v] \in Keys
  BY <1>1, <1>2 DEF KeyInv
<1>5. FormTypeOK'
  BY <1>1, <1>2, <1>3, <1>4 DEF FormTypeOK
<1>6. KeyInv'
  BY <1>1, <1>2, <1>3 DEF KeyInv
<1>7. \A n \in DOMAIN calls : calls[n].heard /\ calls[n].by = v => calls[n].key \in unheard'
  <2> SUFFICES ASSUME NEW n \in DOMAIN calls, calls[n].heard, calls[n].by = v
               PROVE  calls[n].key \in unheard'
    OBVIOUS
  <2>1. calls[n].key = key[v]
    BY DEF HeardInv
  <2>2. Pending(v)
    BY <2>1 DEF Pending
  <2> QED
    BY <2>1, <2>2, <1>1
<1>8. \A n \in DOMAIN calls : calls'[n].heard <=> calls[n].heard /\ calls[n].by # v
  BY <1>3
<1>9. HeardInv'
  <2>1. \A n \in DOMAIN calls : calls[n].by # v =>
           panel'[calls[n].by] = panel[calls[n].by] /\ key'[calls[n].by] = key[calls[n].by]
    BY <1>1, <1>2 DEF FormTypeOK, Call
  <2> QED
    BY <1>1, <1>3, <1>7, <1>8, <2>1 DEF HeardInv
<1>10. CallInv'
  BY <1>1, <1>3 DEF CallInv, Has
<1>11. ThanksMeansLead' /\ PassedInv'
  BY <1>1 DEF ThanksMeansLead, PassedInv
<1>12. SettledInv'
  <2> SUFFICES ASSUME NEW u \in Visitors, key'[u] \in DOMAIN leads, key'[u] \notin unheard',
                      panel'[u] # "thanks"
               PROVE  Thanking(u)'
    BY <1>1 DEF SettledInv
  <2>1. "none" \notin DOMAIN leads
    BY LeadFormAssumption DEF FormTypeOK
  <2>2. u # v /\ key'[u] = key[u] /\ panel'[u] = panel[u]
    BY <2>1, <1>1, <1>2
  <2>3. PICK n \in DOMAIN calls : /\ calls[n].by = u /\ calls[n].key = key[u]
                                  /\ calls[n].heard /\ calls[n].at = "thanks"
    BY <2>2, <1>1 DEF SettledInv, Thanking
  <2> QED
    BY <2>2, <2>3, <1>3 DEF Thanking
<1> QED
  BY <1>5, <1>6, <1>9, <1>10, <1>11, <1>12

(* A submission is sent while none is waited for, under the dialog's key.  *)
LEMMA SubmitKeeps ==
  ASSUME FormInv, NEW v \in Visitors, NEW w \in Wishes \union {"blank"}, Submit(v, w)
  PROVE  FormInv'
<1> USE DEF FormInv
<1> DEFINE n == sent + 1
<1>1. /\ panel[v] \notin {"closed", "thanks"} /\ ~Pending(v) /\ sent < MaxCalls
      /\ sent' = n
      /\ UNCHANGED <<panel, key, token, leads, used, minted, thanked, unheard, passed>>
  BY DEF Submit, browser
<1>2. sent \in Nat /\ MaxCalls \in Nat /\ n \notin DOMAIN calls /\ n \in 0..MaxCalls
  BY <1>1, LeadFormAssumption DEF FormTypeOK
<1>3. /\ DOMAIN calls' = (DOMAIN calls) \union {n}
      /\ calls'[n] = [by |-> v, key |-> key[v], wish |-> w,
               timely |-> token[v] = "ripe", at |-> "arriving", heard |-> TRUE]
      /\ \A m \in DOMAIN calls : calls'[m] = calls[m]
  BY <1>2, SubmitFacts
<1>4. key[v] \in Keys /\ key[v] \in minted
  BY <1>1 DEF KeyInv, FormTypeOK
<1> DEFINE c == calls'[n]
<1>5. /\ c \in Call /\ c.by = v /\ c.key = key[v] /\ c.at = "arriving" /\ c.heard
  BY <1>3, <1>4 DEF Call
<1>6. FormTypeOK'
  <2>1. DOMAIN calls' \subseteq 1..n
    BY <1>2, <1>3 DEF FormTypeOK
  <2>2. \A m \in DOMAIN calls' : calls'[m] \in Call
    BY <1>3, <1>5 DEF FormTypeOK
  <2> QED
    BY <1>1, <1>2, <2>1, <2>2 DEF FormTypeOK
<1>7. KeyInv'
  BY <1>1, <1>3, <1>4, <1>5 DEF KeyInv
<1>8. \A m \in DOMAIN calls : calls[m].heard => calls[m].by # v
  BY <1>1 DEF HeardInv, Pending
<1>9. HeardInv'
  BY <1>1, <1>3, <1>5, <1>8 DEF HeardInv
<1>10. CallInv'
  <2> SUFFICES ASSUME NEW m \in DOMAIN calls'
               PROVE  /\ calls'[m].at = "admitted" =>
                           calls'[m].timely /\ calls'[m].wish # "blank"
                      /\ calls'[m].at = "thanks" /\ calls'[m].timely => Has(calls[m])'
    BY DEF CallInv
  <2>1. CASE m = n
    BY <2>1, <1>5
  <2>2. CASE m # n
    BY <2>2, <1>1, <1>3 DEF CallInv, Has
  <2> QED
    BY <2>1, <2>2
<1>11. ThanksMeansLead' /\ PassedInv'
  BY <1>1 DEF ThanksMeansLead, PassedInv
<1>12. SettledInv'
  <2> SUFFICES ASSUME NEW u \in Visitors, Thanking(u) PROVE Thanking(u)'
    BY <1>1 DEF SettledInv
  <2>1. PICK m \in DOMAIN calls : /\ calls[m].by = u /\ calls[m].key = key[u]
                                  /\ calls[m].heard /\ calls[m].at = "thanks"
    BY DEF Thanking
  <2> QED
    BY <2>1, <1>1, <1>3 DEF Thanking
<1> QED
  BY <1>6, <1>7, <1>9, <1>10, <1>11, <1>12

(* An answer arrives: the form that waits for it says what it says.        *)
LEMMA ReceiveKeeps ==
  ASSUME FormInv, NEW n \in DOMAIN calls, Receive(n) PROVE FormInv'
<1> USE DEF FormInv
<1> DEFINE c == calls[n]
<1>1. /\ c.at \in Answers
      /\ panel' = IF c.heard THEN [panel EXCEPT ![c.by] = c.at] ELSE panel
      /\ UNCHANGED <<key, token, leads, used, minted, sent, unheard, passed>>
  BY DEF Receive
<1>2. /\ DOMAIN calls' = (DOMAIN calls) \ {n}
      /\ \A m \in DOMAIN calls' : calls'[m] = calls[m]
  BY DoneFacts DEF Receive
<1>3. /\ c.by \in Visitors /\ c.key \in Keys /\ c.wish \in Wishes \union {"blank"}
      /\ c.timely \in BOOLEAN
  BY DEF FormTypeOK, Call
<1>4. panel \in [Visitors -> {"closed", "form"} \union Answers]
  BY DEF FormTypeOK
<1>5. \/ thanked' = thanked
      \/ /\ c.at = "thanks"
         /\ thanked' = thanked \union {[key |-> c.key, wish |-> c.wish, timely |-> c.timely]}
  BY DEF Receive
<1>6. FormTypeOK'
  <2>1. panel' \in [Visitors -> {"closed", "form"} \union Answers]
    BY <1>1, <1>3, <1>4
  <2>2. thanked' \subseteq [key : Keys, wish : Wishes \union {"blank"}, timely : BOOLEAN]
    BY <1>3, <1>5 DEF FormTypeOK
  <2> QED
    BY <1>1, <1>2, <2>1, <2>2 DEF FormTypeOK
<1>7. \A v \in Visitors :
        /\ panel'[v] # panel[v] => c.heard /\ v = c.by
        /\ c.heard /\ v = c.by => panel'[v] = c.at
  BY <1>1, <1>3, <1>4
<1>8. KeyInv'
  <2>1. \A v \in Visitors : panel'[v] = "closed" <=> panel[v] = "closed"
    BY <1>1, <1>7 DEF Answers, HeardInv
  <2> QED
    BY <1>1, <1>2, <2>1 DEF KeyInv
<1>9. HeardInv'
  <2>1. \A m \in DOMAIN calls' : calls[m].heard => panel'[calls[m].by] = panel[calls[m].by]
    <3> SUFFICES ASSUME NEW m \in DOMAIN calls', calls[m].heard
                 PROVE  panel'[calls[m].by] = panel[calls[m].by]
      OBVIOUS
    <3>1. m \in DOMAIN calls /\ m # n /\ calls[m].by \in Visitors
      BY <1>2 DEF FormTypeOK, Call
    <3>2. c.heard => calls[m].by # c.by
      BY <3>1 DEF HeardInv
    <3> QED
      BY <3>1, <3>2, <1>7
  <2> QED
    BY <1>1, <1>2, <2>1 DEF HeardInv
<1>10. CallInv'
  BY <1>1, <1>2 DEF CallInv, Has
<1>11. ThanksMeansLead' /\ PassedInv'
  <2>1. c.at = "thanks" /\ c.timely => Has(c)
    BY DEF CallInv
  <2>2. ThanksMeansLead'
    BY <1>1, <1>5, <2>1 DEF ThanksMeansLead, Has
  <2> QED
    BY <1>1, <2>2 DEF PassedInv
<1>12. SettledInv'
  <2> SUFFICES ASSUME NEW v \in Visitors, key[v] \in DOMAIN leads, key[v] \notin unheard,
                      panel'[v] # "thanks"
               PROVE  Thanking(v)'
    BY <1>1 DEF SettledInv
  <2>1. panel[v] # "thanks"
    BY <1>7 DEF HeardInv
  <2>2. PICK m \in DOMAIN calls : /\ calls[m].by = v /\ calls[m].key = key[v]
                                  /\ calls[m].heard /\ calls[m].at = "thanks"
    BY <2>1 DEF SettledInv, Thanking
  <2>3. m # n
    BY <2>2, <1>7
  <2> QED
    BY <2>2, <2>3, <1>1, <1>2 DEF Thanking
<1> QED
  BY <1>6, <1>8, <1>9, <1>10, <1>11, <1>12

(* A connection breaks: the form waits no longer and the key is unheard.   *)
LEMMA BreaksKeeps ==
  ASSUME FormInv, NEW n \in DOMAIN calls, Breaks(n) PROVE FormInv'
<1> USE DEF FormInv
<1> DEFINE c == calls[n]
<1>1. /\ c.heard /\ panel' = [panel EXCEPT ![c.by] = "generic"]
      /\ unheard' = unheard \union {c.key}
      /\ UNCHANGED <<key, token, leads, used, minted, sent, thanked, passed>>
  BY DEF Breaks
<1>2. c \in Call /\ c.by \in Visitors /\ c.key \in Keys
  BY DEF FormTypeOK, Call
<1>3. /\ DOMAIN calls' \subseteq DOMAIN calls
      /\ (DOMAIN calls) \ {n} \subseteq DOMAIN calls'
      /\ \A m \in DOMAIN calls' : m # n => calls'[m] = calls[m]
      /\ n \in DOMAIN calls' =>
           /\ calls'[n] \in Call /\ ~calls'[n].heard /\ calls'[n].key = c.key
           /\ calls'[n].at = c.at /\ calls'[n].wish = c.wish /\ calls'[n].timely = c.timely
  <2>1. CASE Put(n, [c EXCEPT !.heard = FALSE])
    <3> DEFINE d == [c EXCEPT !.heard = FALSE]
    <3>1. /\ d \in Call /\ ~d.heard /\ d.key = c.key /\ d.at = c.at
          /\ d.wish = c.wish /\ d.timely = c.timely
      BY <1>2 DEF Call
    <3> HIDE DEF d
    <3>2. /\ DOMAIN calls' = DOMAIN calls /\ calls'[n] = d
          /\ \A m \in DOMAIN calls : m # n => calls'[m] = calls[m]
      BY <2>1, PutFacts DEF d
    <3> QED
      BY <3>1, <3>2
  <2>2. CASE Done(n)
    BY <2>2, DoneFacts
  <2> QED
    BY <2>1, <2>2 DEF Breaks
<1>4. panel \in [Visitors -> {"closed", "form"} \union Answers]
  BY DEF FormTypeOK
<1>5. FormTypeOK'
  <2>1. panel' \in [Visitors -> {"closed", "form"} \union Answers]
    BY <1>1, <1>2, <1>4 DEF Answers
  <2>2. \A m \in DOMAIN calls' : calls'[m] \in Call
    BY <1>3 DEF FormTypeOK
  <2> QED
    BY <1>1, <1>2, <1>3, <2>1, <2>2 DEF FormTypeOK
<1>6. \A v \in Visitors : v # c.by => panel'[v] = panel[v]
  BY <1>1, <1>4
<1>7. panel'[c.by] = "generic" /\ panel[c.by] # "closed" /\ key[c.by] = c.key
  BY <1>1, <1>2, <1>4 DEF HeardInv
<1>8. KeyInv'
  BY <1>1, <1>3, <1>6, <1>7 DEF KeyInv
<1>9. HeardInv'
  <2>1. \A m \in DOMAIN calls' : calls'[m].heard =>
          /\ m # n /\ calls'[m] = calls[m] /\ calls[m].by # c.by
          /\ panel'[calls[m].by] = panel[calls[m].by]
    <3> SUFFICES ASSUME NEW m \in DOMAIN calls', calls'[m].heard
                 PROVE  /\ m # n /\ calls'[m] = calls[m] /\ calls[m].by # c.by
                        /\ panel'[calls[m].by] = panel[calls[m].by]
      OBVIOUS
    <3>1. m # n /\ calls'[m] = calls[m] /\ m \in DOMAIN calls
      BY <1>3
    <3>2. calls[m].by # c.by /\ calls[m].by \in Visitors
      BY <3>1, <1>1 DEF HeardInv, FormTypeOK, Call
    <3> QED
      BY <3>1, <3>2, <1>6
  <2>2. \A m \in DOMAIN calls' : calls'[m].heard =>
          key'[calls'[m].by] = calls'[m].key /\ panel'[calls'[m].by] \notin {"closed", "thanks"}
    BY <2>1, <1>1, <1>3 DEF HeardInv
  <2>3. \A m \in DOMAIN calls' : ~calls'[m].heard => calls'[m].key \in unheard'
    BY <1>1, <1>3 DEF HeardInv
  <2>4. \A m, l \in DOMAIN calls' :
          calls'[m].heard /\ calls'[l].heard /\ calls'[m].by = calls'[l].by => m = l
    BY <2>1, <1>3 DEF HeardInv
  <2> QED
    BY <2>2, <2>3, <2>4 DEF HeardInv
<1>10. CallInv'
  <2> SUFFICES ASSUME NEW m \in DOMAIN calls'
               PROVE  /\ calls'[m].at = "admitted" =>
                           calls'[m].timely /\ calls'[m].wish # "blank"
                      /\ calls'[m].at = "thanks" /\ calls'[m].timely => Has(calls[m])'
    BY DEF CallInv
  <2>1. m \in DOMAIN calls /\ calls'[m].at = calls[m].at /\ calls'[m].key = calls[m].key
        /\ calls'[m].wish = calls[m].wish /\ calls'[m].timely = calls[m].timely
    BY <1>3
  <2> QED
    BY <2>1, <1>1 DEF CallInv, Has
<1>11. ThanksMeansLead' /\ PassedInv'
  BY <1>1 DEF ThanksMeansLead, PassedInv
<1>12. SettledInv'
  <2> SUFFICES ASSUME NEW v \in Visitors, key[v] \in DOMAIN leads, key[v] \notin unheard',
                      panel'[v] # "thanks"
               PROVE  Thanking(v)'
    BY <1>1 DEF SettledInv
  <2>1. v # c.by /\ panel[v] # "thanks"
    BY <1>1, <1>6, <1>7
  <2>2. PICK m \in DOMAIN calls : /\ calls[m].by = v /\ calls[m].key = key[v]
                                  /\ calls[m].heard /\ calls[m].at = "thanks"
    BY <2>1, <1>1 DEF SettledInv, Thanking
  <2>3. m \in DOMAIN calls' /\ calls'[m] = calls[m]
    BY <2>1, <2>2, <1>3
  <2> QED
    BY <2>2, <2>3, <1>1 DEF Thanking
<1> QED
  BY <1>5, <1>8, <1>9, <1>10, <1>11, <1>12

(* The clocks: a token ages, a window of the limiter ends.                 *)
LEMMA ClocksKeep ==
  ASSUME FormInv, WindowEnds \/ \E v \in Visitors : TokenAges(v)
  PROVE  FormInv'
<1> USE DEF FormInv
<1>1. UNCHANGED <<panel, key, calls, leads, minted, sent, thanked, unheard>>
  BY DEF WindowEnds, TokenAges, browser
<1>2. KeyInv' /\ HeardInv' /\ CallInv' /\ SettledInv' /\ ThanksMeansLead'
  BY <1>1 DEF KeyInv, HeardInv, CallInv, Has, SettledInv, Thanking, ThanksMeansLead
<1>3. CASE WindowEnds
  <2>1. token' = token /\ used' = [k \in Visitors \union {Address} |-> 0] /\ passed' = 0
    BY <1>3 DEF WindowEnds, browser, FormTypeOK
  <2>2. FormTypeOK'
    BY <1>1, <2>1 DEF FormTypeOK
  <2>3. PassedInv'
    BY <2>1, LeadFormAssumption DEF PassedInv
  <2> QED
    BY <1>2, <2>2, <2>3
<1>4. ASSUME NEW v \in Visitors, TokenAges(v) PROVE FormInv'
  <2>1. /\ used' = used /\ passed' = passed
        /\ token' = [token EXCEPT ![v] = IF @ = "fresh" THEN "ripe" ELSE "old"]
    BY <1>4 DEF TokenAges
  <2>2. FormTypeOK'
    BY <1>1, <2>1 DEF FormTypeOK
  <2>3. PassedInv'
    BY <2>1 DEF PassedInv
  <2> QED
    BY <1>2, <2>2, <2>3
<1> QED
  BY <1>3, <1>4

(* Every step keeps the inductive invariant.                               *)
LEMMA FormPreserved == FormInv /\ [FormNext]_formVars => FormInv'
<1> SUFFICES ASSUME FormInv, [FormNext]_formVars PROVE FormInv'
  OBVIOUS
<1>1. CASE UNCHANGED formVars
  BY <1>1
  DEF FormInv, formVars, browser, FormTypeOK, PassedInv, KeyInv, HeardInv,
      CallInv, Has,
              SettledInv, Thanking, ThanksMeansLead
<1>2. CASE FormNext
  BY <1>2, OpenKeeps, CloseKeeps, SubmitKeeps, FilterKeeps, AdmitKeeps, StoringKeeps,
     ReceiveKeeps, BreaksKeeps, ClocksKeep DEF FormNext
<1> QED
  BY <1>1, <1>2

(* The inductive invariant holds throughout.                               *)
LEMMA FormInductive == FormSpec => []FormInv
  BY FormInitially, FormPreserved, PTL DEF FormSpec

-----------------------------------------------------------------------------
(* Every variable keeps its type.                                          *)
THEOREM FormTypes == FormSpec => []FormTypeOK
  BY FormInductive, PTL DEF FormInv

(* A visitor with a fresh token who is thanked has a lead with what they   *)
(* asked for, unless an earlier answer got lost (submitLead, onSubmit).    *)
THEOREM ThanksAreHonest == FormSpec => []ThanksMeansLead
  BY FormInductive, PTL DEF FormInv

(* A form that shows an error has stored nothing, unless an answer got     *)
(* lost: to fill it in again does not make a second lead.                  *)
THEOREM ErrorsAreHonest == FormSpec => []ErrorMeansNoLead
<1>1. FormInv => ErrorMeansNoLead
  <2> SUFFICES ASSUME FormInv, NEW v \in Visitors,
                      panel[v] \in {"invalid", "limited", "generic"}, ~Pending(v)
               PROVE  key[v] \notin DOMAIN leads \/ key[v] \in unheard
    BY DEF ErrorMeansNoLead
  <2>1. ~Thanking(v)
    BY DEF Thanking, Pending
  <2> QED
    BY <2>1 DEF FormInv, SettledInv
<1> QED
  BY <1>1, FormInductive, PTL

(* The limiter lets no more submissions of one address through in a window *)
(* than it is told to, in whatever order they interleave.                  *)
THEOREM LimitIsKept == FormSpec => []LimitHolds
<1>1. FormInv => LimitHolds
  BY DEF FormInv, PassedInv, LimitHolds
<1> QED
  BY <1>1, FormInductive, PTL

-----------------------------------------------------------------------------
(***************************************************************************)
(* LeadForm implements Intake: storing the first of a key is Take, a       *)
(* thank-you received for a form that was not taken for a bot is Tell, and *)
(* every other step is invisible.                                          *)
(***************************************************************************)
MadeOf(k) == {leads[j] : j \in {k} \intersect DOMAIN leads}
ToldOf    == {c.key : c \in {d \in thanked : d.timely}}

(* What was thanked for in time is a lead.                                 *)
LEMMA ToldIsMade ==
  ASSUME FormInv, NEW k \in ToldOf
  PROVE  k \in Keys /\ k \in DOMAIN leads
  BY DEF FormInv, FormTypeOK, ThanksMeansLead, ToldOf

(* The gate is invisible to a key that is stored, and Take to another.     *)
LEMMA GateIsTake ==
  ASSUME FormInv, NEW n \in DOMAIN calls, calls[n].at = "admitted",
         leads' = Keeps(calls[n]), thanked' = thanked
  PROVE  Promise!Next \/ UNCHANGED Promise!intakeVars
<1>1. PICK k \in Keys, w \in Wishes : k = calls[n].key /\ w = calls[n].wish
  BY DEF FormInv, FormTypeOK, CallInv, Call
<1>2. /\ DOMAIN leads' = (DOMAIN leads) \union {k}
      /\ \A j \in DOMAIN leads : leads'[j] = leads[j]
      /\ k \notin DOMAIN leads => leads'[k] = w
  BY <1>1, KeepsFacts
<1>3. \A j \in Keys : j # k => MadeOf(j)' = MadeOf(j)
  BY <1>2 DEF MadeOf
<1>4. ToldOf' = ToldOf
  BY DEF ToldOf
<1>5. CASE k \in DOMAIN leads
  <2>1. MadeOf(k)' = MadeOf(k)
    BY <1>2, <1>5 DEF MadeOf
  <2>2. [j \in Keys |-> MadeOf(j)]' = [j \in Keys |-> MadeOf(j)]
    BY <1>3, <2>1
  <2> QED
    BY <1>4, <2>2 DEF Promise!intakeVars, MadeOf, ToldOf
<1>6. CASE k \notin DOMAIN leads
  <2>1. MadeOf(k) = {} /\ MadeOf(k)' = {w}
    BY <1>2, <1>6 DEF MadeOf
  <2>2. [j \in Keys |-> MadeOf(j)]' = [[j \in Keys |-> MadeOf(j)] EXCEPT ![k] = {w}]
    BY <1>3, <2>1
  <2>3. Promise!Take(k, w)
    BY <1>1, <1>4, <2>1, <2>2 DEF Promise!Take, MadeOf, ToldOf
  <2> QED
    BY <1>1, <2>3 DEF Promise!Next
<1> QED
  BY <1>5, <1>6

(* A thank-you that arrives tells of a lead that is there.                 *)
LEMMA ThanksAreTell ==
  ASSUME FormInv, FormInv', NEW n \in DOMAIN calls, Receive(n)
  PROVE  Promise!Next \/ UNCHANGED Promise!intakeVars
<1>1. PICK c : c = [key |-> calls[n].key, wish |-> calls[n].wish, timely |-> calls[n].timely]
  OBVIOUS
<1>2. PICK k : k = c.key
  OBVIOUS
<1>3. leads' = leads /\ (thanked' = thanked \/ thanked' = thanked \union {c})
  BY <1>1 DEF Receive
<1>4. \A j \in Keys : MadeOf(j)' = MadeOf(j)
  BY <1>3 DEF MadeOf
<1>5. CASE ToldOf' = ToldOf
  BY <1>4, <1>5 DEF Promise!intakeVars, MadeOf, ToldOf
<1>6. CASE ToldOf' # ToldOf
  <2>1. ToldOf' = ToldOf \union {k}
    BY <1>2, <1>3, <1>6 DEF ToldOf
  <2>2. k \in Keys /\ k \in DOMAIN leads
    BY <1>3, <2>1 DEF FormInv, FormTypeOK, ThanksMeansLead, ToldOf
  <2>3. MadeOf(k) # {}
    BY <2>2 DEF MadeOf
  <2>4. Promise!Tell(k)
    BY <1>4, <2>1, <2>2, <2>3 DEF Promise!Tell, MadeOf, ToldOf
  <2> QED
    BY <2>2, <2>4 DEF Promise!Next
<1> QED
  BY <1>5, <1>6

(* Every step is one of Intake, or invisible to it.                        *)
LEMMA FormStepIsIntake ==
  FormInv /\ FormInv' /\ [FormNext]_formVars => [Promise!Next]_(Promise!intakeVars)
<1> SUFFICES ASSUME FormInv, FormInv', [FormNext]_formVars
             PROVE  Promise!Next \/ UNCHANGED Promise!intakeVars
  OBVIOUS
<1>1. CASE UNCHANGED <<leads, thanked>>
  BY <1>1 DEF Promise!intakeVars
<1>2. ASSUME NEW n \in DOMAIN calls, StoreLead(n) \/ FailsAfterwards(n)
      PROVE  Promise!Next \/ UNCHANGED Promise!intakeVars
  BY <1>2, GateIsTake DEF StoreLead, FailsAfterwards
<1>3. ASSUME NEW n \in DOMAIN calls,
             Fails(n) \/ Filter(n) \/ Admit(n) \/ LimiterFails(n) \/ Breaks(n)
      PROVE  UNCHANGED <<leads, thanked>>
  BY <1>3 DEF Fails, Filter, Admit, LimiterFails, Breaks, Undone
<1>4. ASSUME NEW v \in Visitors,
             \/ Open(v) \/ TokenAges(v) \/ Close(v)
             \/ \E w \in Wishes \union {"blank"} : Submit(v, w)
      PROVE  UNCHANGED <<leads, thanked>>
  BY <1>4 DEF Open, TokenAges, Close, Submit
<1>5. WindowEnds \/ UNCHANGED formVars => UNCHANGED <<leads, thanked>>
  BY DEF WindowEnds, formVars
<1> QED
  BY <1>1, <1>2, <1>3, <1>4, <1>5, ThanksAreTell DEF FormNext

(* From the browser's side, too, intake keeps its promise: a form makes    *)
(* one lead, its wording stands, and thanks follow it (lead-dialog.tsx,    *)
(* submitLead), for any number of visitors, dialogs and submissions.       *)
THEOREM FormImplementsIntake == FormSpec => ImplementsIntake
<1>1. FormInit => Promise!Init
  BY DEF FormInit, Promise!Init
<1> QED
  BY <1>1, FormInductive, FormStepIsIntake, PTL DEF FormSpec, ImplementsIntake, Promise!Spec
=============================================================================
