----------------------------- MODULE Addresses -----------------------------
(***************************************************************************)
(* Which page an address shows: slugs (updateSlug in _actions/content.ts), *)
(* redirect rules (_actions/redirects.ts, lib/redirects.ts) and their      *)
(* resolution (page-loader.ts, documents.ts, redirects.ts, and PublicPage  *)
(* in the [[...slug]] route), in one language. Caches are in PublicCache.  *)
(*                                                                         *)
(* The home page has no part in it: updateSlug lets nothing take or leave  *)
(* the empty slug. Of an active rule only its target matters here, not     *)
(* whether it is permanent.                                                *)
(***************************************************************************)
EXTENDS Naturals, FiniteSets

CONSTANTS Pages, Projects,   \* documents, by kind
          Index,             \* the page with template portfolio_index
          Slugs, Fallback,   \* 'raboty' in lib/routes.ts
          Nowhere,           \* no target: the visitor sees a 404
          Actors,            \* server actions at work at the same time
          MaxHops,           \* MAX_HOPS
          MaxActions         \* bound: server actions begun

ASSUME AddressesAssumption ==
  /\ Index \in Pages /\ Pages \intersect Projects = {}
  /\ Fallback \in Slugs /\ IsFiniteSet(Slugs)
  /\ MaxHops \in Nat \ {0} /\ MaxActions \in Nat

Docs == Pages \union Projects

(* documentPath: a project lives under the slug of the index.              *)
PagePaths == {<<s>> : s \in Slugs}
Paths == PagePaths \union IF Projects = {} THEN {} ELSE Slugs \X Slugs
ASSUME PathsAssumption == Nowhere \notin Paths

VARIABLES
  slug,     \* document_locales.slug
  up,       \* published, with a revision, and not archived
  rule,     \* redirects by from_path: Nowhere if there is no row
  on,       \* from_paths whose row is active
  session,  \* what a server action has read
  actions

VARIABLES   \* history
  left,     \* who left an address last, of those that are owed a redirect
  late      \* from_paths written on a decision that had become wrong

vars == <<slug, up, rule, on, session, actions, left, late>>

Idle == [op |-> "idle"]
Nobody == [doc |-> Index, owed |-> FALSE]

(* The unique index on kind, locale and slug. Slip: there is none.         *)
NeverTaken(d, s) == FALSE
Taken(d, s) == \E e \in Docs \ {d} : slug[e] = s /\ (e \in Pages <=> d \in Pages)

Init ==
  /\ slug \in [Docs -> Slugs] /\ up \in [Docs -> BOOLEAN]
  /\ \A d \in Docs : ~Taken(d, slug[d])
  /\ rule = [p \in Paths |-> Nowhere] /\ on = {}
  /\ session = [x \in Actors |-> Idle] /\ actions = 0
  /\ left = [p \in Paths |-> Nobody] /\ late = {}

(* The slug of the index as a project's address has it. Slip: only what    *)
(* lib/routes.ts falls back to.                                            *)
AlwaysFallback == Fallback
Parent == IF up[Index] THEN slug[Index] ELSE Fallback
PathOf(d, s, parent) == IF d \in Pages THEN <<s>> ELSE <<parent, s>>
Visible(d) == up[d] /\ (d \in Projects => up[Index])
Address(d) == PathOf(d, slug[d], slug[Index])
Shown(p) == \E d \in Docs : Visible(d) /\ Address(d) = p

-----------------------------------------------------------------------------
(* lib/redirects.ts. A map has the target of every active rule.            *)
ActiveMap == [p \in Paths |-> IF p \in on THEN rule[p] ELSE Nowhere]

(* followRedirect: the loop after `hop` turns. A path seen before gives    *)
(* null, and so does a path without a rule.                                *)
Follow(map, path) ==
  LET walk[hop \in 0..MaxHops] ==
        IF hop = 0 THEN [at |-> map[path], seen |-> {path}, done |-> map[path] = Nowhere]
        ELSE LET w == walk[hop - 1] IN
             CASE w.done -> w
               [] ~w.done /\ w.at \in w.seen -> [w EXCEPT !.at = Nowhere, !.done = TRUE]
               [] ~w.done /\ w.at \notin w.seen /\ map[w.at] = Nowhere -> [w EXCEPT !.done = TRUE]
               [] OTHER -> [at |-> map[w.at], seen |-> w.seen \union {w.at}, done |-> FALSE]
  IN walk[MaxHops].at

(* wouldLoop: is `from` among the first MaxHops + 1 paths from `to` on?    *)
(* Slips: it looks one path less far, and never.                           *)
ShortSighted(map, from, to) == from = to
WouldLoop(map, from, to) ==
  LET walk[hop \in 0..MaxHops] ==
        IF hop = 0 THEN [at |-> to, seen |-> {from}]
        ELSE LET w == walk[hop - 1] IN
             IF w.at = Nowhere \/ w.at \in w.seen THEN [w EXCEPT !.at = Nowhere]
             ELSE [at |-> map[w.at], seen |-> w.seen \union {w.at}]
  IN \E hop \in 0..MaxHops : walk[hop].at = from

(* PublicPage: a page wins; only then the rules. After MaxHops the browser *)
(* is sent to a path that may have a rule itself.                          *)
Step(p) == IF Shown(p) THEN p ELSE Follow(ActiveMap, p)
Lands(p) ==
  LET visit[n \in 0..Cardinality(Paths)] ==
        IF n = 0 THEN p
        ELSE LET q == visit[n - 1] IN IF q = Nowhere THEN q ELSE Step(q)
  IN visit[Cardinality(Paths)]

(* The paths a map leads through.                                          *)
Trail(map, p) ==
  LET reach[n \in 0..Cardinality(Paths)] ==
        IF n = 0 THEN {p}
        ELSE LET r == reach[n - 1] IN r \union ({map[q] : q \in r} \ {Nowhere})
  IN reach[Cardinality(Paths)]

-----------------------------------------------------------------------------
Begin(x, s) == /\ session[x] = Idle /\ actions < MaxActions
               /\ actions' = actions + 1
               /\ session' = [session EXCEPT ![x] = s]
Once == actions < MaxActions /\ actions' = actions + 1 /\ UNCHANGED session
Done(x) == session' = [session EXCEPT ![x] = Idle] /\ UNCHANGED actions

(* Somebody changed the rule of p: whoever was led through p is not owed   *)
(* anything more.                                                          *)
Release(p) ==
  left' = [q \in Paths |-> IF p \in Trail(ActiveMap, q) THEN Nobody ELSE left[q]]

(* updateSlug reads the row and the slug of the index, then writes by id.  *)
(* Slips: without removing the rule of the new address, and without        *)
(* replacing one of the old address.                                       *)
RulesOnly(from, to) == [rule EXCEPT ![from] = to]
OldRuleKept(from, to) ==
  [rule EXCEPT ![to] = Nowhere, ![from] = IF @ = Nowhere THEN to ELSE @]
RenamedRules(from, to) == [rule EXCEPT ![to] = Nowhere, ![from] = to]

SlugReads(x, d, s) ==
  /\ slug[d] # s
  /\ Begin(x, [op |-> "slug", doc |-> d, slug |-> s, up |-> up[d],
               old |-> slug[d], parent |-> slug[Index], shown |-> Visible(d),
               from |-> PathOf(d, slug[d], Parent), to |-> PathOf(d, s, Parent)])
  /\ UNCHANGED <<slug, up, rule, on, left, late>>

(* left: the document owes its old address a way to the new one. It owed   *)
(* others, all through the old one; unless this rename was decided on a    *)
(* row that has changed, or nobody could see the page, or the document is  *)
(* the parent of others: then what those had is lost. Others lose what led *)
(* through an address it takes: with a parent that is no longer the one it *)
(* read, that is not the one it made a rule for.                           *)
SlugWrites(x) ==
  LET s == session[x]  d == s.doc
      sound == /\ s.shown /\ Visible(d) /\ s.old = slug[d]
               /\ d \in Projects => s.parent = slug[Index]
      taken == PathOf(d, s.slug, slug'[Index])
      mine(q) == left[q].doc = d \/ (d = Index /\ left[q].doc \in Projects)
  IN
  /\ s.op = "slug" /\ ~Taken(d, s.slug)
  /\ slug' = [slug EXCEPT ![d] = s.slug]
  /\ IF s.up
     THEN /\ rule' = RenamedRules(s.from, s.to)
          /\ on' = {p \in on \union {s.from} : rule'[p] # Nowhere}
          /\ late' = late \ {s.from, s.to}
     ELSE UNCHANGED <<rule, on, late>>
  /\ left' = [q \in Paths |->
       IF q = Address(d) /\ sound THEN [doc |-> d, owed |-> TRUE]
       ELSE IF \/ q = s.to
               \/ mine(q) /\ (~sound \/ left[q].doc # d)
               \/ /\ left[q].doc # d
                  /\ {s.from, s.to, taken} \intersect Trail(ActiveMap, q) # {}
            THEN Nobody ELSE left[q]]
  /\ Done(x) /\ UNCHANGED up

(* publish, unpublish, archive and restore, as far as visitors see them.   *)
Toggle(d) ==
  /\ Once /\ up' = [up EXCEPT ![d] = ~@]
  /\ UNCHANGED <<slug, rule, on, left, late>>

-----------------------------------------------------------------------------
(* createRedirect and setRedirectActive ask for loops before they write.   *)
CreateReads(x, from, to) ==
  /\ ~WouldLoop(ActiveMap, from, to)
  /\ Begin(x, [op |-> "create", from |-> from, to |-> to])
  /\ UNCHANGED <<slug, up, rule, on, left, late>>

Judge(from, to) == late' = IF WouldLoop(ActiveMap, from, to)
                           THEN late \union {from} ELSE late \ {from}

CreateWrites(x) ==
  LET s == session[x] IN
  /\ s.op = "create"
  /\ rule' = [rule EXCEPT ![s.from] = s.to] /\ on' = on \union {s.from}
  /\ Judge(s.from, s.to) /\ Release(s.from)
  /\ Done(x) /\ UNCHANGED <<slug, up>>

EnableReads(x, from) ==
  /\ rule[from] # Nowhere /\ ~WouldLoop(ActiveMap, from, rule[from])
  /\ Begin(x, [op |-> "enable", from |-> from])
  /\ UNCHANGED <<slug, up, rule, on, left, late>>

(* The row is found by id: its target may be a new one, and a row that was *)
(* deleted is not found, not even if a new one has its path (see Drop).    *)
EnableWrites(x) ==
  LET f == session[x].from IN
  /\ session[x].op = "enable" /\ rule[f] # Nowhere
  /\ on' = on \union {f}
  /\ Judge(f, rule[f]) /\ Release(f)
  /\ Done(x) /\ UNCHANGED <<slug, up, rule>>

Disable(from) ==
  /\ Once /\ from \in on
  /\ on' = on \ {from} /\ late' = late \ {from} /\ Release(from)
  /\ UNCHANGED <<slug, up, rule>>

(* A deleted row takes its id with it: who meant to enable it finds none.  *)
Drop(from) ==
  /\ actions < MaxActions /\ actions' = actions + 1
  /\ rule[from] # Nowhere
  /\ rule' = [rule EXCEPT ![from] = Nowhere]
  /\ on' = on \ {from} /\ late' = late \ {from} /\ Release(from)
  /\ session' = [x \in Actors |->
       IF session[x].op = "enable" /\ session[x].from = from THEN Idle ELSE session[x]]
  /\ UNCHANGED <<slug, up>>

(* A statement fails, the slug is taken, or the server dies.               *)
GiveUp(x) ==
  /\ session[x] # Idle
  /\ Done(x) /\ UNCHANGED <<slug, up, rule, on, left, late>>

Next ==
  \/ \E x \in Actors :
       \/ \E d \in Docs, s \in Slugs : SlugReads(x, d, s)
       \/ \E from, to \in Paths : CreateReads(x, from, to)
       \/ \E from \in Paths : EnableReads(x, from)
       \/ SlugWrites(x) \/ CreateWrites(x) \/ EnableWrites(x) \/ GiveUp(x)
  \/ \E d \in Docs : Toggle(d)
  \/ \E from \in Paths : Disable(from) \/ Drop(from)

Spec == Init /\ [][Next]_vars
-----------------------------------------------------------------------------
OnCycle(p) == \E q \in Trail(ActiveMap, p) \ {p} : p \in Trail(ActiveMap, q)

TypeOK ==
  /\ slug \in [Docs -> Slugs] /\ up \in [Docs -> BOOLEAN]
  /\ rule \in [Paths -> Paths \union {Nowhere}]
  /\ on \subseteq {p \in Paths : rule[p] # Nowhere} /\ late \subseteq on
  /\ left \in [Paths -> [doc : Docs, owed : BOOLEAN]]
  /\ actions \in 0..MaxActions
  /\ \A d, e \in Docs : slug[d] = slug[e] /\ (d \in Pages <=> e \in Pages) => d = e

(* No rules lead in a circle: unless two people wrote at the same time, or *)
(* the circle is longer than wouldLoop can see. Renaming never closes one, *)
(* not even a rename back.                                                 *)
NoShortCircle ==
  \A p \in Paths : OnCycle(p) =>
    \/ Trail(ActiveMap, p) \intersect late # {}
    \/ Cardinality(Trail(ActiveMap, p)) > MaxHops + 1

(* "A renamed page keeps whatever search ranking it had instead of         *)
(* 404ing": an address a published page left leads to where it is now,     *)
(* through any number of renames; unless somebody changed a rule on the    *)
(* way, another document was renamed onto it, this one while nobody could  *)
(* see it or by two people at once, or its parent was.                     *)
FormerAddressLands ==
  \A p \in Paths :
    left[p].owed /\ Visible(left[p].doc) => Lands(p) = Address(left[p].doc)
=============================================================================
