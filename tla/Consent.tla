------------------------------- MODULE Consent -------------------------------
(***************************************************************************)
(* What one visitor's browser may store and send                           *)
(* (consent, attribution and analytics of src/features).                   *)
(*                                                                         *)
(* The consent cookie is shared by the tabs; each tab has loaded tags, a   *)
(* rendered snapshot of the cookie, and the copy that `track` keeps. A     *)
(* choice is the set of categories agreed to; Unknown is no cookie, or     *)
(* one written under an older policy.                                      *)
(***************************************************************************)
EXTENDS Naturals

CONSTANTS Tabs, Campaigns, Direct, NoTouch,
          MaxChoices   \* bound: decisions, lapses and pages opened

ASSUME ConsentAssumption == /\ NoTouch \notin Campaigns \union {Direct} /\ Direct \notin Campaigns
                            /\ "nobody" \notin Tabs /\ MaxChoices \in Nat

Categories == {"analytics", "marketing"}
Unknown == {"unknown"}
Deaf == {"deaf"}
Agreed(c) == c \intersect Categories

VARIABLES
  cookie,      \* lg_consent
  firstTouch,  \* lg_attr
  lastTouch,   \* sessionStorage of a tab
  arrival,     \* the campaign in a tab's address bar or Direct; "closed": no page
  banner,      \* whether it is on screen
  snapshot,    \* what useSyncExternalStore last rendered with
  heard,       \* `consent` of analytics.ts; Deaf until the first event
  tags         \* scripts in the page

VARIABLES      \* bound and history
  choices,
  author,      \* the tab that last changed the cookie; "nobody" if it lapsed
  granted,     \* categories the visitor ever agreed to
  strays       \* events that left without consent: the tab, and the author then

consentVars == <<cookie, firstTouch, lastTouch, arrival, banner, snapshot, heard, tags,
                 choices, author, granted, strays>>

ConsentInit ==
  /\ cookie = Unknown /\ firstTouch = NoTouch
  /\ lastTouch = [t \in Tabs |-> NoTouch] /\ arrival = [t \in Tabs |-> "closed"]
  /\ banner = [t \in Tabs |-> FALSE] /\ snapshot = [t \in Tabs |-> Unknown]
  /\ heard = [t \in Tabs |-> Deaf] /\ tags = [t \in Tabs |-> {}]
  /\ choices = 0 /\ author = "nobody" /\ granted = {} /\ strays = {}

Shown(t) == arrival[t] # "closed"
Counts == choices < MaxChoices /\ choices' = choices + 1
-----------------------------------------------------------------------------
(* AnalyticsLoader: a tag for each category, in the page for good. Slip:   *)
(* the pixel counted among analytics.                                      *)
BothForAnalytics(agreed) == IF "analytics" \in agreed THEN {"gtag", "pixel"} ELSE {}
TagsFor(agreed) == {tag \in {"gtag", "pixel"} :
                      (IF tag = "gtag" THEN "analytics" ELSE "marketing") \in agreed}

(* AttributionBeacon's effect runs when marketing becomes allowed. The     *)
(* first touch stays; the last is replaced by one that carries a signal.   *)
(* Slip: touches are recorded for everybody.                               *)
AlwaysAllowed(before, now) == TRUE
Allowed(before, now) == "marketing" \in Agreed(now) \ Agreed(before)

(* A tab renders with what the cookie says. `from` is what it rendered     *)
(* with before: nothing, when the page is new.                             *)
Render(t, c, from, page) ==
  /\ snapshot' = [snapshot EXCEPT ![t] = c]
  /\ tags' = [tags EXCEPT ![t] = (IF page THEN {} ELSE @) \union TagsFor(Agreed(c))]
  /\ IF Allowed(from, c)
     THEN /\ firstTouch' = IF firstTouch = NoTouch THEN arrival'[t] ELSE firstTouch
          /\ lastTouch' = [lastTouch EXCEPT ![t] =
                             IF arrival'[t] # Direct \/ @ = NoTouch THEN arrival'[t] ELSE @]
     ELSE UNCHANGED <<firstTouch, lastTouch>>

(* A page is loaded, with or without a campaign in its address: a new      *)
(* module state, and a banner where the server found no valid cookie.      *)
Load(t, a) ==
  /\ Counts
  /\ arrival' = [arrival EXCEPT ![t] = a]
  /\ banner' = [banner EXCEPT ![t] = cookie = Unknown]
  /\ heard' = [heard EXCEPT ![t] = Deaf]
  /\ Render(t, cookie, Unknown, TRUE)
  /\ UNCHANGED <<cookie, author, granted, strays>>

Reopen(t) ==
  /\ Shown(t) /\ ~banner[t]
  /\ banner' = [banner EXCEPT ![t] = TRUE]
  /\ UNCHANGED <<cookie, firstTouch, lastTouch, arrival, snapshot, heard, tags,
                 choices, author, granted, strays>>

(* apply: the cookie, and an event that this tab alone hears. Slip: the    *)
(* event is not dispatched.                                                *)
HearsNothing(t, c) == heard[t]
Hears(t, c) == IF heard[t] = Deaf THEN Deaf ELSE c

Choose(t, c) ==
  /\ Shown(t) /\ banner[t] /\ Counts
  /\ cookie' = c /\ author' = t /\ granted' = granted \union c
  /\ banner' = [banner EXCEPT ![t] = FALSE]
  /\ heard' = [heard EXCEPT ![t] = Hears(t, c)]
  /\ UNCHANGED arrival
  /\ Render(t, c, snapshot[t], FALSE)
  /\ UNCHANGED strays

(* The visitor comes back to a tab: the snapshot is read again, the copy   *)
(* of `track` is not.                                                      *)
Focus(t) ==
  /\ Shown(t) /\ snapshot[t] # cookie
  /\ UNCHANGED arrival
  /\ Render(t, cookie, snapshot[t], FALSE)
  /\ UNCHANGED <<cookie, banner, heard, choices, author, granted, strays>>

(* 180 days, a visitor who clears the cookie, a new policy version.        *)
ConsentLapses ==
  /\ cookie # Unknown /\ Counts
  /\ cookie' = Unknown /\ author' = "nobody"
  /\ UNCHANGED <<firstTouch, lastTouch, arrival, banner, snapshot, heard, tags,
                 granted, strays>>

(* track: the first call reads the cookie; without consent, or without a   *)
(* loaded tag, the event is dropped.                                       *)
Track(t) ==
  LET known == IF heard[t] = Deaf THEN cookie ELSE heard[t] IN
  /\ Shown(t)
  /\ heard' = [heard EXCEPT ![t] = known]
  /\ strays' = IF /\ "analytics" \in Agreed(known) /\ "gtag" \in tags[t]
                  /\ "analytics" \notin Agreed(cookie)
               THEN strays \union {[tab |-> t, author |-> author]} ELSE strays
  /\ UNCHANGED <<cookie, firstTouch, lastTouch, arrival, banner, snapshot, tags,
                 choices, author, granted>>

ConsentNext ==
  \/ \E t \in Tabs :
       \/ \E a \in Campaigns \union {Direct} : Load(t, a)
       \/ \E c \in SUBSET Categories : Choose(t, c)
       \/ Reopen(t) \/ Focus(t) \/ Track(t)
  \/ ConsentLapses

ConsentSpec == ConsentInit /\ [][ConsentNext]_consentVars
-----------------------------------------------------------------------------
Cookies == {Unknown} \union SUBSET Categories

(* Every variable keeps its type.                                          *)
ConsentTypeOK ==
  /\ cookie \in Cookies /\ firstTouch \in Campaigns \union {Direct, NoTouch}
  /\ lastTouch \in [Tabs -> Campaigns \union {Direct, NoTouch}]
  /\ arrival \in [Tabs -> Campaigns \union {Direct, "closed"}]
  /\ banner \in [Tabs -> BOOLEAN] /\ snapshot \in [Tabs -> Cookies]
  /\ heard \in [Tabs -> Cookies \union {Deaf}]
  /\ tags \in [Tabs -> SUBSET {"gtag", "pixel"}]
  /\ choices \in 0..MaxChoices /\ author \in Tabs \union {"nobody"}
  /\ granted \subseteq Categories
  /\ strays \subseteq [tab : Tabs, author : Tabs \union {"nobody"}]

(* An event leaves against the visitor's choice only from a tab that did   *)
(* not make it: a choice silences its own tab at once, whatever that tab   *)
(* knew before (ensureListening, apply).                                   *)
OwnChoiceIsHeard == \A s \in strays : s.tab # s.author

(* Nothing of a category is on the page or on the device unless the        *)
(* visitor agreed to that category at some time, in whichever tab: GA only *)
(* for analytics, pixel and touches only for marketing.                    *)
NothingBeforeConsent ==
  /\ \A t \in Tabs : /\ "gtag" \in tags[t] => "analytics" \in granted
                     /\ "pixel" \in tags[t] => "marketing" \in granted
  /\ "marketing" \notin granted =>
       firstTouch = NoTouch /\ \A t \in Tabs : lastTouch[t] = NoTouch

(* "Nothing leaves the browser without analytics consent." (analytics.ts)  *)
NothingLeavesUnasked == strays = {}
=============================================================================
