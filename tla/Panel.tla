------------------------------- MODULE Panel -------------------------------
(***************************************************************************)
(* The block editor of the panel, open in several browser tabs on one page *)
(* (features/admin/block-editor.tsx over features/admin/use-action.ts), and *)
(* the four server actions it runs.                                        *)
(*                                                                         *)
(* A tab works on a copy it loaded once: `useState(initialBlocks)` never   *)
(* looks at a refreshed prop. Clicks start runs; a run holds the text the  *)
(* screen showed at the click; the framework sends a tab's calls one at a  *)
(* time. Each server action is one step here: the races inside one are     *)
(* those of module Content.                                                *)
(***************************************************************************)
EXTENDS Naturals, Sequences

CONSTANTS Tabs,       \* browser tabs open on the page
          Locales,    \* languages of the site
          Texts,      \* what the list of blocks may say
          Broken,     \* texts that blocksSchema refuses
          First,      \* the text the page was seeded with
          MaxRuns,    \* bound: runs started
          MaxEdits,   \* bound: edits of the list
          MaxVersions \* bound: frozen revisions

ASSUME PanelAssumption ==
  /\ Broken \subseteq Texts /\ First \in Texts \ Broken
  /\ MaxRuns \in Nat /\ MaxEdits \in Nat /\ MaxVersions \in Nat \ {0}

VARIABLES
  draft,    \* blocks of the open draft
  versions, \* blocks of the frozen revisions, oldest first
  pointer,  \* document_locales.published_revision_id
  onSite    \* document_locales.status is "published"

VARIABLES
  text,     \* blocks, the state of the editor
  dirty,    \* dirty, the state of the editor
  props,    \* revisions and publishedLocales, as last rendered
  busyKey,  \* the key whose button is busy
  calls     \* server actions this tab has asked for and not heard of

VARIABLES
  stored,   \* history: what the server last held for this tab
  late,     \* history: was the screen edited while a run was under way?
  saves,    \* history: texts stored so far
  runs,
  edits

server  == <<draft, versions, pointer, onSite>>
screen  == <<text, dirty, props, busyKey, calls>>
history == <<stored, late, saves>>
vars    == <<server, screen, history, runs, edits>>

Props   == [count |-> Len(versions), live |-> pointer,
            shown |-> {l \in Locales : onSite[l]}]
NoKey   == <<"none", "none">>
Ops     == {"save", "first", "publish", "unpublish", "restore"}

(* A seeded page: one frozen revision, published everywhere, cloned.       *)
Init ==
  /\ draft = First /\ versions = <<First>>
  /\ pointer = [l \in Locales |-> 1] /\ onSite = [l \in Locales |-> TRUE]
  /\ text = [b \in Tabs |-> First] /\ dirty = [b \in Tabs |-> FALSE]
  /\ props = [b \in Tabs |-> Props]
  /\ busyKey = [b \in Tabs |-> NoKey] /\ calls = [b \in Tabs |-> <<>>]
  /\ stored = [b \in Tabs |-> First] /\ late = [b \in Tabs |-> FALSE]
  /\ saves = 0
  /\ runs = 0 /\ edits = 0

-----------------------------------------------------------------------------
(* update: every edit of the list goes through it, whatever is under way.  *)
Edit(b, t) ==
  /\ edits < MaxEdits /\ t # text[b]
  /\ edits' = edits + 1
  /\ text' = [text EXCEPT ![b] = t]
  /\ dirty' = [dirty EXCEPT ![b] = TRUE]
  /\ late' = [late EXCEPT ![b] = calls[b] # <<>>]
  /\ UNCHANGED <<server, props, busyKey, calls, stored, saves, runs>>

(* Opening or reloading the page. What is under way has been heard of.     *)
Reload(b) ==
  /\ calls[b] = <<>>
  /\ text' = [text EXCEPT ![b] = draft]
  /\ dirty' = [dirty EXCEPT ![b] = FALSE]
  /\ props' = [props EXCEPT ![b] = Props]
  /\ stored' = [stored EXCEPT ![b] = draft]
  /\ late' = [late EXCEPT ![b] = FALSE]
  /\ UNCHANGED <<server, busyKey, calls, saves, runs, edits>>

-----------------------------------------------------------------------------
(* `busy` of useAction covers the whole transition; isBusy only the key    *)
(* set last, which any run that ends clears.                               *)
Pending(b) == busyKey[b] # NoKey \/ calls[b] # <<>>
IsBusy(b, key) == busyKey[b] = key

Call(b, op, l, v) ==
  [run |-> runs + 1, op |-> op, locale |-> l, version |-> v,
   text |-> text[b], answered |-> FALSE, ok |-> FALSE, mark |-> saves]

(* run: the key is busy at once, and the call joins those of the tab.      *)
Start(b, key, call) ==
  /\ runs < MaxRuns
  /\ runs' = runs + 1
  /\ busyKey' = [busyKey EXCEPT ![b] = key]
  /\ calls' = [calls EXCEPT ![b] = Append(@, call)]
  /\ UNCHANGED <<server, text, dirty, props, history, edits>>

Save(b) ==
  /\ dirty[b] /\ ~Pending(b)
  /\ Start(b, <<"save", "none">>, Call(b, "save", "none", 0))

(* A publication saves first, and publishes once that has been answered.   *)
Publish(b, l) ==
  /\ ~IsBusy(b, <<"publish", l>>)
  /\ Start(b, <<"publish", l>>, Call(b, "first", l, 0))

Unpublish(b, l) ==
  /\ l \in props[b].shown /\ ~IsBusy(b, <<"unpublish", l>>)
  /\ Start(b, <<"unpublish", l>>, Call(b, "unpublish", l, 0))

(* RevisionHistory. Slip: asking isBusy of the button's own key.           *)
OwnKeyFree(b, l) == ~IsBusy(b, <<"restore", l>>)
HistoryEnabled(b, l) == ~Pending(b)

Offered(b) == IF props[b].shown = {} THEN Locales ELSE props[b].shown

Restore(b, v, l) ==
  /\ l \in Offered(b) /\ v <= props[b].count /\ props[b].live[l] # v
  /\ HistoryEnabled(b, l)
  /\ Start(b, <<"restore", l>>, Call(b, "restore", l, v))

-----------------------------------------------------------------------------
(* The server. saveDraft refuses blocks that do not validate.              *)
Answer(b, ok, mark) ==
  calls' = [calls EXCEPT ![b][1].answered = TRUE, ![b][1].ok = ok,
                         ![b][1].mark = mark]

Asked(b, ops) ==
  calls[b] # <<>> /\ ~calls[b][1].answered /\ calls[b][1].op \in ops

SaveDraft(b) ==
  LET t == calls[b][1].text IN
  /\ Asked(b, {"save", "first"})
  /\ \/ /\ t \notin Broken
        /\ draft' = t
        /\ saves' = saves + 1
        /\ stored' = [stored EXCEPT ![b] = t]
        /\ Answer(b, TRUE, saves + 1)
     \/ /\ t \in Broken
        /\ Answer(b, FALSE, saves)
        /\ UNCHANGED <<draft, saves, stored>>
  /\ UNCHANGED <<versions, pointer, onSite, text, dirty, props, busyKey,
                 late, runs, edits>>

PublishDocument(b) ==
  LET l == calls[b][1].locale IN
  /\ Asked(b, {"publish"}) /\ Len(versions) < MaxVersions
  /\ versions' = Append(versions, draft)
  /\ pointer' = [pointer EXCEPT ![l] = Len(versions) + 1]
  /\ onSite' = [onSite EXCEPT ![l] = TRUE]
  /\ Answer(b, TRUE, calls[b][1].mark)
  /\ UNCHANGED <<draft, text, dirty, props, busyKey, history, runs, edits>>

(* unpublishDocument keeps the pointer; rollbackDocument leaves the draft. *)
UnpublishDocument(b) ==
  /\ Asked(b, {"unpublish"})
  /\ onSite' = [onSite EXCEPT ![calls[b][1].locale] = FALSE]
  /\ Answer(b, TRUE, calls[b][1].mark)
  /\ UNCHANGED <<draft, versions, pointer, text, dirty, props, busyKey,
                 history, runs, edits>>

RollbackDocument(b) ==
  LET call == calls[b][1] IN
  /\ Asked(b, {"restore"})
  /\ pointer' = [pointer EXCEPT ![call.locale] = call.version]
  /\ onSite' = [onSite EXCEPT ![call.locale] = TRUE]
  /\ Answer(b, TRUE, call.mark)
  /\ UNCHANGED <<draft, versions, text, dirty, props, busyKey, history,
                 runs, edits>>

-----------------------------------------------------------------------------
(* Back in the tab. A publication goes on only from a save that was taken. *)
(* Slip: not looking at the answer of the save.                            *)
GoesOnRegardless(call) == call.op = "first"
GoesOn(call) == call.op = "first" /\ call.ok

Continue(b) ==
  LET call == calls[b][1] IN
  /\ calls[b] # <<>> /\ call.answered /\ GoesOn(call)
  /\ calls' = [calls EXCEPT ![b] = Append(Tail(@),
       [call EXCEPT !.op = "publish", !.answered = FALSE, !.ok = FALSE])]
  /\ UNCHANGED <<server, text, dirty, props, busyKey, history, runs, edits>>

(* onDone of a save and of a publication; then router.refresh. Slip:       *)
(* running onDone whatever the answer was.                                 *)
AnyOutcome(call) == call.op \in {"save", "first", "publish"}
Settles(call) == call.ok /\ call.op \in {"save", "publish"}

End(b) ==
  LET call == calls[b][1] IN
  /\ calls[b] # <<>> /\ call.answered /\ ~GoesOn(call)
  /\ calls' = [calls EXCEPT ![b] = Tail(@)]
  /\ busyKey' = [busyKey EXCEPT ![b] = NoKey]
  /\ dirty' = [dirty EXCEPT ![b] = @ /\ ~Settles(call)]
  /\ props' = [props EXCEPT ![b] = IF call.ok THEN Props ELSE @]
  /\ UNCHANGED <<server, text, history, runs, edits>>

(* The call is lost on its way there or back, or the action throws.        *)
Throw(b) ==
  /\ calls[b] # <<>>
  /\ calls' = [calls EXCEPT ![b] = Tail(@)]
  /\ busyKey' = [busyKey EXCEPT ![b] = NoKey]
  /\ UNCHANGED <<server, text, dirty, props, history, runs, edits>>

-----------------------------------------------------------------------------
Click(b) ==
  \/ Reload(b) \/ Save(b)
  \/ \E t \in Texts : Edit(b, t)
  \/ \E l \in Locales : \/ Publish(b, l) \/ Unpublish(b, l)
                        \/ \E v \in 1..MaxVersions : Restore(b, v, l)

Serve(b) ==
  \/ SaveDraft(b) \/ PublishDocument(b)
  \/ UnpublishDocument(b) \/ RollbackDocument(b)

Hear(b) == Continue(b) \/ End(b) \/ Throw(b)

Next == \E b \in Tabs : Click(b) \/ Serve(b) \/ Hear(b)

Spec == Init /\ [][Next]_vars
-----------------------------------------------------------------------------
CallType ==
  [run : 1..MaxRuns, op : Ops, locale : Locales \union {"none"},
   version : 0..MaxVersions, text : Texts, answered : BOOLEAN, ok : BOOLEAN,
   mark : Nat]

TypeOK ==
  /\ draft \in Texts /\ versions \in Seq(Texts)
  /\ Len(versions) \in 1..MaxVersions
  /\ pointer \in [Locales -> 1..MaxVersions]
  /\ onSite \in [Locales -> BOOLEAN]
  /\ text \in [Tabs -> Texts] /\ dirty \in [Tabs -> BOOLEAN]
  /\ props \in [Tabs -> [count : 1..MaxVersions,
                         live : [Locales -> 1..MaxVersions], shown : SUBSET Locales]]
  /\ busyKey \in [Tabs -> ({"none"} \union Ops) \X (Locales \union {"none"})]
  /\ calls \in [Tabs -> Seq(CallType)]
  /\ stored \in [Tabs -> Texts] /\ late \in [Tabs -> BOOLEAN]
  /\ saves \in Nat /\ runs \in 0..MaxRuns /\ edits \in 0..MaxEdits

(* An idle screen that shows no "unsaved changes" shows what the server    *)
(* took from it or gave to it, unless it was edited while a run was under  *)
(* way: onDone clears the flag without looking at what was typed since.    *)
CleanMeansStored ==
  \A b \in Tabs : calls[b] = <<>> /\ ~dirty[b] =>
    text[b] = stored[b] \/ late[b]

(* "The draft is first saved, then visitors see the version": what goes    *)
(* live is what the screen showed when publication was confirmed, or what  *)
(* another run stored between its save and its publication; never a draft  *)
(* older than that click, whatever was refused, lost or queued in between. *)
LiveIsConfirmed ==
  [][\A b \in Tabs : PublishDocument(b) =>
       draft = calls[b][1].text \/ saves > calls[b][1].mark]_vars

(* A version brought back is not replaced by a publication the same tab    *)
(* was asked for before: none is behind a restoration in its queue.        *)
RestoreStands ==
  \A b \in Tabs : \A i, j \in DOMAIN calls[b] :
    i < j /\ calls[b][i].op = "restore" => calls[b][i].run < calls[b][j].run

(* "The current draft is replaced by its content" (block-editor.tsx:557).  *)
RestoreReplacesDraft ==
  [][\A b \in Tabs : RollbackDocument(b) =>
       draft' = versions[calls[b][1].version]]_vars

(* "Locales currently served by this revision" (data/admin/documents.ts:202)*)
LiveFor(v) == {l \in Locales : pointer[l] = v}
LiveForIsServed == \A v \in DOMAIN versions : \A l \in LiveFor(v) : onSite[l]
=============================================================================
