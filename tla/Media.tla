------------------------------- MODULE Media -------------------------------
(***************************************************************************)
(* The image library: rows of media_assets, their bytes in object storage, *)
(* and what refers to them (_actions/media.ts, lib/media/process.ts,       *)
(* lib/storage/index.ts, db/schema/media.ts, and syncMediaUsage in         *)
(* _actions/content.ts).                                                   *)
(*                                                                         *)
(* Storage is no part of any transaction. Keys are made of the checksum,   *)
(* so two rows with the same bytes share their objects; the original and   *)
(* its derivatives are taken as one, a "file".                             *)
(***************************************************************************)
EXTENDS Naturals, FiniteSets

CONSTANTS Assets,      \* ids a row may get
          Files,       \* contents, by checksum
          NoFile,
          Actors,      \* server actions at work at the same time
          MaxActions,  \* bound: server actions begun on the library
          MaxEdits     \* bound: saves, publications and covers

ASSUME MediaAssumption == /\ NoFile \notin Files
                          /\ MaxActions \in Nat /\ MaxEdits \in Nat

VARIABLES
  place,    \* of a row: "none", "live", "removed" (deleted_at), "purged"
  file,     \* checksum and storage keys of a row
  store,    \* files whose objects are in storage
  draft,    \* media_usage of the draft of a document
  frozen,   \* media_usage of each of its frozen revisions
  live,     \* of those, the one visitors see
  cover,    \* portfolio_projects.cover_asset_id
  session   \* what a server action has done so far

VARIABLES   \* bounds and history
  actions, edits,
  robbed,   \* files emptied while somebody else had or was about to have them
  spilled   \* files nobody asked to keep: failures, and what a replace leaves

pages  == <<draft, frozen, live, cover>>
vars == <<place, file, store, pages, session, actions, edits, robbed, spilled>>

Idle == [op |-> "idle", file |-> NoFile]

Init ==
  /\ place = [a \in Assets |-> "none"] /\ file = [a \in Assets |-> NoFile]
  /\ store = {}
  /\ draft = {} /\ frozen = {} /\ live = {} /\ cover = {}
  /\ session = [d \in Actors |-> Idle]
  /\ actions = 0 /\ edits = 0 /\ robbed = {} /\ spilled = {}

Row(a) == place[a] \in {"live", "removed"}
Used(a) == a \in draft \union UNION frozen

(* Who has, or is about to have, a row for these bytes.                    *)
Keeps(a, f) == Row(a) /\ file[a] = f
Awaits(d, f) == session[d].op \in {"upload", "insert", "replace"} /\ session[d].file = f

Begin(d, s) == /\ session[d] = Idle /\ actions < MaxActions
               /\ actions' = actions + 1
               /\ session' = [session EXCEPT ![d] = s]
Go(d, s) == session' = [session EXCEPT ![d] = s] /\ UNCHANGED actions
-----------------------------------------------------------------------------
(* processUpload stores the objects before anything is known of a row.     *)
Put(f) == /\ store' = store \union {f}
          /\ robbed' = robbed \ {f}

UploadStores(d, f) ==
  /\ Begin(d, [op |-> "upload", file |-> f]) /\ Put(f)
  /\ UNCHANGED <<place, file, pages, edits, spilled>>

(* The partial unique index: one live row per checksum. Slip: without it.  *)
NoCollision(a, f) == FALSE
Collides(a, f) == \E b \in Assets \ {a} : place[b] = "live" /\ file[b] = f

UploadFinds(d) ==
  LET f == session[d].file IN
  /\ session[d].op = "upload"
  /\ Go(d, IF \E a \in Assets : place[a] = "live" /\ file[a] = f
           THEN Idle ELSE [op |-> "insert", file |-> f])
  /\ UNCHANGED <<place, file, store, pages, edits, robbed, spilled>>

UploadInserts(d) ==
  /\ session[d].op = "insert"
  /\ \E a \in Assets :
       /\ place[a] = "none" /\ ~Collides(a, session[d].file)
       /\ place' = [place EXCEPT ![a] = "live"]
       /\ file' = [file EXCEPT ![a] = session[d].file]
  /\ Go(d, Idle)
  /\ UNCHANGED <<store, pages, edits, robbed, spilled>>

(* The bytes of a row that is replaced stay for the revisions that show    *)
(* them. Slip: removed with the row's old key.                             *)
DroppingOld(a) == store \ {file[a]}
KeepingOld(a) == store

ReplaceStores(d, a, f) ==
  /\ Row(a)
  /\ Begin(d, [op |-> "replace", file |-> f, asset |-> a]) /\ Put(f)
  /\ UNCHANGED <<place, file, pages, edits, spilled>>

ReplaceWrites(d) ==
  LET a == session[d].asset IN
  /\ session[d].op = "replace" /\ Row(a)
  /\ place[a] = "live" => ~Collides(a, session[d].file)
  /\ file' = [file EXCEPT ![a] = session[d].file]
  /\ store' = KeepingOld(a)
  /\ spilled' = spilled \union {file[a]}
  /\ Go(d, Idle)
  /\ UNCHANGED <<place, pages, edits, robbed>>

-----------------------------------------------------------------------------
(* deleteMedia looks for published pages, then sets deleted_at by id.      *)
(* Slip: a place no other query knows.                                     *)
AsDeleted(a) == IF Row(a) THEN "deleted" ELSE place[a]
AsRemoved(a) == IF Row(a) THEN "removed" ELSE place[a]

DeleteReads(d, a) ==
  /\ Row(a) /\ a \notin live
  /\ Begin(d, [op |-> "delete", file |-> NoFile, asset |-> a])
  /\ UNCHANGED <<place, file, store, pages, edits, robbed, spilled>>

DeleteWrites(d) ==
  LET a == session[d].asset IN
  /\ session[d].op = "delete"
  /\ place' = [place EXCEPT ![a] = AsRemoved(a)]
  /\ Go(d, Idle)
  /\ UNCHANGED <<file, store, pages, edits, robbed, spilled>>

Restore(a) ==
  /\ actions < MaxActions /\ actions' = actions + 1
  /\ place[a] = "removed" /\ ~Collides(a, file[a])
  /\ place' = [place EXCEPT ![a] = "live"]
  /\ UNCHANGED <<file, store, pages, session, edits, robbed, spilled>>

(* purgeMedia: the reads; the DELETE, which only the RESTRICT foreign keys *)
(* can stop; then the objects, by the keys that were read. Slip: rows of   *)
(* media_usage that cascade away.                                          *)
OnlyCover(a) == a \in cover
Restricted(a) == Used(a) \/ a \in cover

PurgeReads(d, a) ==
  /\ place[a] = "removed" /\ ~Used(a)
  /\ Begin(d, [op |-> "purge", file |-> file[a], asset |-> a])
  /\ UNCHANGED <<place, file, store, pages, edits, robbed, spilled>>

(* A row that is gone already deletes nothing, and the objects still go.   *)
(* A file put in place meanwhile is forgotten.                             *)
PurgeDeletes(d) ==
  LET a == session[d].asset f == session[d].file IN
  /\ session[d].op = "purge" /\ ~Restricted(a)
  /\ place' = [place EXCEPT ![a] = "purged"]
  /\ spilled' = IF Row(a) /\ file[a] # f THEN spilled \union {file[a]} ELSE spilled
  /\ Go(d, [op |-> "sweep", file |-> f])
  /\ UNCHANGED <<file, store, pages, edits, robbed>>

(* Slip: the objects of a purged row are left where they are.              *)
SweepsNothing(f) == {}
Sweeps(f) == {f}

Sweep(d) ==
  LET f == session[d].file IN
  /\ session[d].op = "sweep"
  /\ store' = store \ Sweeps(f)
  /\ robbed' = IF \/ \E a \in Assets : Keeps(a, f)
                  \/ \E e \in Actors : Awaits(e, f)
               THEN robbed \union {f} ELSE robbed
  /\ spilled' = spilled \ {f}
  /\ Go(d, Idle)
  /\ UNCHANGED <<place, file, pages, edits>>

(* Any statement may fail, for the reasons above or others; a call to the  *)
(* storage may throw, which the sweep ignores; the server may die.         *)
GiveUp(d) ==
  /\ session[d] # Idle
  /\ Go(d, Idle)
  /\ spilled' = IF session[d].op \in {"delete", "purge"} THEN spilled
                ELSE spilled \union {session[d].file}
  /\ UNCHANGED <<place, file, store, pages, edits, robbed>>

-----------------------------------------------------------------------------
(* What refers to images. Each is one transaction with its foreign keys.   *)
Edit == edits < MaxEdits /\ edits' = edits + 1
        /\ UNCHANGED <<place, file, store, session, actions, robbed, spilled>>

SaveDraft(used) == /\ Edit /\ \A a \in used : Row(a)
                   /\ draft' = used /\ UNCHANGED <<frozen, live, cover>>
Publish == /\ Edit /\ frozen' = frozen \union {draft} /\ live' = draft
           /\ UNCHANGED <<draft, cover>>
Rollback == /\ Edit /\ \E r \in frozen : live' = r
            /\ UNCHANGED <<draft, frozen, cover>>
Unpublish == Edit /\ live' = {} /\ UNCHANGED <<draft, frozen, cover>>
SetCover(used) == /\ Edit /\ \A a \in used : Row(a)
                  /\ cover' = used /\ UNCHANGED <<draft, frozen, live>>

(* An image at a time is enough to tell one that is used from one that is  *)
(* not.                                                                    *)
Images == {{}} \union {{a} : a \in Assets}

Next ==
  \/ \E d \in Actors :
       \/ \E f \in Files : UploadStores(d, f)
       \/ UploadFinds(d) \/ UploadInserts(d)
       \/ \E a \in Assets, f \in Files : ReplaceStores(d, a, f)
       \/ ReplaceWrites(d)
       \/ \E a \in Assets : DeleteReads(d, a) \/ PurgeReads(d, a)
       \/ DeleteWrites(d) \/ PurgeDeletes(d) \/ Sweep(d) \/ GiveUp(d)
  \/ \E a \in Assets : Restore(a)
  \/ \E used \in Images : SaveDraft(used) \/ SetCover(used)
  \/ Publish \/ Rollback \/ Unpublish

Spec == Init /\ [][Next]_vars
-----------------------------------------------------------------------------
Session ==
  {Idle}
  \union [op : {"upload", "insert", "sweep"}, file : Files]
  \union [op : {"replace", "purge"}, file : Files, asset : Assets]
  \union [op : {"delete"}, file : {NoFile}, asset : Assets]

(* Every variable keeps its type; a row has bytes, and only a row has.     *)
TypeOK ==
  /\ place \in [Assets -> {"none", "live", "removed", "purged"}]
  /\ file \in [Assets -> Files \union {NoFile}]
  /\ \A a \in Assets : file[a] = NoFile <=> place[a] = "none"
  /\ store \subseteq Files /\ robbed \subseteq Files /\ spilled \subseteq Files
  /\ draft \subseteq Assets /\ live \subseteq Assets /\ cover \subseteq Assets
  /\ frozen \subseteq SUBSET Assets
  /\ session \in [Actors -> Session]
  /\ actions \in 0..MaxActions /\ edits \in 0..MaxEdits

(* Every image in the library or out of it has its bytes, whatever failed  *)
(* in between: unless a purge of other bytes' twin emptied them (purgeMedia *)
(* deletes objects by key, and keys are shared by equal uploads).          *)
KeptHasBytes ==
  \A a \in Assets : Row(a) => file[a] \in store \union robbed

(* What any revision, draft or past, or a cover refers to still has its    *)
(* row, so that every rollback renders (the RESTRICT keys, against a purge *)
(* that looked for references before it deleted).                          *)
PagesKeepRows ==
  \A a \in Assets : Used(a) \/ a \in live \union cover => Row(a)

(* Every image a page, a past version or a cover shows can be served: its  *)
(* row is there, and so is what the row points at.                         *)
ImagesRender == PagesKeepRows /\ KeptHasBytes

(* The same bytes are in the library once, whoever uploads, replaces or    *)
(* restores them at the same time (media_checksum_uq).                     *)
OneLivePerFile ==
  \A a, b \in Assets :
    place[a] = "live" /\ place[b] = "live" /\ file[a] = file[b] => a = b

(* An object in storage belongs to a row or to an action at work; else a   *)
(* failure, or a replace, left it there: a purge by itself leaves nothing. *)
OrphansExplained ==
  \A f \in store : \/ \E a \in Assets : Keeps(a, f)
                   \/ \E d \in Actors : session[d].file = f
                   \/ f \in spilled

(* "Файл никуда не делся — убранное изображение можно вернуть": an image   *)
(* taken out of the library keeps its file (media-manager.tsx).            *)
RemovedKeepsFile == \A a \in Assets : place[a] = "removed" => file[a] \in store
=============================================================================
