---------------------------- MODULE MediaProofs ----------------------------
(***************************************************************************)
(* Proofs about the image library, for every number of images, files,      *)
(* actions and edits.                                                      *)
(***************************************************************************)
EXTENDS Media, TLAPS

(* Only a row that exists is purged.                                       *)
PurgedInv == \A d \in Actors : session[d].op = "purge" => place[session[d].asset] # "none"

(* What visitors see is one of the frozen revisions, or nothing.           *)
LiveInv == live = {} \/ live \in frozen

(* An action that is about to make a row has stored its bytes, and only a  *)
(* purge can have taken them since.                                        *)
AwaitedInv == \A d \in Actors, f \in Files : Awaits(d, f) => f \in store \union robbed

(* What explains an object, a purge that has deleted nothing yet aside.    *)
Holds(d, f) == session[d].op # "purge" /\ session[d].file = f
ExplainedInv ==
  \A f \in store : \/ \E a \in Assets : Keeps(a, f)
                   \/ \E d \in Actors : Holds(d, f)
                   \/ f \in spilled

-----------------------------------------------------------------------------
LEMMA SessionFacts ==
  /\ Idle \in Session
  /\ \A s \in Session :
       /\ s.op \in {"idle", "upload", "insert", "sweep", "replace", "purge", "delete"}
       /\ s.op \in {"upload", "insert", "sweep", "replace", "purge"} => s.file \in Files
       /\ s.op \in {"idle", "delete"} => s.file = NoFile
       /\ s.op \in {"replace", "purge", "delete"} => s.asset \in Assets
  /\ \A f \in Files : /\ [op |-> "upload", file |-> f] \in Session
                      /\ [op |-> "insert", file |-> f] \in Session
                      /\ [op |-> "sweep", file |-> f] \in Session
  /\ \A f \in Files, a \in Assets :
       /\ [op |-> "replace", file |-> f, asset |-> a] \in Session
       /\ [op |-> "purge", file |-> f, asset |-> a] \in Session
  /\ \A a \in Assets : [op |-> "delete", file |-> NoFile, asset |-> a] \in Session
  BY DEF Session, Idle


(* A session opened or advanced to a record that an action may hold.       *)
LEMMA SessionStep ==
  ASSUME TypeOK, NEW d \in Actors, NEW s \in Session, Begin(d, s) \/ Go(d, s)
  PROVE  /\ session' \in [Actors -> Session] /\ actions' \in 0..MaxActions
         /\ session' = [session EXCEPT ![d] = s]
  BY MediaAssumption DEF TypeOK, Begin, Go

LEMMA TypeInit == Init => TypeOK /\ PurgedInv
  BY MediaAssumption, SessionFacts DEF Init, TypeOK, PurgedInv, Idle

LEMMA PurgedStep == TypeOK /\ PurgedInv /\ [Next]_vars => PurgedInv'
<1> SUFFICES ASSUME TypeOK, PurgedInv, [Next]_vars,
                    NEW e \in Actors, session'[e].op = "purge"
             PROVE  place'[session'[e].asset] # "none"
  BY DEF PurgedInv
<1>1. \A a \in Assets : place[a] # "none" => place'[a] # "none"
  <2> SUFFICES ASSUME NEW a \in Assets, place[a] # "none" PROVE place'[a] # "none"
    OBVIOUS
  <2> QED
    BY DEF Next, TypeOK, vars, pages, UploadStores, UploadFinds, UploadInserts,
           ReplaceStores, ReplaceWrites, DeleteReads, DeleteWrites, AsRemoved,
           Restore, PurgeReads, PurgeDeletes, Sweep, GiveUp, SaveDraft, SetCover,
           Publish, Rollback, Unpublish, Edit
<1>2. \/ session'[e] = session[e]
      \/ session'[e].asset \in Assets /\ place[session'[e].asset] = "removed"
  BY DEF Next, TypeOK, vars, Begin, Go, Idle, UploadStores, UploadFinds, UploadInserts,
         ReplaceStores, ReplaceWrites, DeleteReads, DeleteWrites,
         Restore, PurgeReads, PurgeDeletes, Sweep, GiveUp, SaveDraft, SetCover,
         Publish, Rollback, Unpublish, Edit
<1>3. session'[e].asset \in Assets
  BY <1>2, SessionFacts DEF TypeOK
<1> QED
  BY <1>1, <1>2, <1>3 DEF PurgedInv

LEMMA TypeStep == TypeOK /\ PurgedInv /\ [Next]_vars => TypeOK'
<1> SUFFICES ASSUME TypeOK, PurgedInv, [Next]_vars PROVE TypeOK'
  OBVIOUS
<1> USE MediaAssumption, SessionFacts
<1>1. ASSUME NEW d \in Actors, NEW f \in Files, UploadStores(d, f) PROVE TypeOK'
  <2>1. session' \in [Actors -> Session] /\ actions' \in 0..MaxActions
    BY <1>1, SessionStep DEF UploadStores
  <2> QED
    BY <1>1, <2>1 DEF TypeOK, UploadStores, Put, pages
<1>2. ASSUME NEW d \in Actors, UploadFinds(d) PROVE TypeOK'
  <2>1. session[d] \in Session /\ session[d].file \in Files
    BY <1>2 DEF TypeOK, UploadFinds
  <2> QED
    BY <1>2, <2>1 DEF TypeOK, UploadFinds, Go, pages
<1>3. ASSUME NEW d \in Actors, UploadInserts(d) PROVE TypeOK'
  <2>1. session[d] \in Session /\ session[d].file \in Files
    BY <1>3 DEF TypeOK, UploadInserts
  <2> QED
    BY <1>3, <2>1 DEF TypeOK, UploadInserts, Go, pages
<1>4. ASSUME NEW d \in Actors, NEW a \in Assets, NEW f \in Files, ReplaceStores(d, a, f)
      PROVE  TypeOK'
  <2>1. session' \in [Actors -> Session] /\ actions' \in 0..MaxActions
    BY <1>4, SessionStep DEF ReplaceStores
  <2> QED
    BY <1>4, <2>1 DEF TypeOK, ReplaceStores, Put, pages
<1>5. ASSUME NEW d \in Actors, ReplaceWrites(d) PROVE TypeOK'
  <2>1. session[d] \in Session /\ session[d].file \in Files /\ session[d].asset \in Assets
    BY <1>5 DEF TypeOK, ReplaceWrites
  <2> QED
    BY <1>5, <2>1 DEF TypeOK, ReplaceWrites, KeepingOld, Go, Row, pages
<1>6. ASSUME NEW d \in Actors, NEW a \in Assets, DeleteReads(d, a) PROVE TypeOK'
  BY <1>6 DEF TypeOK, DeleteReads, Begin, pages
<1>7. ASSUME NEW d \in Actors, NEW a \in Assets, PurgeReads(d, a) PROVE TypeOK'
  <2>1. file[a] \in Files
    BY <1>7 DEF TypeOK, PurgeReads
  <2>2. session' \in [Actors -> Session] /\ actions' \in 0..MaxActions
    BY <1>7, <2>1, SessionStep DEF PurgeReads
  <2> QED
    BY <1>7, <2>2 DEF TypeOK, PurgeReads, pages
<1>8. ASSUME NEW d \in Actors, DeleteWrites(d) PROVE TypeOK'
  <2>1. session[d] \in Session /\ session[d].asset \in Assets
    BY <1>8 DEF TypeOK, DeleteWrites
  <2> QED
    BY <1>8, <2>1 DEF TypeOK, DeleteWrites, AsRemoved, Row, Go, pages
<1>9. ASSUME NEW d \in Actors, PurgeDeletes(d) PROVE TypeOK'
  <2>1. session[d] \in Session /\ session[d].file \in Files /\ session[d].asset \in Assets
    BY <1>9 DEF TypeOK, PurgeDeletes
  <2>2. session' \in [Actors -> Session] /\ actions' \in 0..MaxActions
    BY <1>9, <2>1, SessionStep DEF PurgeDeletes
  <2>3. /\ place' = [place EXCEPT ![session[d].asset] = "purged"]
        /\ file' = file /\ spilled' \subseteq Files
    BY <1>9, <2>1 DEF TypeOK, PurgeDeletes, Row
  <2> QED
    BY <1>9, <2>1, <2>2, <2>3 DEF TypeOK, PurgedInv, PurgeDeletes, pages
<1>10. ASSUME NEW d \in Actors, Sweep(d) PROVE TypeOK'
  <2>1. session[d] \in Session /\ session[d].file \in Files
    BY <1>10 DEF TypeOK, Sweep
  <2> QED
    BY <1>10, <2>1 DEF TypeOK, Sweep, Sweeps, Go, pages
<1>11. ASSUME NEW d \in Actors, GiveUp(d) PROVE TypeOK'
  <2>1. session[d] \in Session /\ session[d] # Idle
    BY <1>11 DEF TypeOK, GiveUp
  <2>2. session[d].op \in {"delete", "purge"} \/ session[d].file \in Files
    BY <2>1 DEF Session
  <2> QED
    BY <1>11, <2>2 DEF TypeOK, GiveUp, Go, pages
<1>12. ASSUME NEW a \in Assets, Restore(a) PROVE TypeOK'
  BY <1>12 DEF TypeOK, Restore, pages
<1>13. ASSUME NEW used \in Images, SaveDraft(used) \/ SetCover(used) PROVE TypeOK'
  BY <1>13 DEF TypeOK, SaveDraft, SetCover, Edit, Images
<1>14. ASSUME Publish \/ Rollback \/ Unpublish PROVE TypeOK'
  BY <1>14 DEF TypeOK, Publish, Rollback, Unpublish, Edit
<1>15. ASSUME UNCHANGED vars PROVE TypeOK'
  BY <1>15 DEF TypeOK, vars, pages
<1> QED
  BY <1>1, <1>2, <1>3, <1>4, <1>5, <1>6, <1>7, <1>8, <1>9, <1>10, <1>11, <1>12,
     <1>13, <1>14, <1>15 DEF Next

(* Rows, files, what refers to them and what the actions have read keep    *)
(* their types, and a row has bytes exactly if there is one.               *)
THEOREM TypeCorrect == Spec => []TypeOK
  BY TypeInit, TypeStep, PurgedStep, PTL DEF Spec

-----------------------------------------------------------------------------
(* A row leaves the library's tables only by a purge of what nothing       *)
(* refers to.                                                              *)
LEMMA RowsStay ==
  ASSUME TypeOK, [Next]_vars, NEW a \in Assets, Row(a)
  PROVE  Row(a)' \/ (~Restricted(a) /\ UNCHANGED <<draft, frozen, live, cover>>)
<1>1. ASSUME NEW d \in Actors, PurgeDeletes(d)
      PROVE  Row(a)' \/ (~Restricted(a) /\ UNCHANGED <<draft, frozen, live, cover>>)
  <2>1. CASE session[d].asset = a
    BY <1>1, <2>1 DEF PurgeDeletes, pages
  <2>2. CASE session[d].asset # a
    BY <1>1, <2>2 DEF PurgeDeletes, Row, TypeOK
  <2> QED
    BY <2>1, <2>2
<1>2. ASSUME \A d \in Actors : ~PurgeDeletes(d)
      PROVE  Row(a)'
  BY <1>2 DEF Next, TypeOK, Row, vars, UploadStores, UploadFinds, UploadInserts,
              ReplaceStores, ReplaceWrites, DeleteReads, DeleteWrites, AsRemoved,
              Restore, PurgeReads, Sweep, GiveUp, SaveDraft, SetCover, Publish,
              Rollback, Unpublish, Edit
<1> QED
  BY <1>1, <1>2

Referred == draft \union live \union cover \union UNION frozen

(* A reference is to what was referred to already, or to a row.            *)
LEMMA PagesStep ==
  ASSUME TypeOK, LiveInv, [Next]_vars
  PROVE  /\ LiveInv'
         /\ \A a \in Referred' :
              a \in Referred \/ Row(a)'
<1>1. CASE UNCHANGED <<draft, frozen, live, cover>>
  BY <1>1 DEF LiveInv, Referred
<1>2. ASSUME NEW used \in Images, SaveDraft(used) \/ SetCover(used)
      PROVE  /\ LiveInv'
             /\ \A a \in Referred' :
                  a \in Referred \/ Row(a)'
  BY <1>2 DEF SaveDraft, SetCover, Edit, LiveInv, Row, Referred
<1>3. ASSUME Publish \/ Rollback \/ Unpublish
      PROVE  /\ LiveInv'
             /\ \A a \in Referred' :
                  a \in Referred \/ Row(a)'
  BY <1>3 DEF Publish, Rollback, Unpublish, Edit, LiveInv, Referred
<1>4. \/ UNCHANGED <<draft, frozen, live, cover>>
      \/ \E used \in Images : SaveDraft(used) \/ SetCover(used)
      \/ Publish \/ Rollback \/ Unpublish
  BY DEF Next, vars, pages, UploadStores, UploadFinds, UploadInserts, ReplaceStores,
         ReplaceWrites, DeleteReads, DeleteWrites, Restore, PurgeReads, PurgeDeletes,
         Sweep, GiveUp
<1> QED
  BY <1>1, <1>2, <1>3, <1>4

LEMMA PagesInit == Init => LiveInv /\ PagesKeepRows
  BY DEF Init, LiveInv, PagesKeepRows, Used, Row

LEMMA PagesKept ==
  TypeOK /\ LiveInv /\ PagesKeepRows /\ [Next]_vars => LiveInv' /\ PagesKeepRows'
<1> SUFFICES ASSUME TypeOK, LiveInv, PagesKeepRows, [Next]_vars
             PROVE  LiveInv' /\ PagesKeepRows'
  OBVIOUS
<1>1. LiveInv'
  BY PagesStep
<1>2. ASSUME NEW a \in Assets, (Used(a) \/ a \in live \union cover)'
      PROVE  Row(a)'
  <2>1. a \in Referred'
    BY <1>2 DEF Used, Referred
  <2>2. CASE Row(a)'
    BY <2>2
  <2>3. CASE a \in Referred
    <3>1. Restricted(a) /\ Row(a)
      BY <2>3 DEF LiveInv, PagesKeepRows, Restricted, Used, Referred
    <3> QED
      BY <3>1, RowsStay
  <2> QED
    BY <2>1, <2>2, <2>3, PagesStep
<1> QED
  BY <1>1, <1>2 DEF PagesKeepRows

(* Whatever a revision, draft or past, or a cover refers to has its row,   *)
(* however purges, restores, saves and publications interleave.            *)
THEOREM PagesNeverLoseRows == Spec => []PagesKeepRows
  BY TypeInit, TypeStep, PurgedStep, PagesInit, PagesKept, PTL DEF Spec

-----------------------------------------------------------------------------
LEMMA OneLiveStep == TypeOK /\ OneLivePerFile /\ [Next]_vars => OneLivePerFile'
<1> SUFFICES ASSUME TypeOK, OneLivePerFile, [Next]_vars PROVE OneLivePerFile'
  OBVIOUS
<1>1. ASSUME NEW d \in Actors, UploadInserts(d) PROVE OneLivePerFile'
  BY <1>1 DEF UploadInserts, Collides, TypeOK, OneLivePerFile
<1>2. ASSUME NEW d \in Actors, ReplaceWrites(d) PROVE OneLivePerFile'
  BY <1>2, SessionFacts DEF ReplaceWrites, Collides, TypeOK, OneLivePerFile
<1>3. ASSUME NEW a \in Assets, Restore(a) PROVE OneLivePerFile'
  BY <1>3 DEF Restore, Collides, TypeOK, OneLivePerFile
<1>4. ASSUME UNCHANGED file, \A a \in Assets : place'[a] = "live" => place[a] = "live"
      PROVE  OneLivePerFile'
  BY <1>4 DEF OneLivePerFile
<1>5. \/ \E d \in Actors : UploadInserts(d) \/ ReplaceWrites(d)
      \/ \E a \in Assets : Restore(a)
      \/ UNCHANGED file /\ \A a \in Assets : place'[a] = "live" => place[a] = "live"
  BY DEF Next, TypeOK, vars, pages, UploadStores, UploadFinds, ReplaceStores, DeleteReads,
         DeleteWrites, AsRemoved, PurgeReads, PurgeDeletes, Sweep, GiveUp, SaveDraft,
         SetCover, Publish, Rollback, Unpublish, Edit
<1> QED
  BY <1>1, <1>2, <1>3, <1>4, <1>5

(* No two images in the library have the same bytes, whoever uploads,      *)
(* replaces and restores at the same time.                                 *)
THEOREM LibraryHasNoTwins == Spec => []OneLivePerFile
<1>1. Init => OneLivePerFile
  BY DEF Init, OneLivePerFile
<1> QED
  BY <1>1, TypeInit, TypeStep, PurgedStep, OneLiveStep, PTL DEF Spec

-----------------------------------------------------------------------------
BytesInv == AwaitedInv /\ KeptHasBytes

LEMMA BytesInit == Init => BytesInv
  BY DEF Init, BytesInv, AwaitedInv, KeptHasBytes, Awaits, Row, Idle

(* A step that neither takes bytes away nor makes anyone wait for others.  *)
LEMMA BytesFrame ==
  ASSUME BytesInv, TypeOK, TypeOK', store \union robbed \subseteq store' \union robbed',
         \A d \in Actors, f \in Files : Awaits(d, f)' => Awaits(d, f) \/ f \in store',
         \A a \in Assets : Row(a)' =>
           (Row(a) /\ file'[a] = file[a]) \/ file'[a] \in store \union robbed
  PROVE  BytesInv'
<1>1. AwaitedInv'
  BY DEF BytesInv, AwaitedInv
<1>2. KeptHasBytes'
  BY DEF BytesInv, KeptHasBytes
<1> QED
  BY <1>1, <1>2 DEF BytesInv

LEMMA BytesStep == TypeOK /\ PurgedInv /\ BytesInv /\ [Next]_vars => BytesInv'
<1> SUFFICES ASSUME TypeOK, PurgedInv, BytesInv, [Next]_vars PROVE BytesInv'
  OBVIOUS
<1>t. TypeOK'
  BY TypeStep
<1>1. ASSUME NEW d \in Actors, NEW f \in Files,
             UploadStores(d, f) \/ \E a \in Assets : ReplaceStores(d, a, f)
      PROVE  BytesInv'
  <2>1. /\ UNCHANGED <<place, file>> /\ store' = store \union {f} /\ robbed' = robbed \ {f}
        /\ session'[d].file = f /\ \A e \in Actors : e # d => session'[e] = session[e]
    BY <1>1 DEF UploadStores, ReplaceStores, Begin, Put, TypeOK
  <2> QED
    BY <1>t, <2>1, BytesFrame DEF Awaits, Row
<1>2. ASSUME NEW d \in Actors, UploadFinds(d)
      PROVE  BytesInv'
  <2>1. /\ UNCHANGED <<place, file, store, robbed>>
        /\ session' = [session EXCEPT ![d] =
             IF \E a \in Assets : place[a] = "live" /\ file[a] = session[d].file
             THEN Idle ELSE [op |-> "insert", file |-> session[d].file]]
        /\ session[d].op = "upload"
    BY <1>2 DEF UploadFinds, Go
  <2>2. \A e \in Actors, f \in Files : Awaits(e, f)' => Awaits(e, f)
    BY <2>1 DEF Awaits, Idle, TypeOK
  <2> QED
    BY <1>t, <2>1, <2>2, BytesFrame DEF Row
<1>3. ASSUME NEW d \in Actors, UploadInserts(d) \/ ReplaceWrites(d)
      PROVE  BytesInv'
  <2>1. /\ session[d].file \in Files /\ Awaits(d, session[d].file)
        /\ UNCHANGED <<store, robbed>> /\ session' = [session EXCEPT ![d] = Idle]
        /\ \A a \in Assets : Row(a)' =>
             (Row(a) /\ file'[a] = file[a]) \/ file'[a] = session[d].file
    BY <1>3, SessionFacts
    DEF UploadInserts, ReplaceWrites, KeepingOld, Go, TypeOK, Awaits, Row
  <2>2. session[d].file \in store \union robbed
    BY <2>1 DEF BytesInv, AwaitedInv
  <2>3. \A e \in Actors, f \in Files : Awaits(e, f)' => Awaits(e, f)
    BY <2>1 DEF Awaits, Idle, TypeOK
  <2> QED
    BY <1>t, <2>1, <2>2, <2>3, BytesFrame
<1>4. ASSUME NEW d \in Actors, Sweep(d)
      PROVE  BytesInv'
  <2> DEFINE f == session[d].file
  <2>1. /\ UNCHANGED <<place, file>> /\ store' = store \ {f}
        /\ robbed \subseteq robbed'
        /\ (\E a \in Assets : Keeps(a, f)) \/ (\E e \in Actors : Awaits(e, f))
             => f \in robbed'
        /\ session' = [session EXCEPT ![d] = Idle]
    BY <1>4 DEF Sweep, Sweeps, Go
  <2>2. \A e \in Actors, g \in Files : Awaits(e, g)' => Awaits(e, g)
    BY <2>1 DEF Awaits, Idle, TypeOK
  <2>3. AwaitedInv'
    BY <2>1, <2>2 DEF BytesInv, AwaitedInv
  <2>4. KeptHasBytes'
    BY <2>1 DEF BytesInv, KeptHasBytes, Keeps, Row
  <2> QED
    BY <2>3, <2>4 DEF BytesInv
<1>5. ASSUME UNCHANGED <<file, store, robbed>>,
             \A a \in Assets : Row(a)' => Row(a),
             \A e \in Actors : \/ session'[e] = session[e]
                               \/ session'[e].op \in {"idle", "delete", "purge", "sweep"}
      PROVE  BytesInv'
  <2>1. \A e \in Actors, f \in Files : Awaits(e, f)' => Awaits(e, f)
    BY <1>5 DEF Awaits
  <2> QED
    BY <1>t, <1>5, <2>1, BytesFrame
<1>6. CASE UNCHANGED vars
  BY <1>6, <1>5 DEF vars, Row
<1>7. ASSUME \/ \E d \in Actors :
                  \/ \E a \in Assets : DeleteReads(d, a) \/ PurgeReads(d, a)
                  \/ DeleteWrites(d) \/ PurgeDeletes(d) \/ GiveUp(d)
             \/ \E a \in Assets : Restore(a)
      PROVE  BytesInv'
  <2>1. UNCHANGED <<file, store, robbed>>
    BY <1>7 DEF DeleteReads, PurgeReads, DeleteWrites, PurgeDeletes, GiveUp, Restore
  <2>2. \A b \in Assets : Row(b)' => Row(b)
    BY <1>7 DEF DeleteReads, PurgeReads, DeleteWrites, AsRemoved, PurgeDeletes, GiveUp,
                Restore, Row, TypeOK
  <2>3. \A e \in Actors : \/ session'[e] = session[e]
                          \/ session'[e].op \in {"idle", "delete", "purge", "sweep"}
    BY <1>7 DEF DeleteReads, PurgeReads, DeleteWrites, PurgeDeletes, GiveUp, Restore,
                Begin, Go, Idle, TypeOK
  <2> QED
    BY <1>5, <2>1, <2>2, <2>3
<1>8. ASSUME NEW used \in Images,
             SaveDraft(used) \/ SetCover(used) \/ Publish \/ Rollback \/ Unpublish
      PROVE  BytesInv'
  <2>1. UNCHANGED <<place, file, store, robbed, session>>
    BY <1>8 DEF SaveDraft, SetCover, Publish, Rollback, Unpublish, Edit
  <2> QED
    BY <1>5, <2>1 DEF Row
<1> QED
  BY <1>1, <1>2, <1>3, <1>4, <1>6, <1>7, <1>8 DEF Next, Images

(* An image in the library or out of it has its bytes, whatever failed, or *)
(* lost them to the purge of a twin.                                       *)
THEOREM ImagesHaveBytes == Spec => []KeptHasBytes
<1>1. Spec => []BytesInv
  BY TypeInit, TypeStep, PurgedStep, BytesInit, BytesStep, PTL DEF Spec
<1> QED
  BY <1>1, PTL DEF BytesInv

(* Together: what a page, a past version or a cover shows can be served.   *)
THEOREM ImagesAlwaysRender == Spec => []ImagesRender
<1>1. PagesKeepRows /\ KeptHasBytes => ImagesRender
  BY DEF ImagesRender
<1> QED
  BY <1>1, PagesNeverLoseRows, ImagesHaveBytes, PTL

-----------------------------------------------------------------------------
(* What explains an object still does after a step, or something else has  *)
(* come to explain it.                                                     *)
Explained(f) == \/ \E a \in Assets : Keeps(a, f)
                \/ \E d \in Actors : Holds(d, f)
                \/ f \in spilled

LEMMA ExplainedStep == TypeOK /\ ExplainedInv /\ [Next]_vars => ExplainedInv'
<1> SUFFICES ASSUME TypeOK, ExplainedInv, [Next]_vars PROVE ExplainedInv'
  OBVIOUS
<1> SUFFICES ASSUME NEW f \in store' PROVE Explained(f)'
  BY DEF ExplainedInv, Explained
<1>0. f \in store => f \in Files /\ f # NoFile /\ Explained(f)
  BY MediaAssumption DEF TypeOK, ExplainedInv, Explained
<1>1. ASSUME NEW d \in Actors, NEW g \in Files,
             UploadStores(d, g) \/ \E a \in Assets : ReplaceStores(d, a, g)
      PROVE  Explained(f)'
  <2>1. /\ UNCHANGED <<place, file, spilled>> /\ store' = store \union {g}
        /\ session[d] = Idle /\ Holds(d, g)'
        /\ \A e \in Actors : e # d => session'[e] = session[e]
    BY <1>1 DEF UploadStores, ReplaceStores, Begin, Put, TypeOK, Holds
  <2>2. f \in store => \A e \in Actors : Holds(e, f) => e # d
    BY <1>0, <2>1 DEF Holds, Idle
  <2> QED
    BY <1>0, <2>1, <2>2 DEF Explained, Holds, Keeps, Row
<1>2. ASSUME NEW d \in Actors, UploadFinds(d)
      PROVE  Explained(f)'
  <2> PICK g : g = session[d].file
    OBVIOUS
  <2>1. /\ UNCHANGED <<place, file, spilled, store>>
        /\ \A e \in Actors : e # d => session'[e] = session[e]
        /\ (\E a \in Assets : Keeps(a, g)) \/ Holds(d, g)'
    BY <1>2 DEF UploadFinds, Go, TypeOK, Keeps, Holds, Row
  <2> QED
    BY <1>0, <2>1 DEF Explained, Holds, Keeps, Row
<1>3. ASSUME NEW d \in Actors, UploadInserts(d)
      PROVE  Explained(f)'
  <2> PICK g : g = session[d].file
    OBVIOUS
  <2>1. /\ UNCHANGED <<spilled, store>>
        /\ \A e \in Actors : e # d => session'[e] = session[e]
        /\ \E a \in Assets : Keeps(a, g)'
        /\ \A a \in Assets : Keeps(a, f) => Keeps(a, f)'
    BY <1>3 DEF UploadInserts, Go, TypeOK, Keeps, Row
  <2> QED
    BY <1>0, <2>1 DEF Explained, Holds
<1>4. ASSUME NEW d \in Actors, ReplaceWrites(d)
      PROVE  Explained(f)'
  <2> PICK a, g : a = session[d].asset /\ g = session[d].file
    OBVIOUS
  <2>1. a \in Assets /\ Row(a)
    BY <1>4, SessionFacts DEF ReplaceWrites, TypeOK
  <2>2. /\ store' = store /\ spilled' = spilled \union {file[a]}
        /\ \A e \in Actors : e # d => session'[e] = session[e]
        /\ Keeps(a, g)'
        /\ \A b \in Assets : b # a => (Keeps(b, f) => Keeps(b, f)')
    BY <1>4, <2>1 DEF ReplaceWrites, KeepingOld, Go, TypeOK, Keeps, Row
  <2> QED
    BY <1>0, <2>1, <2>2 DEF Explained, Holds, Keeps
<1>5. ASSUME NEW d \in Actors, NEW a \in Assets, DeleteReads(d, a) \/ PurgeReads(d, a)
      PROVE  Explained(f)'
  <2>1. /\ UNCHANGED <<place, file, spilled, store>> /\ session[d] = Idle
        /\ \A e \in Actors : e # d => session'[e] = session[e]
    BY <1>5 DEF DeleteReads, PurgeReads, Begin, TypeOK
  <2>2. \A e \in Actors : Holds(e, f) => e # d
    BY <1>0, <2>1 DEF Holds, Idle
  <2> QED
    BY <1>0, <2>1, <2>2 DEF Explained, Holds, Keeps, Row
<1>6. ASSUME NEW d \in Actors, DeleteWrites(d)
      PROVE  Explained(f)'
  <2>1. session[d].file = NoFile
    BY <1>6, SessionFacts DEF DeleteWrites, TypeOK
  <2>2. /\ UNCHANGED <<file, spilled, store>>
        /\ \A e \in Actors : e # d => session'[e] = session[e]
        /\ \A a \in Assets : Row(a) => Row(a)'
    BY <1>6 DEF DeleteWrites, AsRemoved, Go, TypeOK, Row
  <2> QED
    BY <1>0, <2>1, <2>2 DEF Explained, Holds, Keeps
<1>7. ASSUME NEW d \in Actors, PurgeDeletes(d)
      PROVE  Explained(f)'
  <2> PICK a, g : a = session[d].asset /\ g = session[d].file
    OBVIOUS
  <2>1. /\ UNCHANGED <<file, store>> /\ spilled \subseteq spilled'
        /\ Row(a) /\ file[a] # g => file[a] \in spilled'
        /\ \A e \in Actors : e # d => session'[e] = session[e]
        /\ Holds(d, g)'
        /\ \A b \in Assets : b # a => place'[b] = place[b]
    BY <1>7 DEF PurgeDeletes, Go, TypeOK, Holds
  <2> QED
    BY <1>0, <2>1 DEF Explained, Holds, Keeps, Row
<1>8. ASSUME NEW d \in Actors, Sweep(d)
      PROVE  Explained(f)'
  <2>1. /\ UNCHANGED <<place, file>> /\ store' = store \ {session[d].file}
        /\ spilled' = spilled \ {session[d].file}
        /\ \A e \in Actors : e # d => session'[e] = session[e]
    BY <1>8 DEF Sweep, Sweeps, Go, TypeOK
  <2> QED
    BY <1>0, <2>1 DEF Explained, Holds, Keeps, Row
<1>9. ASSUME NEW d \in Actors, GiveUp(d)
      PROVE  Explained(f)'
  <2>1. /\ UNCHANGED <<place, file, store>> /\ spilled \subseteq spilled'
        /\ session[d].op \notin {"delete", "purge"} => session[d].file \in spilled'
        /\ \A e \in Actors : e # d => session'[e] = session[e]
    BY <1>9 DEF GiveUp, Go, TypeOK
  <2>2. session[d].op = "delete" => session[d].file = NoFile
    BY SessionFacts DEF TypeOK
  <2> QED
    BY <1>0, <2>1, <2>2 DEF Explained, Holds, Keeps, Row
<1>10. ASSUME NEW a \in Assets, Restore(a)
       PROVE  Explained(f)'
  <2>1. UNCHANGED <<file, store, spilled, session>> /\ \A b \in Assets : Row(b) => Row(b)'
    BY <1>10 DEF Restore, Row, TypeOK
  <2> QED
    BY <1>0, <2>1 DEF Explained, Holds, Keeps
<1>11. CASE UNCHANGED <<place, file, store, spilled, session>>
  BY <1>0, <1>11 DEF Explained, Holds, Keeps, Row
<1>12. ASSUME NEW used \in Images,
              SaveDraft(used) \/ SetCover(used) \/ Publish \/ Rollback \/ Unpublish
       PROVE  Explained(f)'
  BY <1>11, <1>12 DEF SaveDraft, SetCover, Publish, Rollback, Unpublish, Edit
<1>13. CASE UNCHANGED vars
  BY <1>11, <1>13 DEF vars
<1> QED
  BY <1>1, <1>2, <1>3, <1>4, <1>5, <1>6, <1>7, <1>8, <1>9, <1>10, <1>12, <1>13
  DEF Next, Images

(* An object nobody has a row for belongs to an action at work, or was     *)
(* left by a failure or a replace: a purge by itself leaves nothing.       *)
THEOREM StorageIsExplained == Spec => []OrphansExplained
<1>1. Init => ExplainedInv
  BY DEF Init, ExplainedInv
<1>2. Spec => []ExplainedInv
  BY <1>1, TypeInit, TypeStep, PurgedStep, ExplainedStep, PTL DEF Spec
<1>3. ExplainedInv => OrphansExplained
  BY DEF ExplainedInv, OrphansExplained, Holds
<1> QED
  BY <1>2, <1>3, PTL
=============================================================================
