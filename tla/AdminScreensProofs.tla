------------------------- MODULE AdminScreensProofs -------------------------
(***************************************************************************)
(* Proofs about the screens people work on by hand (AdminScreens): the     *)
(* block editor (Panel), for any number of tabs, languages, texts and      *)
(* clicks, and the lists put in order (Ordering), for any number of rows   *)
(* and people.                                                             *)
(*                                                                         *)
(* Of the editor. What a tab has asked for is a queue, of which only the   *)
(* head has been answered (CallInv). A restoration is asked for only when  *)
(* the queue is empty, so it is the head and everything behind it is       *)
(* younger (RestoreInv). While nobody edits under a run, every call in the *)
(* queue holds the text on the screen, and one that was taken has put it   *)
(* on the server (ScreenInv). A publication in the queue has had its text  *)
(* stored, and only a later store can have replaced it (ConfirmInv).       *)
(*                                                                         *)
(* Of the lists. Whatever an action has read and nobody has overtaken      *)
(* still fits the list (OverlapInv): a row to be added goes behind all     *)
(* that are listed, and a move numbers the rows anew, its own at its goal  *)
(* and the others in the order they had. Every write overtakes the others, *)
(* so only an overtaken one can tie two rows.                              *)
(***************************************************************************)
EXTENDS AdminScreens, SequenceTheorems, FiniteSetTheorems, TLAPS

CallInv ==
  \A b \in Tabs : \A i \in 1..Len(calls[b]) :
    LET c == calls[b][i] IN
    /\ c.op # "save" => c.locale \in Locales
    /\ c.op = "restore" => c.version # 0
    /\ i # 1 => ~c.answered
    /\ c.run <= runs /\ c.mark <= saves

RestoreInv ==
  \A b \in Tabs : \A i \in 1..Len(calls[b]) :
    /\ calls[b][i].op = "restore" => i = 1
    /\ calls[b][1].op = "restore" /\ i # 1 => calls[b][1].run < calls[b][i].run

(* A call whose text the server has taken.                                 *)
Taken(c) == c.op = "publish" \/ (c.op \in {"save", "first"} /\ c.answered /\ c.ok)

ScreenInv ==
  \A b \in Tabs : ~late[b] =>
    /\ ~dirty[b] => text[b] = stored[b]
    /\ \A i \in 1..Len(calls[b]) :
         /\ calls[b][i].text = text[b]
         /\ Taken(calls[b][i]) => stored[b] = text[b]

ConfirmInv ==
  \A b \in Tabs : \A i \in 1..Len(calls[b]) :
    LET c == calls[b][i] IN
    c.op = "publish" \/ (c.op = "first" /\ c.answered /\ c.ok) =>
      draft = c.text \/ saves > c.mark

PanelInv == TypeOK /\ CallInv /\ RestoreInv /\ ScreenInv /\ ConfirmInv

-----------------------------------------------------------------------------
(* A queue has calls at its positions, and is empty if it has none.        *)
LEMMA QueueFacts ==
  ASSUME TypeOK, NEW b \in Tabs
  PROVE  /\ calls[b] \in Seq(CallType) /\ Len(calls[b]) \in Nat
         /\ DOMAIN calls[b] = 1..Len(calls[b])
         /\ \A i \in 1..Len(calls[b]) : calls[b][i] \in CallType
         /\ calls[b] # <<>> => 1 \in 1..Len(calls[b])
<1>1. calls[b] \in Seq(CallType)
  BY DEF TypeOK
<1> QED
  BY <1>1, LenProperties, ElementOfSeq, EmptySeq

(* What the browser asks for goes to the end of its tab's queue.           *)
LEMMA PushFacts ==
  ASSUME TypeOK, NEW b \in Tabs, NEW STATE c, c \in CallType,
         calls' = [calls EXCEPT ![b] = Append(@, c)]
  PROVE  /\ calls' \in [Tabs -> Seq(CallType)]
         /\ Len(calls'[b]) = Len(calls[b]) + 1 /\ calls'[b][Len(calls'[b])] = c
         /\ \A i \in 1..Len(calls[b]) : calls'[b][i] = calls[b][i]
         /\ \A a \in Tabs : a # b => calls'[a] = calls[a]
<1>1. calls \in [Tabs -> Seq(CallType)]
  BY DEF TypeOK
<1>2. calls[b] \in Seq(CallType)
  BY <1>1
<1>3. /\ Append(calls[b], c) \in Seq(CallType)
      /\ Len(Append(calls[b], c)) = Len(calls[b]) + 1
      /\ Append(calls[b], c)[Len(calls[b]) + 1] = c
      /\ \A i \in 1..Len(calls[b]) : Append(calls[b], c)[i] = calls[b][i]
  BY <1>2, AppendProperties
<1> QED
  BY <1>1, <1>3

(* The server answers the head of a queue and touches nothing else in it.  *)
LEMMA HeadFacts ==
  ASSUME TypeOK, NEW b \in Tabs, calls[b] # <<>>, NEW STATE g, g \in CallType,
         calls' = [calls EXCEPT ![b] = [calls[b] EXCEPT ![1] = g]]
  PROVE  /\ calls' \in [Tabs -> Seq(CallType)]
         /\ \A a \in Tabs : \A i \in 1..Len(calls'[a]) :
              /\ i \in 1..Len(calls[a])
              /\ a = b /\ i = 1 => calls'[a][i] = g
              /\ ~(a = b /\ i = 1) => calls'[a][i] = calls[a][i]
<1>1. calls \in [Tabs -> Seq(CallType)] /\ calls[b] \in Seq(CallType)
  BY DEF TypeOK
<1>2. 1 \in 1..Len(calls[b])
  BY QueueFacts
<1>3. /\ [calls[b] EXCEPT ![1] = g] \in Seq(CallType)
      /\ Len([calls[b] EXCEPT ![1] = g]) = Len(calls[b])
      /\ \A i \in 1..Len(calls[b]) :
           [calls[b] EXCEPT ![1] = g][i] = IF i = 1 THEN g ELSE calls[b][i]
  BY <1>1, <1>2, ExceptSeq
<1> QED
  BY <1>1, <1>3

(* The head leaves; the others move up.                                    *)
LEMMA PopFacts ==
  ASSUME TypeOK, NEW b \in Tabs, calls[b] # <<>>,
         calls' = [calls EXCEPT ![b] = Tail(@)]
  PROVE  /\ calls' \in [Tabs -> Seq(CallType)] /\ Len(calls'[b]) = Len(calls[b]) - 1
         /\ \A i \in 1..Len(calls'[b]) :
              i + 1 \in 1..Len(calls[b]) /\ calls'[b][i] = calls[b][i + 1]
         /\ \A a \in Tabs : a # b => calls'[a] = calls[a]
<1>1. calls \in [Tabs -> Seq(CallType)] /\ calls[b] \in Seq(CallType)
  BY DEF TypeOK
<1>2. /\ Tail(calls[b]) \in Seq(CallType) /\ Len(Tail(calls[b])) = Len(calls[b]) - 1
      /\ \A i \in 1..Len(Tail(calls[b])) : Tail(calls[b])[i] = calls[b][i + 1]
  BY <1>1, HeadTailProperties
<1>3. Len(calls[b]) \in Nat
  BY QueueFacts
<1> QED
  BY <1>1, <1>2, <1>3

(* A publication whose save was taken joins the end of the queue.          *)
LEMMA RotateFacts ==
  ASSUME TypeOK, NEW b \in Tabs, calls[b] # <<>>, NEW STATE c, c \in CallType,
         calls' = [calls EXCEPT ![b] = Append(Tail(@), c)]
  PROVE  /\ calls' \in [Tabs -> Seq(CallType)] /\ Len(calls'[b]) = Len(calls[b])
         /\ calls'[b][Len(calls[b])] = c
         /\ \A i \in 1..Len(calls[b]) : i # Len(calls[b]) =>
              i + 1 \in 1..Len(calls[b]) /\ calls'[b][i] = calls[b][i + 1]
         /\ \A a \in Tabs : a # b => calls'[a] = calls[a]
<1>1. calls \in [Tabs -> Seq(CallType)] /\ calls[b] \in Seq(CallType)
  BY DEF TypeOK
<1> DEFINE t == Tail(calls[b])
<1>2. /\ t \in Seq(CallType) /\ Len(t) = Len(calls[b]) - 1
      /\ \A i \in 1..Len(t) : t[i] = calls[b][i + 1]
  BY <1>1, HeadTailProperties
<1>3. Len(calls[b]) \in Nat /\ 1 \in 1..Len(calls[b])
  BY QueueFacts
<1>4. calls' = [calls EXCEPT ![b] = Append(t, c)]
  BY <1>1
<1> HIDE DEF t
<1>5. /\ Append(t, c) \in Seq(CallType) /\ Len(Append(t, c)) = Len(t) + 1
      /\ Append(t, c)[Len(t) + 1] = c
      /\ \A i \in 1..Len(t) : Append(t, c)[i] = t[i]
  BY <1>2, AppendProperties
<1>6. calls'[b] = Append(t, c)
  BY <1>1, <1>4
<1> QED
  BY <1>1, <1>2, <1>3, <1>4, <1>5, <1>6

-----------------------------------------------------------------------------
LEMMA PanelStarts == Init => PanelInv
<1> SUFFICES ASSUME Init PROVE PanelInv
  OBVIOUS
<1>1. /\ <<First>> \in Seq(Texts) /\ Len(<<First>>) = 1
      /\ <<>> \in Seq(CallType) /\ Len(<<>>) = 0
  BY PanelAssumption
<1>2. Props \in [count : 1..MaxVersions, live : [Locales -> 1..MaxVersions],
                 shown : SUBSET Locales]
  BY <1>1, PanelAssumption DEF Init, Props
<1>3. TypeOK
  BY <1>1, <1>2, PanelAssumption DEF Init, TypeOK, NoKey
<1>4. ASSUME NEW b \in Tabs PROVE 1..Len(calls[b]) = {} /\ text[b] = stored[b]
  <2>1. calls[b] = <<>> /\ text[b] = First /\ stored[b] = First
    BY DEF Init
  <2> QED
    BY <1>1, <2>1
<1> QED
  BY <1>3, <1>4 DEF PanelInv, CallInv, RestoreInv, ScreenInv, ConfirmInv

(* Every click that starts a run: what it asks for is unanswered, holds    *)
(* the text on the screen, and is a restoration only in an empty queue.    *)
LEMMA StartKeeps ==
  ASSUME PanelInv, NEW b \in Tabs, NEW key, NEW op \in Ops \ {"publish"},
         NEW l \in Locales \union {"none"}, NEW v \in 0..MaxVersions,
         key \in ({"none"} \union Ops) \X (Locales \union {"none"}),
         op # "save" => l \in Locales,
         op = "restore" => v # 0 /\ calls[b] = <<>>,
         Start(b, key, Call(b, op, l, v))
  PROVE  PanelInv'
<1> DEFINE c == Call(b, op, l, v)
           n == Len(calls[b])
<1>1. TypeOK /\ CallInv /\ RestoreInv /\ ScreenInv /\ ConfirmInv
  BY DEF PanelInv
<1>2. /\ c \in CallType /\ c.op = op /\ c.locale = l /\ c.version = v
      /\ c.run = runs + 1 /\ c.text = text[b] /\ ~c.answered /\ c.mark = saves
  BY <1>1, PanelAssumption DEF Call, CallType, TypeOK, Start, Ops
<1>3. /\ runs' = runs + 1 /\ runs' \in 0..MaxRuns /\ runs \in Nat /\ saves \in Nat
      /\ calls' = [calls EXCEPT ![b] = Append(@, c)]
      /\ UNCHANGED <<server, text, dirty, props, history, edits>>
  BY <1>1, PanelAssumption DEF Start, TypeOK
<1> HIDE DEF c
<1>4. /\ calls' \in [Tabs -> Seq(CallType)]
      /\ Len(calls'[b]) = n + 1 /\ calls'[b][n + 1] = c
      /\ \A i \in 1..n : calls'[b][i] = calls[b][i]
      /\ \A a \in Tabs : a # b => calls'[a] = calls[a]
  <2>1. TypeOK /\ c \in CallType /\ calls' = [calls EXCEPT ![b] = Append(@, c)]
    BY <1>1, <1>2, <1>3
  <2>2. /\ calls' \in [Tabs -> Seq(CallType)]
        /\ Len(calls'[b]) = Len(calls[b]) + 1 /\ calls'[b][Len(calls'[b])] = c
        /\ \A i \in 1..Len(calls[b]) : calls'[b][i] = calls[b][i]
        /\ \A a \in Tabs : a # b => calls'[a] = calls[a]
    BY ONLY <2>1, PushFacts, b \in Tabs
  <2> QED
    BY <2>2
<1>5. n \in Nat /\ (calls[b] = <<>> => n = 0)
  BY <1>1, QueueFacts, EmptySeq
<1>6. TypeOK'
  BY <1>1, <1>3, <1>4 DEF TypeOK, Start, server, history
<1> HIDE DEF n
<1>7. \A a \in Tabs : \A i \in 1..Len(calls'[a]) :
        (i \in 1..Len(calls[a]) /\ calls'[a][i] = calls[a][i])
        \/ (a = b /\ i = n + 1 /\ calls'[a][i] = c)
  BY <1>4, <1>5 DEF n
<1>8. \A a \in Tabs : \A i \in 1..Len(calls[a]) : calls[a][i].run \in Nat
  <2> SUFFICES ASSUME NEW a \in Tabs, NEW i \in 1..Len(calls[a])
               PROVE  calls[a][i].run \in Nat
    OBVIOUS
  <2>1. calls[a][i] \in CallType
    BY <1>1, QueueFacts
  <2> QED
    BY <2>1, PanelAssumption DEF CallType
<1>9. CallInv'
  <2> SUFFICES ASSUME NEW a \in Tabs, NEW i \in 1..Len(calls'[a])
               PROVE  LET d == calls'[a][i] IN
                      /\ d.op # "save" => d.locale \in Locales
                      /\ d.op = "restore" => d.version # 0
                      /\ i # 1 => ~d.answered
                      /\ d.run <= runs + 1 /\ d.mark <= saves
    BY <1>3 DEF CallInv, history
  <2>1. CASE i \in 1..Len(calls[a]) /\ calls'[a][i] = calls[a][i]
    BY <1>1, <1>3, <1>8, <2>1 DEF CallInv
  <2>2. CASE a = b /\ i = n + 1 /\ calls'[a][i] = c
    BY <1>2, <1>3, <2>2
  <2> QED
    BY <1>7, <2>1, <2>2
<1>10. RestoreInv'
  <2> SUFFICES ASSUME NEW a \in Tabs, NEW i \in 1..Len(calls'[a])
               PROVE  /\ calls'[a][i].op = "restore" => i = 1
                      /\ calls'[a][1].op = "restore" /\ i # 1 =>
                           calls'[a][1].run < calls'[a][i].run
    BY DEF RestoreInv
  <2>1. CASE a # b
    BY <1>1, <1>4, <2>1 DEF RestoreInv
  <2>2. CASE a = b /\ n = 0
    <3>1. Len(calls'[a]) = 1
      BY <1>4, <2>2
    <3>2. i = 1
      BY <3>1
    <3> QED
      BY <3>2
  <2>3. CASE a = b /\ n # 0
    <3>1. 1 \in 1..n /\ calls'[a][1] = calls[a][1]
          /\ calls[a][1].run \in Nat /\ calls[a][1].run <= runs /\ op # "restore"
      BY <1>1, <1>4, <1>5, <1>8, <2>3 DEF CallInv, n
    <3> QED
      BY <1>1, <1>2, <1>3, <1>7, <2>3, <3>1 DEF RestoreInv, n
  <2> QED
    BY <1>5, <2>1, <2>2, <2>3
<1>11. ScreenInv'
  BY <1>1, <1>2, <1>3, <1>7 DEF ScreenInv, Taken, history, n
<1>12. ConfirmInv'
  BY <1>1, <1>2, <1>3, <1>7 DEF ConfirmInv, server, history, n
<1> QED
  BY <1>6, <1>9, <1>10, <1>11, <1>12 DEF PanelInv

(* The server answers the head of a queue. Only a save that is taken       *)
(* changes the draft, to the text the run holds; the others keep the mark  *)
(* their run got from its save.                                            *)
LEMMA AnswerKeeps ==
  ASSUME PanelInv, TypeOK', NEW b \in Tabs, calls[b] # <<>>,
         NEW STATE g, g \in CallType,
         calls' = [calls EXCEPT ![b] = [calls[b] EXCEPT ![1] = g]],
         ~calls[b][1].answered, g.answered,
         g.op = calls[b][1].op, g.locale = calls[b][1].locale,
         g.version = calls[b][1].version, g.run = calls[b][1].run,
         g.text = calls[b][1].text,
         UNCHANGED <<text, dirty, late, runs>>,
         \/ /\ UNCHANGED <<draft, stored, saves>>
            /\ \/ g.op \in {"save", "first"} /\ ~g.ok /\ g.mark = saves
               \/ g.op \notin {"save", "first"} /\ g.mark = calls[b][1].mark
         \/ /\ g.op \in {"save", "first"} /\ g.mark = saves + 1
            /\ draft' = g.text /\ saves' = saves + 1
            /\ stored' = [stored EXCEPT ![b] = g.text]
  PROVE  PanelInv'
<1> DEFINE h == calls[b][1]
<1>1. TypeOK /\ CallInv /\ RestoreInv /\ ScreenInv /\ ConfirmInv
  BY DEF PanelInv
<1>2. 1 \in 1..Len(calls[b]) /\ h \in CallType
  BY <1>1, QueueFacts
<1>3. \A a \in Tabs : \A i \in 1..Len(calls'[a]) :
        /\ i \in 1..Len(calls[a])
        /\ a = b /\ i = 1 => calls'[a][i] = g
        /\ ~(a = b /\ i = 1) => calls'[a][i] = calls[a][i]
  <2>1. TypeOK
    BY <1>1
  <2> QED
    BY ONLY <2>1, HeadFacts, b \in Tabs, calls[b] # <<>>, g \in CallType,
            calls' = [calls EXCEPT ![b] = [calls[b] EXCEPT ![1] = g]]
<1>4. \A a \in Tabs : \A i \in 1..Len(calls[a]) :
        /\ calls[a][i] \in CallType
        /\ calls[a][i].mark \in Nat /\ calls[a][i].mark <= saves
  <2> SUFFICES ASSUME NEW a \in Tabs, NEW i \in 1..Len(calls[a])
               PROVE  calls[a][i] \in CallType /\ calls[a][i].mark \in Nat
                      /\ calls[a][i].mark <= saves
    OBVIOUS
  <2>1. calls[a][i] \in CallType
    BY <1>1, QueueFacts
  <2> QED
    BY <1>1, <2>1 DEF CallInv, CallType
<1>5. saves \in Nat /\ saves' \in Nat /\ saves <= saves' /\ g.mark \in Nat
      /\ g.mark <= saves'
  BY <1>1, <1>2, <1>4 DEF TypeOK
<1>6. CallInv'
  <2> SUFFICES ASSUME NEW a \in Tabs, NEW i \in 1..Len(calls'[a])
               PROVE  LET d == calls'[a][i] IN
                      /\ d.op # "save" => d.locale \in Locales
                      /\ d.op = "restore" => d.version # 0
                      /\ i # 1 => ~d.answered
                      /\ d.run <= runs /\ d.mark <= saves'
    BY DEF CallInv
  <2>1. CASE a = b /\ i = 1
    BY <1>1, <1>2, <1>3, <1>5, <2>1 DEF CallInv
  <2>2. CASE ~(a = b /\ i = 1)
    BY <1>1, <1>3, <1>4, <1>5, <2>2 DEF CallInv
  <2> QED
    BY <2>1, <2>2
<1>7. RestoreInv'
  BY <1>1, <1>3 DEF RestoreInv
<1>8. ScreenInv'
  <2> SUFFICES ASSUME NEW a \in Tabs, ~late[a]
               PROVE  /\ ~dirty[a] => text[a] = stored'[a]
                      /\ \A i \in 1..Len(calls'[a]) :
                           /\ calls'[a][i].text = text[a]
                           /\ Taken(calls'[a][i]) => stored'[a] = text[a]
    BY DEF ScreenInv, Taken
  <2>1. CASE a # b
    <3>1. stored'[a] = stored[a]
      BY <1>1, <2>1 DEF TypeOK
    <3> QED
      BY <1>1, <1>3, <2>1, <3>1 DEF ScreenInv
  <2>2. CASE a = b /\ UNCHANGED <<draft, stored, saves>>
    <3>1. g.text = text[b] /\ (Taken(g) => Taken(h))
      BY <1>1, <1>2, <1>5, <2>2 DEF ScreenInv, Taken
    <3> QED
      BY <1>1, <1>2, <1>3, <2>2, <3>1 DEF ScreenInv
  <2>3. CASE a = b /\ stored' = [stored EXCEPT ![b] = g.text]
    <3>1. stored'[b] = text[b] /\ g.text = text[b]
      BY <1>1, <1>2, <2>3 DEF TypeOK, ScreenInv
    <3> QED
      BY <1>1, <1>3, <2>3, <3>1 DEF ScreenInv
  <2> QED
    BY <2>1, <2>2, <2>3
<1>9. ConfirmInv'
  <2> SUFFICES ASSUME NEW a \in Tabs, NEW i \in 1..Len(calls'[a]),
                      calls'[a][i].op = "publish"
                      \/ (calls'[a][i].op = "first" /\ calls'[a][i].answered
                                                    /\ calls'[a][i].ok)
               PROVE  draft' = calls'[a][i].text \/ saves' > calls'[a][i].mark
    BY DEF ConfirmInv
  <2>1. CASE a = b /\ i = 1
    BY <1>1, <1>2, <1>3, <2>1 DEF ConfirmInv
  <2>2. CASE ~(a = b /\ i = 1)
    BY <1>1, <1>3, <1>4, <1>5, <2>2 DEF ConfirmInv
  <2> QED
    BY <2>1, <2>2
<1> QED
  BY <1>6, <1>7, <1>8, <1>9 DEF PanelInv

LEMMA SaveDraftKeeps == ASSUME PanelInv, NEW b \in Tabs, SaveDraft(b)
                        PROVE  PanelInv'
<1>1. TypeOK /\ CallInv
  BY DEF PanelInv
<1>2. /\ calls[b] # <<>> /\ ~calls[b][1].answered
      /\ calls[b][1].op \in {"save", "first"}
      /\ UNCHANGED <<versions, pointer, onSite, text, dirty, props, busyKey,
                     late, runs, edits>>
  BY DEF SaveDraft, Asked
<1>3. /\ calls[b][1] \in CallType /\ 1 \in 1..Len(calls[b])
      /\ calls[b][1].text \in Texts /\ saves \in Nat /\ saves + 1 \in Nat
  <2>1. calls[b][1] \in CallType /\ 1 \in 1..Len(calls[b])
    BY <1>1, <1>2, QueueFacts
  <2>2. saves \in Nat
    BY <1>1 DEF TypeOK
  <2> QED
    BY <2>1, <2>2 DEF CallType
<1>4. calls \in [Tabs -> Seq(CallType)] /\ calls[b] \in Seq(CallType)
  BY <1>1 DEF TypeOK
<1>5. CASE Answer(b, TRUE, saves + 1) /\ draft' = calls[b][1].text
           /\ saves' = saves + 1 /\ stored' = [stored EXCEPT ![b] = calls[b][1].text]
  <2> DEFINE g == [calls[b][1] EXCEPT !.answered = TRUE, !.ok = TRUE,
                                      !.mark = saves + 1]
  <2>1. /\ g \in CallType /\ g.answered /\ g.mark = saves + 1
        /\ g.op = calls[b][1].op /\ g.locale = calls[b][1].locale
        /\ g.version = calls[b][1].version /\ g.run = calls[b][1].run
        /\ g.text = calls[b][1].text
    BY <1>3 DEF CallType
  <2>2. calls' = [calls EXCEPT ![b] = [calls[b] EXCEPT ![1] = g]]
    BY <1>4, <1>3, <1>5 DEF Answer, CallType
  <2> HIDE DEF g
  <2>3. calls' \in [Tabs -> Seq(CallType)]
    BY <1>1, <1>2, <2>1, <2>2, HeadFacts
  <2>4. TypeOK'
    <3>1. draft' \in Texts /\ saves' \in Nat /\ stored' \in [Tabs -> Texts]
      BY <1>1, <1>3, <1>5 DEF TypeOK
    <3> QED
      BY <1>1, <1>2, <2>3, <3>1 DEF TypeOK
  <2> QED
    BY <1>2, <1>5, <2>1, <2>4, <2>2, AnswerKeeps
<1>6. CASE Answer(b, FALSE, saves) /\ UNCHANGED <<draft, saves, stored>>
  <2> DEFINE g == [calls[b][1] EXCEPT !.answered = TRUE, !.ok = FALSE, !.mark = saves]
  <2>1. /\ g \in CallType /\ g.answered /\ ~g.ok /\ g.mark = saves
        /\ g.op = calls[b][1].op /\ g.locale = calls[b][1].locale
        /\ g.version = calls[b][1].version /\ g.run = calls[b][1].run
        /\ g.text = calls[b][1].text
    BY <1>3 DEF CallType
  <2>2. calls' = [calls EXCEPT ![b] = [calls[b] EXCEPT ![1] = g]]
    BY <1>4, <1>3, <1>6 DEF Answer, CallType
  <2> HIDE DEF g
  <2>3. calls' \in [Tabs -> Seq(CallType)]
    BY <1>1, <1>2, <2>1, <2>2, HeadFacts
  <2>4. TypeOK'
    BY <1>1, <1>2, <1>6, <2>3 DEF TypeOK
  <2> QED
    BY <1>2, <1>6, <2>1, <2>4, <2>2, AnswerKeeps
<1> QED
  BY <1>5, <1>6 DEF SaveDraft

(* Publication, its withdrawal and a restoration leave the draft alone.    *)
LEMMA OtherAnswerKeeps ==
  ASSUME PanelInv, NEW b \in Tabs,
         PublishDocument(b) \/ UnpublishDocument(b) \/ RollbackDocument(b)
  PROVE  PanelInv'
<1> DEFINE h == calls[b][1]
           g == [calls[b][1] EXCEPT !.answered = TRUE, !.ok = TRUE, !.mark = h.mark]
<1>1. TypeOK /\ CallInv
  BY DEF PanelInv
<1>2. /\ calls[b] # <<>> /\ ~h.answered /\ h.op \in {"publish", "unpublish", "restore"}
      /\ UNCHANGED <<draft, text, dirty, props, busyKey, history, runs, edits>>
  BY DEF PublishDocument, UnpublishDocument, RollbackDocument, Asked
<1>3. /\ h \in CallType /\ 1 \in 1..Len(calls[b])
      /\ h.mark \in Nat /\ h.locale \in Locales /\ h.version \in 0..MaxVersions
      /\ (h.op = "restore" => h.version # 0)
  BY <1>1, <1>2, QueueFacts DEF CallInv, CallType
<1>4. calls' = [calls EXCEPT ![b][1].answered = TRUE, ![b][1].ok = TRUE,
                             ![b][1].mark = h.mark]
  BY DEF PublishDocument, UnpublishDocument, RollbackDocument, Answer
<1>5. /\ g \in CallType /\ g.answered /\ g.mark = h.mark
      /\ g.op = h.op /\ g.locale = h.locale /\ g.version = h.version
      /\ g.run = h.run /\ g.text = h.text
  BY <1>3 DEF CallType
<1>6. calls \in [Tabs -> Seq(CallType)] /\ calls[b] \in Seq(CallType)
  BY <1>1 DEF TypeOK
<1>7. calls' = [calls EXCEPT ![b] = [calls[b] EXCEPT ![1] = g]]
  BY <1>6, <1>3, <1>4 DEF CallType
<1> HIDE DEF g
<1>8. calls' \in [Tabs -> Seq(CallType)]
  BY <1>1, <1>2, <1>5, <1>7, HeadFacts
<1>9. TypeOK'
  <2>1. CASE PublishDocument(b)
    <3>1. /\ Append(versions, draft) \in Seq(Texts)
          /\ Len(Append(versions, draft)) = Len(versions) + 1
      BY <1>1, AppendProperties DEF TypeOK
    <3>2. Len(versions) + 1 \in 1..MaxVersions
      BY <1>1, <2>1, PanelAssumption DEF TypeOK, PublishDocument
    <3> QED
      BY <1>1, <1>2, <1>3, <1>8, <2>1, <3>1, <3>2
      DEF TypeOK, PublishDocument, history
  <2>2. CASE UnpublishDocument(b)
    BY <1>1, <1>2, <1>3, <1>8, <2>2 DEF TypeOK, UnpublishDocument, history
  <2>3. CASE RollbackDocument(b)
    <3>1. h.version \in 1..MaxVersions
      BY <1>3, <2>3, PanelAssumption DEF RollbackDocument, Asked
    <3> QED
      BY <1>1, <1>2, <1>3, <1>8, <2>3, <3>1 DEF TypeOK, RollbackDocument, history
  <2> QED
    BY <2>1, <2>2, <2>3
<1> QED
  BY <1>2, <1>5, <1>9, <1>7, AnswerKeeps DEF history

(* The head has been heard of and leaves: the screen settles only on a     *)
(* save that was taken or a publication, so what it shows is stored.       *)
LEMMA EndKeeps ==
  ASSUME PanelInv, NEW b \in Tabs, End(b) \/ Throw(b)
  PROVE  PanelInv'
<1> DEFINE h == calls[b][1]
<1>1. TypeOK /\ CallInv /\ RestoreInv /\ ScreenInv /\ ConfirmInv
  BY DEF PanelInv
<1>2. /\ calls[b] # <<>> /\ calls' = [calls EXCEPT ![b] = Tail(@)]
      /\ UNCHANGED <<server, text, history, runs, edits>>
      /\ busyKey' = [busyKey EXCEPT ![b] = NoKey]
  BY DEF End, Throw
<1>3. /\ calls' \in [Tabs -> Seq(CallType)] /\ Len(calls'[b]) = Len(calls[b]) - 1
      /\ \A i \in 1..Len(calls'[b]) :
           i + 1 \in 1..Len(calls[b]) /\ calls'[b][i] = calls[b][i + 1]
      /\ \A a \in Tabs : a # b => calls'[a] = calls[a]
  BY <1>1, <1>2, PopFacts
<1>4. 1 \in 1..Len(calls[b]) /\ h \in CallType /\ Len(calls[b]) \in Nat
  BY <1>1, <1>2, QueueFacts
<1>5. /\ dirty' \in [Tabs -> BOOLEAN]
      /\ \A a \in Tabs : ~dirty'[a] => ~dirty[a] \/ (a = b /\ h.answered /\ Settles(h))
  <2>1. CASE End(b)
    BY <1>1, <2>1 DEF End, TypeOK, Settles
  <2>2. CASE Throw(b)
    BY <1>1, <2>2 DEF Throw, TypeOK
  <2> QED
    BY <2>1, <2>2
<1>6. props' \in [Tabs -> [count : 1..MaxVersions, live : [Locales -> 1..MaxVersions],
                           shown : SUBSET Locales]]
  <2>1. Props \in [count : 1..MaxVersions, live : [Locales -> 1..MaxVersions],
                   shown : SUBSET Locales]
    BY <1>1 DEF TypeOK, Props
  <2>2. CASE End(b)
    BY <1>1, <2>1, <2>2 DEF End, TypeOK
  <2>3. CASE Throw(b)
    BY <1>1, <2>3 DEF Throw, TypeOK
  <2> QED
    BY <2>2, <2>3
<1>7. TypeOK'
  BY <1>1, <1>2, <1>3, <1>5, <1>6 DEF TypeOK, server, history, NoKey
<1>8. CallInv'
  <2> SUFFICES ASSUME NEW a \in Tabs, NEW i \in 1..Len(calls'[a])
               PROVE  LET d == calls'[a][i] IN
                      /\ d.op # "save" => d.locale \in Locales
                      /\ d.op = "restore" => d.version # 0
                      /\ i # 1 => ~d.answered
                      /\ d.run <= runs /\ d.mark <= saves
    BY <1>2 DEF CallInv, history
  <2>1. CASE a = b
    BY <1>1, <1>3, <2>1 DEF CallInv
  <2>2. CASE a # b
    BY <1>1, <1>3, <2>2 DEF CallInv
  <2> QED
    BY <2>1, <2>2
<1>9. RestoreInv'
  <2> SUFFICES ASSUME NEW a \in Tabs, NEW i \in 1..Len(calls'[a])
               PROVE  /\ calls'[a][i].op = "restore" => i = 1
                      /\ calls'[a][1].op = "restore" /\ i # 1 =>
                           calls'[a][1].run < calls'[a][i].run
    BY DEF RestoreInv
  <2>1. CASE a # b
    BY <1>1, <1>3, <2>1 DEF RestoreInv
  <2>2. CASE a = b
    <3>1. 1 \in 1..Len(calls'[b])
      BY <1>3, <1>4, <2>2
    <3> QED
      BY <1>1, <1>3, <2>2, <3>1 DEF RestoreInv
  <2> QED
    BY <2>1, <2>2
<1>10. ScreenInv'
  <2> SUFFICES ASSUME NEW a \in Tabs, ~late[a]
               PROVE  /\ ~dirty'[a] => text[a] = stored[a]
                      /\ \A i \in 1..Len(calls'[a]) :
                           /\ calls'[a][i].text = text[a]
                           /\ Taken(calls'[a][i]) => stored[a] = text[a]
    BY <1>2 DEF ScreenInv, Taken, history
  <2>1. ~dirty'[a] => text[a] = stored[a]
    BY <1>1, <1>4, <1>5 DEF ScreenInv, Taken, Settles
  <2>2. \A i \in 1..Len(calls'[a]) : \E j \in 1..Len(calls[a]) :
          calls'[a][i] = calls[a][j]
    BY <1>3
  <2> QED
    BY <1>1, <2>1, <2>2 DEF ScreenInv
<1>11. ConfirmInv'
  <2>1. \A a \in Tabs : \A i \in 1..Len(calls'[a]) : \E j \in 1..Len(calls[a]) :
          calls'[a][i] = calls[a][j]
    BY <1>3
  <2> QED
    BY <1>1, <1>2, <2>1 DEF ConfirmInv, server, history
<1> QED
  BY <1>7, <1>8, <1>9, <1>10, <1>11 DEF PanelInv

(* A publication whose save was taken goes to the end of the queue.        *)
LEMMA ContinueKeeps ==
  ASSUME PanelInv, NEW b \in Tabs, Continue(b)
  PROVE  PanelInv'
<1> DEFINE h == calls[b][1]
           g == [h EXCEPT !.op = "publish", !.answered = FALSE, !.ok = FALSE]
           n == Len(calls[b])
<1>1. TypeOK /\ CallInv /\ RestoreInv /\ ScreenInv /\ ConfirmInv
  BY DEF PanelInv
<1>2. /\ calls[b] # <<>> /\ h.answered /\ h.op = "first" /\ h.ok
      /\ calls' = [calls EXCEPT ![b] = Append(Tail(@), g)]
      /\ UNCHANGED <<server, text, dirty, props, busyKey, history, runs, edits>>
  BY DEF Continue, GoesOn
<1>3. h \in CallType /\ 1 \in 1..n /\ n \in Nat
  BY <1>1, <1>2, QueueFacts
<1>4. /\ g \in CallType /\ g.op = "publish" /\ ~g.answered /\ g.locale = h.locale
      /\ g.version = h.version /\ g.run = h.run /\ g.text = h.text /\ g.mark = h.mark
  BY <1>3 DEF CallType, Ops
<1> HIDE DEF g
<1>5. /\ calls' \in [Tabs -> Seq(CallType)] /\ Len(calls'[b]) = n
      /\ calls'[b][n] = g
      /\ \A i \in 1..n : i # n => i + 1 \in 1..n /\ calls'[b][i] = calls[b][i + 1]
      /\ \A a \in Tabs : a # b => calls'[a] = calls[a]
  BY <1>1, <1>2, <1>4, RotateFacts
<1>6. TypeOK'
  BY <1>1, <1>2, <1>5 DEF TypeOK, server, history
<1> HIDE DEF h, n
<1>7. \A i \in 1..n : calls[b][i].op # "restore"
  BY <1>1, <1>2 DEF RestoreInv, h, n
<1>8. CallInv'
  <2> SUFFICES ASSUME NEW a \in Tabs, NEW i \in 1..Len(calls'[a])
               PROVE  LET d == calls'[a][i] IN
                      /\ d.op # "save" => d.locale \in Locales
                      /\ d.op = "restore" => d.version # 0
                      /\ i # 1 => ~d.answered
                      /\ d.run <= runs /\ d.mark <= saves
    BY <1>2 DEF CallInv, history
  <2>1. CASE a # b
    BY <1>1, <1>5, <2>1 DEF CallInv
  <2>2. CASE a = b /\ i = n
    <3>1. h.locale \in Locales /\ h.run <= runs /\ h.mark <= saves
      BY <1>1, <1>2, <1>3 DEF CallInv, h, n
    <3> QED
      BY <1>4, <1>5, <2>2, <3>1
  <2>3. CASE a = b /\ i # n
    <3>1. i + 1 \in 1..n /\ calls'[b][i] = calls[b][i + 1] /\ i + 1 # 1
      BY <1>3, <1>5, <2>3
    <3> QED
      BY <1>1, <2>3, <3>1 DEF CallInv, n
  <2> QED
    BY <2>1, <2>2, <2>3
<1>9. RestoreInv'
  <2> SUFFICES ASSUME NEW a \in Tabs, NEW i \in 1..Len(calls'[a])
               PROVE  /\ calls'[a][i].op = "restore" => i = 1
                      /\ calls'[a][1].op = "restore" /\ i # 1 =>
                           calls'[a][1].run < calls'[a][i].run
    BY DEF RestoreInv
  <2>1. CASE a # b
    BY <1>1, <1>5, <2>1 DEF RestoreInv
  <2>2. CASE a = b
    <3>1. \A j \in 1..n : calls'[b][j].op # "restore"
      BY <1>4, <1>5, <1>7
    <3> QED
      BY <1>3, <1>5, <2>2, <3>1
  <2> QED
    BY <2>1, <2>2
<1>10. \A a \in Tabs : \A i \in 1..Len(calls'[a]) :
         \/ a = b /\ calls'[a][i] = g
         \/ \E j \in 1..Len(calls[a]) : calls'[a][i] = calls[a][j]
  BY <1>5 DEF n
<1>11. ScreenInv'
  <2> SUFFICES ASSUME NEW a \in Tabs, ~late[a]
               PROVE  /\ ~dirty[a] => text[a] = stored[a]
                      /\ \A i \in 1..Len(calls'[a]) :
                           /\ calls'[a][i].text = text[a]
                           /\ Taken(calls'[a][i]) => stored[a] = text[a]
    BY <1>2 DEF ScreenInv, Taken, history
  <2>1. a = b => g.text = text[a] /\ stored[a] = text[a]
    BY <1>1, <1>2, <1>3, <1>4 DEF ScreenInv, Taken, h, n
  <2> QED
    BY <1>1, <1>10, <2>1 DEF ScreenInv
<1>12. ConfirmInv'
  <2>1. draft = g.text \/ saves > g.mark
    BY <1>1, <1>2, <1>3, <1>4 DEF ConfirmInv, h, n
  <2> QED
    BY <1>1, <1>2, <1>10, <2>1 DEF ConfirmInv, server, history
<1> QED
  BY <1>6, <1>8, <1>9, <1>11, <1>12 DEF PanelInv

(* Typing and reloading leave the queue alone.                             *)
LEMMA EditKeeps ==
  ASSUME PanelInv, NEW b \in Tabs, NEW t \in Texts, Edit(b, t)
  PROVE  PanelInv'
<1>1. TypeOK /\ CallInv /\ RestoreInv /\ ScreenInv /\ ConfirmInv
  BY DEF PanelInv
<1>2. /\ text' = [text EXCEPT ![b] = t] /\ dirty' = [dirty EXCEPT ![b] = TRUE]
      /\ edits' = edits + 1 /\ edits < MaxEdits
      /\ UNCHANGED <<server, props, busyKey, calls, stored, saves, runs>>
  BY DEF Edit
<1>3. late' \in [Tabs -> BOOLEAN]
      /\ (\A a \in Tabs \ {b} : late'[a] = late[a])
      /\ (~late'[b] => calls[b] = <<>>)
  <2>1. late' = [late EXCEPT ![b] = calls[b] # <<>>]
    BY DEF Edit
  <2> QED
    BY <1>1, <2>1 DEF TypeOK
<1>4. TypeOK'
  <2>1. edits' \in 0..MaxEdits
    BY <1>1, <1>2, PanelAssumption DEF TypeOK
  <2> QED
    BY <1>1, <1>2, <1>3, <2>1 DEF TypeOK, server
<1>5. CallInv' /\ RestoreInv' /\ ConfirmInv'
  BY <1>1, <1>2 DEF CallInv, RestoreInv, ConfirmInv, server
<1>6. ScreenInv'
  <2> SUFFICES ASSUME NEW a \in Tabs, ~late'[a]
               PROVE  /\ ~dirty'[a] => text'[a] = stored[a]
                      /\ \A i \in 1..Len(calls[a]) :
                           /\ calls[a][i].text = text'[a]
                           /\ Taken(calls[a][i]) => stored[a] = text'[a]
    BY <1>2 DEF ScreenInv, Taken
  <2>1. CASE a = b
    <3>1. Len(calls[b]) = 0 /\ dirty'[b]
      BY <1>1, <1>2, <1>3, <2>1, EmptySeq DEF TypeOK
    <3> QED
      BY <2>1, <3>1
  <2>2. CASE a # b
    BY <1>1, <1>2, <1>3, <2>2 DEF ScreenInv, TypeOK
  <2> QED
    BY <2>1, <2>2
<1> QED
  BY <1>4, <1>5, <1>6 DEF PanelInv

LEMMA ReloadKeeps ==
  ASSUME PanelInv, NEW b \in Tabs, Reload(b)
  PROVE  PanelInv'
<1>1. TypeOK /\ CallInv /\ RestoreInv /\ ScreenInv /\ ConfirmInv
  BY DEF PanelInv
<1>2. /\ calls[b] = <<>> /\ props' = [props EXCEPT ![b] = Props]
      /\ text' = [text EXCEPT ![b] = draft] /\ dirty' = [dirty EXCEPT ![b] = FALSE]
      /\ stored' = [stored EXCEPT ![b] = draft] /\ late' = [late EXCEPT ![b] = FALSE]
      /\ UNCHANGED <<server, busyKey, calls, saves, runs, edits>>
  BY DEF Reload
<1>3. Props \in [count : 1..MaxVersions, live : [Locales -> 1..MaxVersions],
                 shown : SUBSET Locales]
  BY <1>1 DEF TypeOK, Props
<1>4. TypeOK'
  BY <1>1, <1>2, <1>3 DEF TypeOK, server
<1>5. CallInv' /\ RestoreInv' /\ ConfirmInv'
  BY <1>1, <1>2 DEF CallInv, RestoreInv, ConfirmInv, server
<1>6. ScreenInv'
  <2> SUFFICES ASSUME NEW a \in Tabs, ~late'[a]
               PROVE  /\ ~dirty'[a] => text'[a] = stored'[a]
                      /\ \A i \in 1..Len(calls[a]) :
                           /\ calls[a][i].text = text'[a]
                           /\ Taken(calls[a][i]) => stored'[a] = text'[a]
    BY <1>2 DEF ScreenInv, Taken
  <2>1. CASE a = b
    <3>1. Len(calls[b]) = 0 /\ text'[b] = stored'[b]
      BY <1>1, <1>2, EmptySeq DEF TypeOK
    <3> QED
      BY <2>1, <3>1
  <2>2. CASE a # b
    BY <1>1, <1>2, <2>2 DEF ScreenInv, TypeOK
  <2> QED
    BY <2>1, <2>2
<1> QED
  BY <1>4, <1>5, <1>6 DEF PanelInv

LEMMA ClickKeeps ==
  ASSUME PanelInv, NEW b \in Tabs, Click(b)
  PROVE  PanelInv'
<1>1. 0 \in 0..MaxVersions /\ {"save", "first", "unpublish", "restore"} = Ops \ {"publish"}
      /\ \A op \in Ops : \A l \in Locales \union {"none"} :
           <<op, l>> \in ({"none"} \union Ops) \X (Locales \union {"none"})
  BY PanelAssumption DEF Ops
<1>2. CASE Reload(b)
  BY <1>2, ReloadKeeps
<1>3. ASSUME NEW t \in Texts, Edit(b, t) PROVE PanelInv'
  BY <1>3, EditKeeps
<1>4. CASE Save(b)
  BY <1>1, <1>4, StartKeeps DEF Save
<1>5. ASSUME NEW l \in Locales, Publish(b, l) PROVE PanelInv'
  <2>1. /\ "first" \in Ops \ {"publish"} /\ l \in Locales \union {"none"}
        /\ <<"publish", l>> \in ({"none"} \union Ops) \X (Locales \union {"none"})
        /\ Start(b, <<"publish", l>>, Call(b, "first", l, 0))
    BY <1>1, <1>5 DEF Publish, Ops
  <2> QED
    BY <1>1, <1>5, <2>1, StartKeeps
<1>6. ASSUME NEW l \in Locales, Unpublish(b, l) PROVE PanelInv'
  BY <1>1, <1>6, StartKeeps DEF Unpublish
<1>7. ASSUME NEW l \in Locales, NEW v \in 1..MaxVersions, Restore(b, v, l)
      PROVE  PanelInv'
  <2>1. v \in 0..MaxVersions /\ v # 0 /\ calls[b] = <<>>
    BY <1>7 DEF Restore, HistoryEnabled, Pending
  <2> QED
    BY <1>7, <2>1, StartKeeps DEF Restore, Ops
<1> QED
  BY <1>2, <1>3, <1>4, <1>5, <1>6, <1>7 DEF Click

LEMMA PanelKeeps == PanelInv /\ [Next]_vars => PanelInv'
<1> SUFFICES ASSUME PanelInv, [Next]_vars PROVE PanelInv'
  OBVIOUS
<1>1. CASE UNCHANGED vars
  BY <1>1 DEF PanelInv, TypeOK, CallInv, RestoreInv, ScreenInv, Taken, ConfirmInv,
              vars, server, screen, history
<1>2. ASSUME NEW b \in Tabs, Click(b) PROVE PanelInv'
  BY <1>2, ClickKeeps
<1>3. ASSUME NEW b \in Tabs, Serve(b) PROVE PanelInv'
  BY <1>3, SaveDraftKeeps, OtherAnswerKeeps DEF Serve
<1>4. ASSUME NEW b \in Tabs, Hear(b) PROVE PanelInv'
  BY <1>4, ContinueKeeps, EndKeeps DEF Hear
<1> QED
  BY <1>1, <1>2, <1>3, <1>4 DEF Next

-----------------------------------------------------------------------------
(* The editor on the screen, or the lists: a step of the lists leaves the  *)
(* editor as it is.                                                        *)
THEOREM EditorInductive == ScreensSpec => []PanelInv
<1>1. ScreensInit => PanelInv
  BY PanelStarts DEF ScreensInit
<1>2. PanelInv /\ [ScreensNext]_<<vars, listVars, open>> => PanelInv'
  <2>1. [ScreensNext]_<<vars, listVars, open>> => [Next]_vars
    BY DEF ScreensNext
  <2> QED
    BY <2>1, PanelKeeps
<1> QED
  BY <1>1, <1>2, PTL DEF ScreensSpec

(* Types of the editor: calls, screens, frozen revisions and counters.     *)
THEOREM EditorTypes == ScreensSpec => []TypeOK
<1>1. PanelInv => TypeOK
  BY DEF PanelInv
<1> QED
  BY <1>1, EditorInductive, PTL

(* An idle screen without "unsaved changes" shows what the server holds of *)
(* it, unless it was edited while a run was under way (onDone of           *)
(* block-editor.tsx clears the flag without a look at the text).           *)
THEOREM CleanScreenIsStored == ScreensSpec => []CleanMeansStored
<1>1. PanelInv => CleanMeansStored
  BY DEF PanelInv, ScreenInv, CleanMeansStored
<1> QED
  BY <1>1, EditorInductive, PTL

(* No publication waits behind a restoration that was asked for after it:  *)
(* what an editor brought back is not replaced by an earlier click.        *)
THEOREM RestorationStands == ScreensSpec => []RestoreStands
<1>1. PanelInv => RestoreStands
  <2> SUFFICES ASSUME PanelInv, NEW b \in Tabs, NEW i \in DOMAIN calls[b],
                      NEW j \in DOMAIN calls[b], i < j, calls[b][i].op = "restore"
               PROVE  calls[b][i].run < calls[b][j].run
    BY DEF RestoreStands
  <2>1. DOMAIN calls[b] = 1..Len(calls[b])
    BY QueueFacts DEF PanelInv
  <2>2. i = 1 /\ j # 1
    BY <2>1 DEF PanelInv, RestoreInv
  <2> QED
    BY <2>1, <2>2 DEF PanelInv, RestoreInv
<1> QED
  BY <1>1, EditorInductive, PTL

(* A publication makes live what the screen showed at the click, or what a *)
(* later save has stored: never a draft older than the click.              *)
THEOREM PublicationIsConfirmed == ScreensSpec => LiveIsConfirmed
<1>1. ASSUME PanelInv, NEW b \in Tabs, PublishDocument(b)
      PROVE  draft = calls[b][1].text \/ saves > calls[b][1].mark
  <2>1. calls[b] # <<>> /\ calls[b][1].op = "publish"
    BY <1>1 DEF PublishDocument, Asked
  <2>2. 1 \in 1..Len(calls[b])
    BY <1>1, <2>1, QueueFacts DEF PanelInv
  <2> QED
    BY <1>1, <2>1, <2>2 DEF PanelInv, ConfirmInv
<1>2. PanelInv => [\A b \in Tabs : PublishDocument(b) =>
                     draft = calls[b][1].text \/ saves > calls[b][1].mark]_vars
  BY <1>1
<1> QED
  BY <1>2, EditorInductive, PTL DEF LiveIsConfirmed

-----------------------------------------------------------------------------
(* Of finitely many numbers one is the highest.                            *)
LEMMA HighestExists ==
  ASSUME NEW S, IsFiniteSet(S), S # {}, NEW f \in [S -> Nat]
  PROVE  \E m \in S : \A x \in S : f[x] <= f[m]
<1> DEFINE Bad == {T \in SUBSET S : T # {} /\ ~\E m \in T : \A x \in T : f[x] <= f[m]}
<1> SUFFICES ASSUME Bad # {} PROVE FALSE
  OBVIOUS
<1>1. IsWellFoundedOn(StrictSubsetOrdering(S), SUBSET S)
  BY FS_StrictSubsetOrderingWellFounded, FS_FiniteSubsetsOfFinite
<1>2. PICK T \in Bad : \A U \in Bad : ~ (<<U, T>> \in StrictSubsetOrdering(S))
  <2>1. Bad \subseteq SUBSET S
    OBVIOUS
  <2> HIDE DEF Bad
  <2> QED
    BY <1>1, <2>1, WFMin
<1>3. PICK u \in T : TRUE
  BY <1>2
<1>4. <<T \ {u}, T>> \in StrictSubsetOrdering(S)
  BY <1>2, <1>3 DEF StrictSubsetOrdering
<1>5. T \ {u} \notin Bad
  BY <1>2, <1>4
<1>6. CASE T \ {u} = {}
  <2>1. T = {u} /\ f[u] <= f[u]
    BY <1>2, <1>3, <1>6
  <2> QED
    BY <1>2, <2>1
<1>7. CASE T \ {u} # {}
  <2>1. PICK m \in T \ {u} : \A x \in T \ {u} : f[x] <= f[m]
    BY <1>5, <1>7
  <2>2. f[m] \in Nat /\ f[u] \in Nat /\ \A x \in T : f[x] \in Nat
    BY <1>2, <1>3, <2>1
  <2>3. CASE f[u] <= f[m]
    BY <1>2, <2>1, <2>3
  <2>4. CASE f[m] < f[u]
    <3>1. \A x \in T : f[x] <= f[u]
      BY <2>1, <2>2, <2>4
    <3> QED
      BY <1>2, <1>3, <3>1
  <2> QED
    BY <2>2, <2>3, <2>4
<1> QED
  BY <1>6, <1>7

LEMMA HighestFacts ==
  ASSUME order \in [Rows -> Nat], NEW S, S \subseteq Rows
  PROVE  Lists!Highest(S) \in Nat /\ \A x \in S : order[x] <= Lists!Highest(S)
<1>1. CASE S = {}
  BY <1>1 DEF Lists!Highest
<1>2. CASE S # {}
  <2>1. IsFiniteSet(S)
    BY ListAssumption, FS_Subset
  <2>2. [x \in S |-> order[x]] \in [S -> Nat]
    OBVIOUS
  <2>3. PICK m \in S : \A x \in S : [y \in S |-> order[y]][x] <= [y \in S |-> order[y]][m]
    BY <1>2, <2>1, <2>2, HighestExists
  <2>4. \E n \in {order[x] : x \in S} : \A x \in S : order[x] <= n
    BY <2>3
  <2> DEFINE n == CHOOSE n \in {order[x] : x \in S} : \A x \in S : order[x] <= n
  <2>5. n \in {order[x] : x \in S} /\ \A x \in S : order[x] <= n
    BY <2>4
  <2>6. Lists!Highest(S) = n
    BY <1>2 DEF Lists!Highest
  <2> QED
    BY <2>5, <2>6
<1> QED
  BY <1>1, <1>2

(* The position of a row in an arrangement is where it stands.             *)
LEMMA PositionFacts ==
  ASSUME NEW n \in Nat, NEW L, NEW a \in Bijection(1..n, L), NEW x \in L
  PROVE  Lists!Position(a, x) \in 1..n /\ a[Lists!Position(a, x)] = x
         /\ \A i \in 1..n : a[i] = x => i = Lists!Position(a, x)
<1>1. \E i \in 1..n : a[i] = x
  BY DEF Bijection, Surjection
<1>2. DOMAIN a = 1..n /\ \A i, j \in 1..n : a[i] = a[j] => i = j
  BY DEF Bijection, Injection, IsInjective
<1>3. \E i \in DOMAIN a : a[i] = x
  BY <1>1, <1>2
<1> DEFINE p == CHOOSE i \in DOMAIN a : a[i] = x
<1>4. p \in DOMAIN a /\ a[p] = x
  BY <1>3
<1> QED
  BY <1>2, <1>4 DEF Lists!Position

LEMMA UpTo == ASSUME NEW m \in Nat PROVE IsFiniteSet(1..m) /\ Cardinality(1..m) = m
BY FS_Interval

(* Under a numbering of a list from one, a row's number is one more than   *)
(* the number of rows below it.                                            *)
LEMMA NumberIsRank ==
  ASSUME NEW n \in Nat, NEW L, NEW p \in Bijection(L, 1..n), NEW x \in L
  PROVE  1 + Cardinality({y \in L : p[y] < p[x]}) = p[x]
<1> DEFINE B == {y \in L : p[y] < p[x]}
           f == [y \in B |-> p[y]]
<1>1. /\ p \in [L -> 1..n] /\ \A y, z \in L : p[y] = p[z] => y = z
      /\ \A k \in 1..n : \E y \in L : p[y] = k
  BY DEF Bijection, Injection, Surjection, IsInjective
<1>2. f \in [B -> 1..(p[x] - 1)]
  BY <1>1
<1>3. \A y, z \in B : f[y] = f[z] => y = z
  BY <1>1
<1>4. \A k \in 1..(p[x] - 1) : \E y \in B : f[y] = k
  BY <1>1
<1>5. f \in Bijection(B, 1..(p[x] - 1))
  BY <1>2, <1>3, <1>4 DEF Bijection, Injection, Surjection, IsInjective
<1> HIDE DEF f, B
<1>6. IsFiniteSet(1..(p[x] - 1)) /\ Cardinality(1..(p[x] - 1)) = p[x] - 1
  <2>1. p[x] - 1 \in Nat /\ 1 \in Int /\ p[x] - 1 \in Int
    BY <1>1
  <2> QED
    BY <2>1, UpTo
<1>7. f \in Injection(B, 1..(p[x] - 1)) /\ f \in Surjection(B, 1..(p[x] - 1))
  BY <1>5 DEF Bijection
<1>8. Cardinality(B) = p[x] - 1
  BY <1>6, <1>7, FS_Injection
<1> QED
  BY <1>1, <1>8 DEF B

(* Taking a row out and putting it back at n gives an arrangement again:   *)
(* the row is at n, and the others follow each other as they did.          *)
NewPosition(a, x, n, y) == Lists!Position(Lists!Spliced(a, x, n), y)

Renumbers(N, L, a, x, n) ==
  /\ \A y \in L : NewPosition(a, x, n, y) \in 1..N
  /\ \A y, z \in L : NewPosition(a, x, n, y) = NewPosition(a, x, n, z) => y = z
  /\ \A m \in 1..N : \E y \in L : NewPosition(a, x, n, y) = m
  /\ NewPosition(a, x, n, x) = n
  /\ \A j, k \in 1..N : j < k /\ a[j] # x /\ a[k] # x =>
       NewPosition(a, x, n, a[j]) < NewPosition(a, x, n, a[k])
  /\ \A i, j \in 1..N : a[i] = x =>
       /\ i < j /\ j <= n => NewPosition(a, x, n, a[j]) = j - 1
       /\ n <= j /\ j < i => NewPosition(a, x, n, a[j]) = j + 1
       /\ (i < j /\ n < j) \/ (j < i /\ j < n) => NewPosition(a, x, n, a[j]) = j

LEMMA SplicedFacts ==
  ASSUME NEW N \in Nat, NEW L, NEW a \in Bijection(1..N, L), NEW x \in L,
         NEW n \in 1..N
  PROVE  Renumbers(N, L, a, x, n)
<1> DEFINE i == Lists!Position(a, x)
           b == Lists!Spliced(a, x, n)
           Goes(j) == IF j = i THEN n
                      ELSE IF i < j /\ j <= n THEN j - 1
                      ELSE IF n <= j /\ j < i THEN j + 1 ELSE j
<1>1. i \in 1..N /\ a[i] = x /\ \A j \in 1..N : a[j] = x => j = i
  BY PositionFacts
<1>2. /\ DOMAIN a = 1..N /\ a \in [1..N -> L]
      /\ \A j, k \in 1..N : a[j] = a[k] => j = k
      /\ \A y \in L : \E j \in 1..N : a[j] = y
  BY DEF Bijection, Injection, Surjection, IsInjective
<1>3. b = [k \in 1..N |-> IF k = n THEN x
                          ELSE IF i <= k /\ k < n THEN a[k + 1]
                          ELSE IF n < k /\ k <= i THEN a[k - 1] ELSE a[k]]
  BY <1>2 DEF Lists!Spliced
<1> HIDE DEF i, b
<1>4. \A j \in 1..N : Goes(j) \in 1..N /\ b[Goes(j)] = a[j]
  <2> SUFFICES ASSUME NEW j \in 1..N PROVE Goes(j) \in 1..N /\ b[Goes(j)] = a[j]
    OBVIOUS
  <2>1. CASE j = i
    BY <1>1, <1>3, <2>1
  <2>2. CASE j # i /\ i < j /\ j <= n
    BY <1>1, <1>3, <2>2
  <2>3. CASE j # i /\ n <= j /\ j < i
    BY <1>1, <1>3, <2>3
  <2>4. CASE j # i /\ ~(i < j /\ j <= n) /\ ~(n <= j /\ j < i)
    BY <1>1, <1>3, <2>4
  <2> QED
    BY <2>1, <2>2, <2>3, <2>4
<1>5. \A j, k \in 1..N : Goes(j) = Goes(k) => j = k
  BY <1>1
<1>6. \A m \in 1..N : \E j \in 1..N : Goes(j) = m
  <2> SUFFICES ASSUME NEW m \in 1..N PROVE \E j \in 1..N : Goes(j) = m
    OBVIOUS
  <2>1. CASE m = n
    BY <1>1, <2>1
  <2>2. CASE i <= m /\ m < n
    <3>1. m + 1 \in 1..N /\ Goes(m + 1) = m
      BY <1>1, <2>2
    <3> QED
      BY <3>1
  <2>3. CASE n < m /\ m <= i
    <3>1. m - 1 \in 1..N /\ Goes(m - 1) = m
      BY <1>1, <2>3
    <3> QED
      BY <3>1
  <2>4. CASE m # n /\ ~(i <= m /\ m < n) /\ ~(n < m /\ m <= i)
    <3>1. Goes(m) = m
      BY <1>1, <2>4
    <3> QED
      BY <3>1
  <2> QED
    BY <1>1, <2>1, <2>2, <2>3, <2>4
<1>7. \A j, k \in 1..N : j < k /\ j # i /\ k # i => Goes(j) < Goes(k)
  BY <1>1
<1> HIDE DEF Goes
<1>8. b \in [1..N -> L] /\ \A m \in 1..N : \E j \in 1..N : Goes(j) = m /\ b[m] = a[j]
  <2>1. \A m \in 1..N : \E j \in 1..N : Goes(j) = m /\ b[m] = a[j]
    BY <1>4, <1>6
  <2>2. DOMAIN b = 1..N /\ b = [m \in 1..N |-> b[m]]
    BY <1>3
  <2> QED
    BY <1>2, <2>1, <2>2
<1>9. b \in Bijection(1..N, L)
  <2>1. \A m, k \in 1..N : b[m] = b[k] => m = k
    BY <1>2, <1>8
  <2>2. \A y \in L : \E m \in 1..N : b[m] = y
    BY <1>2, <1>4
  <2> QED
    BY <1>8, <2>1, <2>2 DEF Bijection, Injection, Surjection, IsInjective
<1> DEFINE p(y) == NewPosition(a, x, n, y)
<1>10. \A j \in 1..N : a[j] \in L /\ p(a[j]) = Goes(j)
  <2> SUFFICES ASSUME NEW j \in 1..N PROVE a[j] \in L /\ p(a[j]) = Goes(j)
    OBVIOUS
  <2>1. a[j] \in L
    BY <1>2
  <2>2. \A m \in 1..N : b[m] = a[j] => m = Lists!Position(b, a[j])
    BY <1>9, <2>1, PositionFacts
  <2>3. Goes(j) = Lists!Position(b, a[j])
    BY <1>4, <2>2
  <2> QED
    BY <2>1, <2>3 DEF NewPosition, b
<1> HIDE DEF p
<1>11. \A y \in L : \E j \in 1..N : a[j] = y /\ p(y) = Goes(j)
  BY <1>2, <1>10
<1>12. \A y \in L : p(y) \in 1..N
  BY <1>4, <1>11
<1>13. \A y, z \in L : p(y) = p(z) => y = z
  BY <1>5, <1>11
<1>14. \A m \in 1..N : \E y \in L : p(y) = m
  BY <1>6, <1>10
<1>15. p(x) = n
  BY <1>1, <1>10 DEF Goes
<1>16. \A j, k \in 1..N : j < k /\ a[j] # x /\ a[k] # x => p(a[j]) < p(a[k])
  BY <1>1, <1>7, <1>10
<1>17. \A j \in 1..N : /\ i < j /\ j <= n => p(a[j]) = j - 1
                       /\ n <= j /\ j < i => p(a[j]) = j + 1
                       /\ (i < j /\ n < j) \/ (j < i /\ j < n) => p(a[j]) = j
  BY <1>1, <1>10 DEF Goes
<1> QED
  BY <1>1, <1>12, <1>13, <1>14, <1>15, <1>16, <1>17 DEF p, Renumbers

-----------------------------------------------------------------------------
ListSessions ==
  [op : {"idle", "aim", "remove", "create", "restore", "renumber", "swap"},
   row : Rows \union {"none"}, goal : Nat,
   plan : UNION {[S -> Nat] : S \in SUBSET Rows}]

ListTypes ==
  /\ place \in [Rows -> {"unborn", "listed", "archived", "deleted"}]
  /\ order \in [Rows -> Nat] /\ session \in [Editors -> ListSessions]
  /\ stale \subseteq Editors /\ tangled \in BOOLEAN

Untied == \A x, y \in Lists!Listed : order[x] = order[y] => x = y

(* The sort orders an action means to leave behind.                        *)
Planned(e, x) == IF x \in DOMAIN session[e].plan THEN session[e].plan[x] ELSE order[x]

(* A row to be listed goes behind all that are.                            *)
Appends(e) ==
  LET x == session[e].row IN
  /\ x \in Rows /\ DOMAIN session[e].plan = {x}
  /\ place[x] = IF session[e].op = "create" THEN "unborn" ELSE "archived"
  /\ \A y \in Lists!Listed : order[y] < session[e].plan[x]

(* A move numbers the list anew: its row gets its goal, and the others     *)
(* follow each other as they did.                                          *)
Numbers(e, p) ==
  /\ p[session[e].row] = session[e].goal
  /\ \A y, z \in Lists!Listed : p[y] < p[z] <=> Planned(e, y) < Planned(e, z)
  /\ \A y, z \in Lists!Listed \ {session[e].row} :
       order[y] < order[z] => Planned(e, y) < Planned(e, z)

Moves(e) ==
  /\ session[e].row \in Lists!Listed
  /\ \E p \in Bijection(Lists!Listed, 1..Cardinality(Lists!Listed)) : Numbers(e, p)

(* What an action still means to do to the list as it is.                  *)
Lands(e) ==
  /\ session[e].op \in {"create", "restore"} => Appends(e)
  /\ session[e].op \in {"renumber", "swap"} => DOMAIN session[e].plan \subseteq Lists!Listed
  /\ session[e].op = "renumber" => Moves(e)
  /\ session[e].op = "swap" => (Untied => Moves(e))

OverlapInv ==
  \A e \in Editors :
    /\ e \in stale => session[e].op \in Lists!Reads
    /\ session[e].op \in Lists!Reads /\ e \notin stale => Lands(e)

ListInv == ListTypes /\ OverlapInv /\ TiesComeFromOverlap

-----------------------------------------------------------------------------
LEMMA IdleType == Lists!Idle \in ListSessions /\ Lists!Idle.op = "idle"
<1>1. <<>> \in [{} -> Nat]
  OBVIOUS
<1> QED
  BY <1>1 DEF Lists!Idle, ListSessions

(* The instance's copies of library definitions are the library's.         *)
LEMMA SameCardinality == \A S : Lists!Cardinality(S) = Cardinality(S)
BY DEF Lists!Cardinality, Cardinality, Lists!IsFiniteSet, IsFiniteSet

LEMMA SameBijection == \A S, T : Lists!Bijection(S, T) = Bijection(S, T)
BY DEF Lists!Bijection, Lists!Injection, Lists!Surjection, Lists!IsInjective,
       Bijection, Injection, Surjection, IsInjective

LEMMA ListStarts == Lists!Init => ListInv
<1> SUFFICES ASSUME Lists!Init PROVE ListInv
  OBVIOUS
<1>1. PICK f \in Bijection(Seeded, 1..Cardinality(Seeded)) :
        order = [x \in Rows |-> IF x \in Seeded THEN f[x] ELSE 0]
  BY SameBijection, SameCardinality DEF Lists!Init
<1>2. f \in [Seeded -> 1..Cardinality(Seeded)] /\ \A x, y \in Seeded : f[x] = f[y] => x = y
  BY DEF Bijection, Injection, IsInjective
<1>3. Lists!Listed = Seeded
  BY ListAssumption DEF Lists!Init, Lists!Listed
<1>4. ListTypes
  <2>1. order \in [Rows -> Nat]
    BY <1>1, <1>2
  <2>2. session \in [Editors -> ListSessions]
    BY IdleType DEF Lists!Init
  <2> QED
    BY <2>1, <2>2 DEF Lists!Init, ListTypes
<1>5. Untied
  BY <1>1, <1>2, <1>3, ListAssumption DEF Untied
<1>6. OverlapInv
  BY IdleType DEF Lists!Init, OverlapInv, Lists!Reads
<1> QED
  BY <1>4, <1>5, <1>6 DEF ListInv, TiesComeFromOverlap, Lists!TiesComeFromOverlap, Untied

(* What an action means is about its own session and the list alone.       *)
LEMMA LandsStays ==
  ASSUME NEW e \in Editors, Lands(e), UNCHANGED <<place, order>>,
         session'[e] = session[e]
  PROVE  Lands(e)'
BY DEF Lands, Appends, Moves, Numbers, Planned, Untied, Lists!Listed

(* A step of one action that writes nothing.                               *)
LEMMA QuietKeeps ==
  ASSUME ListInv, NEW e \in Editors, UNCHANGED <<place, order, tangled>>,
         session' \in [Editors -> ListSessions],
         \A f \in Editors \ {e} : session'[f] = session[f],
         stale' = stale \ {e},
         session'[e].op \in Lists!Reads => Lands(e)'
  PROVE  ListInv'
<1>1. ListTypes'
  BY DEF ListInv, ListTypes
<1>2. TiesComeFromOverlap'
  BY DEF ListInv, TiesComeFromOverlap, Lists!TiesComeFromOverlap, Lists!Listed
<1>3. OverlapInv'
  <2> SUFFICES ASSUME NEW f \in Editors
               PROVE  /\ f \in stale' => session'[f].op \in Lists!Reads
                      /\ session'[f].op \in Lists!Reads /\ f \notin stale' => Lands(f)'
    BY DEF OverlapInv, Lists!Reads
  <2>1. CASE f = e
    BY <2>1
  <2>2. CASE f # e
    BY <2>2, LandsStays DEF ListInv, OverlapInv
  <2> QED
    BY <2>1, <2>2
<1> QED
  BY <1>1, <1>2, <1>3 DEF ListInv

(* Whatever starts a session.                                              *)
LEMMA BeginFacts ==
  ASSUME ListInv, NEW e \in Editors,
         NEW op \in {"aim", "remove", "create", "restore", "swap"},
         NEW x \in Rows, NEW goal \in Nat, NEW STATE plan,
         plan \in UNION {[S -> Nat] : S \in SUBSET Rows},
         Lists!Begin(e, op, x, goal, plan)
  PROVE  /\ session' \in [Editors -> ListSessions]
         /\ \A f \in Editors \ {e} : session'[f] = session[f]
         /\ session'[e].op = op /\ session'[e].row = x
         /\ session'[e].goal = goal /\ session'[e].plan = plan
         /\ UNCHANGED <<place, order, tangled, stale>> /\ stale' = stale \ {e}
<1> DEFINE s == [op |-> op, row |-> x, goal |-> goal, plan |-> plan]
<1>1. s \in ListSessions /\ s.op = op /\ s.row = x /\ s.goal = goal /\ s.plan = plan
  BY DEF ListSessions
<1>2. /\ session[e] = Lists!Idle /\ session' = [session EXCEPT ![e] = s]
      /\ UNCHANGED <<place, order, tangled, stale>>
  BY DEF Lists!Begin, Lists!list, Lists!history
<1> HIDE DEF s
<1>3. e \notin stale
  BY <1>2, IdleType DEF ListInv, OverlapInv, Lists!Reads
<1> QED
  BY <1>1, <1>2, <1>3 DEF ListInv, ListTypes

(* An arrangement puts the list at positions from one, by sort order.      *)
LEMMA ArrangementFacts ==
  ASSUME NEW a \in Lists!Arrangements, order \in [Rows -> Nat]
  PROVE  LET N == Cardinality(Lists!Listed) IN
         /\ N \in Nat /\ a \in Bijection(1..N, Lists!Listed) /\ DOMAIN a = 1..N
         /\ \A i \in 1..N : a[i] \in Lists!Listed
         /\ \A y \in Lists!Listed : \E i \in 1..N : a[i] = y
         /\ \A i, j \in 1..N : a[i] = a[j] => i = j
         /\ \A i, j \in 1..N : order[a[i]] < order[a[j]] => i < j
<1> DEFINE N == Cardinality(Lists!Listed)
<1>1. N \in Nat
  <2>1. Lists!Listed \subseteq Rows
    BY DEF Lists!Listed
  <2> QED
    BY <2>1, ListAssumption, FS_Subset, FS_CardinalityType
<1>2. /\ a \in Bijection(1..N, Lists!Listed)
      /\ \A i, j \in DOMAIN a : i < j => order[a[i]] <= order[a[j]]
  BY SameCardinality, SameBijection DEF Lists!Arrangements
<1>3. /\ a \in [1..N -> Lists!Listed]
      /\ \A y \in Lists!Listed : \E i \in 1..N : a[i] = y
      /\ \A i, j \in 1..N : a[i] = a[j] => i = j
  BY <1>2 DEF Bijection, Injection, Surjection, IsInjective
<1>4. \A i \in 1..N : order[a[i]] \in Nat
  BY <1>3 DEF Lists!Listed
<1> HIDE DEF N
<1>5. \A i, j \in 1..N : order[a[i]] < order[a[j]] => i < j
  <2> SUFFICES ASSUME NEW i \in 1..N, NEW j \in 1..N, order[a[i]] < order[a[j]], ~(i < j)
               PROVE  FALSE
    OBVIOUS
  <2>1. i = j \/ j < i
    BY <1>1
  <2>2. order[a[j]] <= order[a[i]]
    BY <1>2, <1>3, <1>4, <2>1
  <2> QED
    BY <1>4, <2>2
<1> QED
  BY <1>1, <1>2, <1>3, <1>5 DEF N

-----------------------------------------------------------------------------
LEMMA CreateKeeps ==
  ASSUME ListInv, NEW e \in Editors, NEW x \in Rows,
         Lists!CreateReads(e, x) \/ Lists!RestoreReads(e, x)
  PROVE  ListInv'
<1> DEFINE Add(n) == [y \in {x} |-> n]
<1>1. PICK op \in {"create", "restore"}, n \in Nat :
        /\ Lists!Begin(e, op, x, 0, Add(n))
        /\ place[x] = IF op = "create" THEN "unborn" ELSE "archived"
        /\ \A y \in Lists!Listed : order[y] < n
  <2>1. order \in [Rows -> Nat] /\ Lists!Listed \subseteq Rows
    BY DEF ListInv, ListTypes, Lists!Listed
  <2> DEFINE board == {y \in Rows : place[y] \in {"listed", "archived"}}
             h == Lists!Highest(Lists!Listed)
             g == Lists!Highest(board)
  <2>2. /\ h \in Nat /\ \A y \in Lists!Listed : order[y] <= h
        /\ g \in Nat /\ \A y \in board : order[y] <= g
    BY <2>1, HighestFacts
  <2>3. Lists!Listed \subseteq board /\ \A y \in Lists!Listed : order[y] \in Nat
    BY <2>1 DEF Lists!Listed
  <2>4. /\ h + 1 \in Nat /\ \A y \in Lists!Listed : order[y] < h + 1
        /\ g + 1 \in Nat /\ \A y \in Lists!Listed : order[y] < g + 1
    <3> HIDE DEF h, g, board
    <3> QED
      BY <2>2, <2>3
  <2>5. Lists!AtEnd \in {h + 1, g + 1}
    BY DEF Lists!AtEnd
  <2>6. CASE Lists!CreateReads(e, x)
    <3>1. /\ Lists!Begin(e, "create", x, 0, Add(Lists!AtEnd)) /\ place[x] = "unborn"
          /\ Lists!AtEnd \in Nat /\ \A y \in Lists!Listed : order[y] < Lists!AtEnd
      BY <2>4, <2>5, <2>6 DEF Lists!CreateReads
    <3> QED
      BY <3>1
  <2>7. CASE Lists!RestoreReads(e, x)
    <3>1. Lists!Begin(e, "restore", x, 0, Add(h + 1)) /\ place[x] = "archived"
      BY <2>7 DEF Lists!RestoreReads
    <3> QED
      BY <2>4, <3>1
  <2> QED
    BY <2>6, <2>7
<1>2. Add(n) \in UNION {[S -> Nat] : S \in SUBSET Rows} /\ DOMAIN Add(n) = {x}
      /\ Add(n)[x] = n
  BY <1>1
<1> HIDE DEF Add
<1>3. /\ session' \in [Editors -> ListSessions]
      /\ \A f \in Editors \ {e} : session'[f] = session[f]
      /\ session'[e].op = op /\ session'[e].row = x /\ session'[e].plan = Add(n)
      /\ UNCHANGED <<place, order, tangled, stale>> /\ stale' = stale \ {e}
  BY <1>1, <1>2, BeginFacts
<1>4. Lands(e)'
  BY <1>1, <1>2, <1>3 DEF Lands, Appends, Lists!Listed
<1> QED
  BY <1>3, <1>4, QuietKeeps

(* Aiming, and choosing what to remove, read nothing that is written back. *)
LEMMA AimKeeps ==
  ASSUME ListInv, NEW e \in Editors, NEW x \in Rows,
         NEW op \in {"aim", "remove"}, NEW n \in Nat, Lists!Begin(e, op, x, n, <<>>)
  PROVE  ListInv'
<1>1. <<>> \in UNION {[S -> Nat] : S \in SUBSET Rows}
  <2>1. <<>> \in [{} -> Nat] /\ {} \in SUBSET Rows
    OBVIOUS
  <2> QED
    BY <2>1
<1>2. /\ session' \in [Editors -> ListSessions]
      /\ \A f \in Editors \ {e} : session'[f] = session[f]
      /\ session'[e].op = op
      /\ UNCHANGED <<place, order, tangled, stale>> /\ stale' = stale \ {e}
  <2>1. op \in {"aim", "remove", "create", "restore", "swap"}
    OBVIOUS
  <2> QED
    BY <1>1, <2>1, BeginFacts
<1> QED
  BY <1>2, QuietKeeps DEF Lists!Reads

LEMMA NudgeKeeps ==
  ASSUME ListInv, NEW e \in Editors, NEW x \in Rows, NEW up \in BOOLEAN,
         Lists!Nudge(e, x, up)
  PROVE  ListInv'
<1>1. PICK a \in Lists!Arrangements : \E n \in DOMAIN a : Lists!Begin(e, "aim", x, n, <<>>)
  BY DEF Lists!Nudge
<1>2. DOMAIN a \subseteq Nat
  BY ArrangementFacts DEF ListInv, ListTypes
<1> QED
  BY <1>1, <1>2, AimKeeps

LEMMA FailKeeps ==
  ASSUME ListInv, NEW e \in Editors,
         Lists!Fail(e) \/ Lists!MoveItemMissing(e)
  PROVE  ListInv'
<1>1. session' = [session EXCEPT ![e] = Lists!Idle]
      /\ UNCHANGED <<place, order, tangled>> /\ (stale' = stale \ {e})
  BY DEF Lists!Fail, Lists!MoveItemMissing, Lists!Finish, Lists!list, Lists!history,
         ListInv, OverlapInv, Lists!Reads
<1>2. /\ session' \in [Editors -> ListSessions] /\ session'[e].op = "idle"
      /\ \A f \in Editors \ {e} : session'[f] = session[f]
  BY <1>1, IdleType DEF ListInv, ListTypes
<1> QED
  BY <1>1, <1>2, QuietKeeps DEF Lists!Reads

(* moveNavigationItem has read the menu: what it will write numbers it.    *)
LEMMA RenumberKeeps ==
  ASSUME ListInv, NEW e \in Editors, Lists!MoveItemReads(e)
  PROVE  ListInv'
<1> DEFINE x == session[e].row
           N == Cardinality(Lists!Listed)
<1>1. /\ session[e].op = "aim" /\ x \in Lists!Listed
      /\ UNCHANGED <<place, order, tangled>> /\ stale' = stale /\ e \notin stale
  BY DEF Lists!MoveItemReads, Lists!list, Lists!history, ListInv, OverlapInv, Lists!Reads
<1>2. PICK a \in Lists!Arrangements :
        LET n == IF session[e].goal \in DOMAIN a THEN session[e].goal
                 ELSE Lists!Cardinality(Lists!Listed)
        IN IF n = Lists!Position(a, x) THEN Lists!Finish(e)
           ELSE session' = [session EXCEPT ![e] =
                  [@ EXCEPT !.op = "renumber", !.goal = n,
                            !.plan = [y \in Lists!Listed |->
                                        Lists!Position(Lists!Spliced(a, x, n), y)]]]
  BY DEF Lists!MoveItemReads
<1>3. CASE Lists!Finish(e)
  <2>1. /\ session' \in [Editors -> ListSessions] /\ session'[e].op = "idle"
        /\ \A f \in Editors \ {e} : session'[f] = session[f]
    BY <1>3, IdleType DEF ListInv, ListTypes, Lists!Finish
  <2> QED
    BY <1>1, <2>1, QuietKeeps DEF Lists!Reads
<1>4. CASE ~Lists!Finish(e)
  <2> DEFINE n == IF session[e].goal \in DOMAIN a THEN session[e].goal ELSE N
             q == [y \in Lists!Listed |-> Lists!Position(Lists!Spliced(a, x, n), y)]
             t == [session[e] EXCEPT !.op = "renumber", !.goal = n, !.plan = q]
  <2>1. session' = [session EXCEPT ![e] = t]
    BY <1>2, <1>4, SameCardinality
  <2>2. /\ N \in Nat /\ a \in Bijection(1..N, Lists!Listed) /\ DOMAIN a = 1..N
        /\ \A y \in Lists!Listed : \E i \in 1..N : a[i] = y
        /\ \A i, j \in 1..N : order[a[i]] < order[a[j]] => i < j
    BY ArrangementFacts DEF ListInv, ListTypes
  <2>3. n \in 1..N
    <3>1. N # 0
      BY <1>1, <2>2
    <3> QED
      BY <2>2, <3>1
  <2> HIDE DEF N, n
  <2>4. /\ q \in Bijection(Lists!Listed, 1..N) /\ q[x] = n
        /\ \A j, k \in 1..N : j < k /\ a[j] # x /\ a[k] # x => q[a[j]] < q[a[k]]
    <3>1. N \in Nat /\ a \in Bijection(1..N, Lists!Listed) /\ x \in Lists!Listed /\ n \in 1..N
      BY <1>1, <2>2, <2>3
    <3>2. Renumbers(N, Lists!Listed, a, x, n)
      BY ONLY <3>1, SplicedFacts
    <3>3. \A y \in Lists!Listed : q[y] = NewPosition(a, x, n, y)
      BY DEF NewPosition
    <3>4. q = [y \in Lists!Listed |-> q[y]]
      OBVIOUS
    <3> HIDE DEF q
    <3>5. /\ \A y \in Lists!Listed : q[y] \in 1..N
          /\ \A y, z \in Lists!Listed : q[y] = q[z] => y = z
          /\ \A m \in 1..N : \E y \in Lists!Listed : q[y] = m
      BY <3>2, <3>3 DEF Renumbers
    <3>6. q \in Bijection(Lists!Listed, 1..N)
      BY <3>4, <3>5 DEF Bijection, Injection, Surjection, IsInjective
    <3>7. \A j \in 1..N : a[j] \in Lists!Listed
      BY <2>2 DEF Bijection, Injection
    <3> QED
      BY <1>1, <3>2, <3>3, <3>6, <3>7 DEF Renumbers
  <2> HIDE DEF q
  <2>5. PICK p \in Bijection(Lists!Listed, 1..N) :
          /\ p = q /\ p[x] = n
          /\ \A j, k \in 1..N : j < k /\ a[j] # x /\ a[k] # x => p[a[j]] < p[a[k]]
    BY <2>4
  <2>6. p \in [Lists!Listed -> 1..N] /\ Lists!Listed \subseteq Rows
    BY <2>5 DEF Bijection, Injection, Lists!Listed
  <2>7. p \in UNION {[S -> Nat] : S \in SUBSET Rows}
    <3>1. p \in [Lists!Listed -> Nat]
      BY <2>2, <2>6
    <3> QED
      BY <2>6, <3>1
  <2>8. session[e] \in ListSessions /\ n \in Nat
    BY <2>2, <2>3 DEF ListInv, ListTypes
  <2>9. /\ t \in ListSessions /\ t.op = "renumber" /\ t.row = x /\ t.goal = n /\ t.plan = p
    BY <2>5, <2>7, <2>8 DEF ListSessions
  <2> HIDE DEF t
  <2>10. /\ session' \in [Editors -> ListSessions] /\ session'[e] = t
         /\ \A f \in Editors \ {e} : session'[f] = session[f]
    BY <2>1, <2>9 DEF ListInv, ListTypes
  <2>11. \A y, z \in Lists!Listed : y # x /\ z # x /\ order[y] < order[z] => p[y] < p[z]
    BY <2>2, <2>5
  <2>12. Lands(e)'
    <3>1. Lists!Listed' = Lists!Listed
      BY <1>1 DEF Lists!Listed
    <3>2. \A y \in Lists!Listed : Planned(e, y)' = p[y]
      BY <2>6, <2>9, <2>10 DEF Planned
    <3>3. Numbers(e, p)'
      <4>1. session'[e].row = x /\ session'[e].goal = n /\ order' = order
        BY <1>1, <2>9, <2>10
      <4>2. \A y, z \in Lists!Listed : p[y] < p[z] <=> Planned(e, y)' < Planned(e, z)'
        BY <3>2
      <4>3. \A y, z \in Lists!Listed \ {x} :
              order[y] < order[z] => Planned(e, y)' < Planned(e, z)'
        BY <2>11, <3>2
      <4> QED
        BY <2>5, <3>1, <4>1, <4>2, <4>3 DEF Numbers
    <3>4. Moves(e)'
      BY <1>1, <2>5, <2>9, <2>10, <3>1, <3>3 DEF Moves, Numbers, Planned, N
    <3> QED
      BY <2>6, <2>9, <2>10, <3>1, <3>4 DEF Lands
  <2> QED
    BY <1>1, <2>10, <2>12, QuietKeeps
<1> QED
  BY <1>3, <1>4

(* moveStage has read two neighbours: exchanging them numbers the stages   *)
(* anew, if no two share a position.                                       *)
LEMMA SwapKeeps ==
  ASSUME ListInv, NEW e \in Editors, NEW x \in Rows, NEW up \in BOOLEAN,
         Lists!MoveStage(e, x, up)
  PROVE  ListInv'
<1> DEFINE N == Cardinality(Lists!Listed)
<1>1. x \in Lists!Listed
  BY DEF Lists!MoveStage
<1>2. PICK a \in Lists!Arrangements :
        LET i == Lists!Position(a, x)
            m == IF up THEN i - 1 ELSE i + 1
        IN  m \in DOMAIN a /\ Lists!Begin(e, "swap", x, m, Lists!Exchanged(x, a[m]))
  BY DEF Lists!MoveStage
<1> DEFINE i == Lists!Position(a, x)
<1>3. PICK n \in DOMAIN a : /\ n = i - 1 \/ n = i + 1
                            /\ Lists!Begin(e, "swap", x, n, Lists!Exchanged(x, a[n]))
  BY <1>2
<1>4. /\ N \in Nat /\ a \in Bijection(1..N, Lists!Listed) /\ DOMAIN a = 1..N
      /\ \A j \in 1..N : a[j] \in Lists!Listed
      /\ \A y \in Lists!Listed : \E j \in 1..N : a[j] = y
      /\ \A j, k \in 1..N : a[j] = a[k] => j = k
      /\ \A j, k \in 1..N : order[a[j]] < order[a[k]] => j < k
  BY ArrangementFacts DEF ListInv, ListTypes
<1> HIDE DEF N
<1>5. i \in 1..N /\ a[i] = x /\ n \in 1..N /\ a[n] \in Lists!Listed /\ n # i
  BY <1>1, <1>3, <1>4, PositionFacts
<1>6. \A y \in Lists!Listed : order[y] \in Nat /\ y \in Rows
  BY DEF ListInv, ListTypes, Lists!Listed
<1> DEFINE q == Lists!Exchanged(x, a[n])
           r == [y \in Lists!Listed |-> Lists!Position(Lists!Spliced(a, x, n), y)]
<1>7. /\ r \in Bijection(Lists!Listed, 1..N) /\ r[x] = n
      /\ \A j \in 1..N : /\ i < j /\ j <= n => r[a[j]] = j - 1
                         /\ n <= j /\ j < i => r[a[j]] = j + 1
                         /\ (i < j /\ n < j) \/ (j < i /\ j < n) => r[a[j]] = j
  <2>1. N \in Nat /\ a \in Bijection(1..N, Lists!Listed) /\ x \in Lists!Listed /\ n \in 1..N
    BY <1>1, <1>4, <1>5
  <2>2. Renumbers(N, Lists!Listed, a, x, n)
    BY ONLY <2>1, SplicedFacts
  <2>3. \A y \in Lists!Listed : r[y] = NewPosition(a, x, n, y)
    BY DEF NewPosition
  <2>4. r = [y \in Lists!Listed |-> r[y]]
    OBVIOUS
  <2> HIDE DEF r
  <2>5. /\ \A y \in Lists!Listed : r[y] \in 1..N
        /\ \A y, z \in Lists!Listed : r[y] = r[z] => y = z
        /\ \A m \in 1..N : \E y \in Lists!Listed : r[y] = m
    BY <2>2, <2>3 DEF Renumbers
  <2>6. r \in Bijection(Lists!Listed, 1..N)
    BY <2>4, <2>5 DEF Bijection, Injection, Surjection, IsInjective
  <2> QED
    BY <1>1, <1>4, <1>5, <2>2, <2>3, <2>6 DEF Renumbers
<1> HIDE DEF r, i
<1>8. PICK p \in Bijection(Lists!Listed, 1..N) :
        /\ p[x] = n
        /\ \A j \in 1..N : /\ i < j /\ j <= n => p[a[j]] = j - 1
                           /\ n <= j /\ j < i => p[a[j]] = j + 1
                           /\ (i < j /\ n < j) \/ (j < i /\ j < n) => p[a[j]] = j
  BY <1>7
<1>9. \A j \in 1..N : p[a[j]] = IF j = i THEN n ELSE IF j = n THEN i ELSE j
  <2> SUFFICES ASSUME NEW j \in 1..N
               PROVE  p[a[j]] = IF j = i THEN n ELSE IF j = n THEN i ELSE j
    OBVIOUS
  <2>1. /\ i < j /\ j <= n => p[a[j]] = j - 1
        /\ n <= j /\ j < i => p[a[j]] = j + 1
        /\ (i < j /\ n < j) \/ (j < i /\ j < n) => p[a[j]] = j
    BY <1>8
  <2>2. i \in Nat /\ n \in Nat /\ j \in Nat
    BY <1>4, <1>5
  <2>3. CASE j = i
    BY <1>5, <1>8, <2>3
  <2>4. CASE j # i /\ j = n
    <3>1. \/ i < j /\ j <= n /\ j - 1 = i
          \/ n <= j /\ j < i /\ j + 1 = i
      BY <1>3, <2>2, <2>4 DEF i
    <3>2. p[a[j]] = i
      BY <2>1, <2>2, <3>1
    <3> QED
      BY <2>4, <3>2
  <2>5. CASE j # i /\ j # n
    <3>1. (i < j /\ n < j) \/ (j < i /\ j < n)
      BY <1>3, <2>2, <2>5 DEF i
    <3>2. p[a[j]] = j
      BY <2>1, <2>2, <3>1
    <3> QED
      BY <2>5, <3>2
  <2> QED
    BY <2>3, <2>4, <2>5
<1>10. /\ DOMAIN q = {x, a[n]} /\ q[x] = order[a[n]] /\ q[a[n]] = order[x]
       /\ q \in [{x, a[n]} -> Nat]
  BY <1>1, <1>4, <1>5, <1>6 DEF Lists!Exchanged
<1> HIDE DEF q
<1>11. q \in UNION {[S -> Nat] : S \in SUBSET Rows}
  <2>1. {x, a[n]} \in SUBSET Rows
    BY <1>5, <1>6
  <2> QED
    BY <1>10, <2>1
<1>12. /\ session' \in [Editors -> ListSessions]
       /\ \A f \in Editors \ {e} : session'[f] = session[f]
       /\ session'[e].op = "swap" /\ session'[e].row = x
       /\ session'[e].goal = n /\ session'[e].plan = q
       /\ UNCHANGED <<place, order, tangled, stale>> /\ stale' = stale \ {e}
  <2>1. Lists!Begin(e, "swap", x, n, q) /\ n \in Nat
    BY <1>3, <1>5 DEF q
  <2> QED
    BY <1>11, <2>1, BeginFacts
<1>13. Lists!Listed' = Lists!Listed /\ (Untied' => Untied)
  BY <1>12 DEF Lists!Listed, Untied
<1>14. ASSUME Untied PROVE Moves(e)'
  <2>1. \A j, k \in 1..N : order[a[j]] < order[a[k]] <=> j < k
    <3> SUFFICES ASSUME NEW j \in 1..N, NEW k \in 1..N, j < k
                 PROVE  order[a[j]] < order[a[k]]
      BY <1>4
    <3>1. order[a[j]] # order[a[k]] /\ ~(order[a[k]] < order[a[j]])
      BY <1>4, <1>14 DEF Untied
    <3>2. order[a[j]] \in Nat /\ order[a[k]] \in Nat
      BY <1>4, <1>6
    <3> QED
      BY <3>1, <3>2
  <2> DEFINE s(j) == IF j = i THEN n ELSE IF j = n THEN i ELSE j
  <2>2. \A j \in 1..N : s(j) \in 1..N /\ p[a[j]] = s(j) /\ Planned(e, a[j])' = order[a[s(j)]]
    <3> SUFFICES ASSUME NEW j \in 1..N
                 PROVE  s(j) \in 1..N /\ p[a[j]] = s(j) /\ Planned(e, a[j])' = order[a[s(j)]]
      OBVIOUS
    <3>1. CASE j = i
      BY <1>5, <1>9, <1>10, <1>12, <3>1 DEF Planned
    <3>2. CASE j # i /\ j = n
      BY <1>5, <1>9, <1>10, <1>12, <3>2 DEF Planned
    <3>3. CASE j # i /\ j # n
      <4>1. a[j] \notin DOMAIN q
        BY <1>4, <1>5, <1>10, <3>3
      <4> QED
        BY <1>9, <1>12, <3>3, <4>1 DEF Planned
    <3> QED
      BY <3>1, <3>2, <3>3
  <2>3. \A y, z \in Lists!Listed : p[y] < p[z] <=> Planned(e, y)' < Planned(e, z)'
    <3> HIDE DEF s
    <3> QED
      BY <1>4, <2>1, <2>2 DEF Planned
  <2>4. \A y, z \in Lists!Listed \ {x} : order[y] < order[z] => p[y] < p[z]
    <3> SUFFICES ASSUME NEW y \in Lists!Listed \ {x}, NEW z \in Lists!Listed \ {x},
                        order[y] < order[z]
                 PROVE  p[y] < p[z]
      OBVIOUS
    <3>1. PICK j \in 1..N, k \in 1..N : a[j] = y /\ a[k] = z
      BY <1>4
    <3>2. j < k /\ j # i /\ k # i
      BY <1>4, <1>5, <3>1
    <3>3. p[a[j]] < p[a[k]]
      BY <1>3, <1>5, <1>9, <3>2 DEF i
    <3> QED
      BY <3>1, <3>3
  <2>5. Numbers(e, p)'
    BY <1>8, <1>12, <1>13, <2>3, <2>4 DEF Numbers, Planned
  <2> QED
    BY <1>1, <1>8, <1>12, <1>13, <2>5 DEF Moves, Numbers, Planned, N
<1>15. Lands(e)'
  BY <1>1, <1>5, <1>10, <1>12, <1>13, <1>14 DEF Lands
<1> QED
  BY <1>12, <1>15, QuietKeeps

(* An action writes: whoever else has read the list is overtaken.          *)
LEMMA WriteFacts ==
  ASSUME ListInv, NEW e \in Editors, Lists!Write(e)
  PROVE  /\ ListTypes' /\ session'[e].op = "idle" /\ e \notin stale'
         /\ \A f \in Editors \ {e} :
              /\ session'[f] = session[f]
              /\ f \in stale' <=> f \in stale \/ session[f].op \in Lists!Reads
<1>1. /\ session' = [session EXCEPT ![e] = Lists!Idle]
      /\ stale' = (stale \ {e}) \union {f \in Editors \ {e} : session[f].op \in Lists!Reads}
  BY DEF Lists!Write, Lists!Commit, Lists!Finish, Lists!Disturbed
<1>2. /\ session' \in [Editors -> ListSessions] /\ session'[e].op = "idle"
      /\ \A f \in Editors \ {e} : session'[f] = session[f]
  BY <1>1, IdleType DEF ListInv, ListTypes
<1>3. order' \in [Rows -> Nat]
  <2>1. session[e] \in ListSessions /\ order \in [Rows -> Nat]
    BY DEF ListInv, ListTypes
  <2>2. PICK S \in SUBSET Rows : session[e].plan \in [S -> Nat]
    BY <2>1 DEF ListSessions
  <2>3. Lists!Kept(e) \subseteq S
    BY <2>2 DEF Lists!Kept
  <2> QED
    BY <2>1, <2>2, <2>3 DEF Lists!Write
<1>4. place' \in [Rows -> {"unborn", "listed", "archived", "deleted"}]
  BY DEF Lists!Write, ListInv, ListTypes
<1>5. tangled' \in BOOLEAN /\ stale' \subseteq Editors
  <2>1. stale' \subseteq Editors /\ tangled \in BOOLEAN
    BY <1>1 DEF ListInv, ListTypes
  <2>2. tangled' = (e \in stale) \/ tangled' = (tangled \/ e \in stale)
    BY DEF Lists!Write, Lists!Commit
  <2>3. (e \in stale) \in BOOLEAN /\ (tangled \/ e \in stale) \in BOOLEAN
    OBVIOUS
  <2> QED
    BY <2>1, <2>2, <2>3
<1> QED
  BY <1>1, <1>2, <1>3, <1>4, <1>5 DEF ListTypes

(* A creation or a restoration nobody overtook lists its row behind all.   *)
LEMMA AppendLands ==
  ASSUME ListInv, NEW e \in Editors, Lists!Write(e), e \notin stale,
         session[e].op \in {"create", "restore"}
  PROVE  Untied => Untied'
<1> DEFINE x == session[e].row
<1>1. Appends(e) /\ order \in [Rows -> Nat]
  BY DEF ListInv, OverlapInv, Lands, Lists!Reads, ListTypes
<1>2. Lists!Kept(e) = {x} /\ x \in Rows
  BY <1>1 DEF Appends, Lists!Kept
<1>3. /\ Lists!Listed' \subseteq Lists!Listed \union {x}
      /\ \A y \in Lists!Listed : y # x /\ order'[y] = order[y]
      /\ order'[x] = session[e].plan[x]
  BY <1>1, <1>2 DEF Lists!Write, Lists!Listed, Appends
<1>4. \A y \in Lists!Listed : order[y] < order'[x] /\ order[y] \in Nat
  BY <1>1, <1>3 DEF Appends, Lists!Listed
<1>5. \A y \in Lists!Listed : order[y] # order'[x]
  BY <1>4
<1> QED
  BY <1>3, <1>5 DEF Untied

(* A move nobody overtook gives every row its number.                      *)
LEMMA MoveLands ==
  ASSUME ListInv, NEW e \in Editors, Lists!Write(e), e \notin stale,
         session[e].op = "renumber" \/ (session[e].op = "swap" /\ Untied)
  PROVE  /\ Lists!Listed' = Lists!Listed /\ Untied'
         /\ \A x \in Rows : session[e].row = x =>
              Lists!Rank(x)' = session[e].goal /\ Lists!OthersKeepOrder(x)
<1> DEFINE S == Lists!Listed
           N == Cardinality(S)
<1>1. /\ Moves(e) /\ DOMAIN session[e].plan \subseteq S
      /\ session[e].op \in {"renumber", "swap"}
  BY DEF ListInv, OverlapInv, Lands, Lists!Reads
<1>2. order' \in [Rows -> Nat] /\ S \subseteq Rows
  BY WriteFacts DEF ListTypes, Lists!Listed
<1>3. Lists!Kept(e) = DOMAIN session[e].plan
  BY <1>1 DEF Lists!Kept, Lists!Listed
<1>4. S' = S
  BY <1>1 DEF Lists!Write, Lists!Listed
<1>5. \A y \in S : order'[y] = Planned(e, y)
  BY <1>2, <1>3 DEF Lists!Write, Planned
<1>6. PICK p \in Bijection(S, 1..N) : Numbers(e, p)
  BY <1>1 DEF Moves
<1>7. N \in Nat
  BY <1>2, ListAssumption, FS_Subset, FS_CardinalityType
<1> HIDE DEF S, N
<1>8. /\ \A y \in S : p[y] \in 1..N
      /\ \A y, z \in S : p[y] = p[z] => y = z
  BY <1>6 DEF Bijection, Injection, IsInjective
<1>9. \A y, z \in S : p[y] < p[z] <=> order'[y] < order'[z]
  BY <1>5, <1>6 DEF Numbers, S
<1>10. \A y, z \in S : order'[y] = order'[z] => y = z
  <2> SUFFICES ASSUME NEW y \in S, NEW z \in S, order'[y] = order'[z] PROVE y = z
    OBVIOUS
  <2>1. order'[y] \in Nat /\ order'[z] \in Nat
    BY <1>2
  <2>2. ~(p[y] < p[z]) /\ ~(p[z] < p[y])
    BY <1>9, <2>1
  <2>3. p[y] \in Nat /\ p[z] \in Nat
    BY <1>7, <1>8
  <2> QED
    BY <1>8, <2>2, <2>3
<1>11. ASSUME NEW x \in Rows, session[e].row = x
       PROVE  Lists!Rank(x)' = session[e].goal /\ Lists!OthersKeepOrder(x)
  <2>1. x \in S /\ p[x] = session[e].goal
    BY <1>1, <1>6, <1>11 DEF Moves, Numbers, S
  <2>2. {y \in S : order'[y] < order'[x]} = {y \in S : p[y] < p[x]}
    BY <1>9, <2>1
  <2>3. 1 + Cardinality({y \in S : p[y] < p[x]}) = p[x]
    BY <1>7, <2>1, NumberIsRank
  <2>4. Lists!Rank(x)' = session[e].goal
    BY <1>4, <2>1, <2>2, <2>3, SameCardinality DEF Lists!Rank, S
  <2>5. \A y, z \in S \ {x} : order[y] < order[z] => order'[y] < order'[z]
    BY <1>5, <1>6, <1>11 DEF Numbers, S
  <2> QED
    BY <2>4, <2>5 DEF Lists!OthersKeepOrder, S
<1> QED
  BY <1>4, <1>10, <1>11 DEF Untied, S

LEMMA WriteKeeps ==
  ASSUME ListInv, NEW e \in Editors, Lists!Write(e)
  PROVE  ListInv'
<1>1. OverlapInv'
  BY WriteFacts DEF ListInv, OverlapInv, Lists!Reads
<1>2. TiesComeFromOverlap'
  <2>1. tangled' = IF session[e].op = "renumber" THEN e \in stale
                   ELSE tangled \/ e \in stale
    BY DEF Lists!Write, Lists!Commit
  <2>2. CASE e \in stale
    BY <2>1, <2>2 DEF TiesComeFromOverlap, Lists!TiesComeFromOverlap
  <2>3. CASE e \notin stale /\ session[e].op = "renumber"
    BY <2>3, MoveLands DEF TiesComeFromOverlap, Lists!TiesComeFromOverlap, Untied
  <2>4. CASE e \notin stale /\ session[e].op # "renumber"
    <3>1. session[e].op \in {"create", "restore", "swap"}
      BY <2>4 DEF Lists!Write, Lists!Reads
    <3>2. CASE tangled
      BY <2>1, <2>4, <3>2 DEF TiesComeFromOverlap, Lists!TiesComeFromOverlap
    <3>3. CASE ~tangled
      <4>1. Untied
        BY <3>3 DEF ListInv, TiesComeFromOverlap, Lists!TiesComeFromOverlap, Untied
      <4>2. Untied'
        BY <2>4, <3>1, <4>1, AppendLands, MoveLands
      <4> QED
        BY <4>2 DEF TiesComeFromOverlap, Lists!TiesComeFromOverlap, Untied
    <3> QED
      BY <3>2, <3>3
  <2> QED
    BY <2>2, <2>3, <2>4
<1> QED
  BY <1>1, <1>2, WriteFacts DEF ListInv

LEMMA RemoveKeeps ==
  ASSUME ListInv, NEW e \in Editors, Lists!Remove(e)
  PROVE  ListInv'
<1>1. /\ session' = [session EXCEPT ![e] = Lists!Idle]
      /\ stale' = stale \union {f \in Editors \ {e} : session[f].op \in Lists!Reads}
      /\ UNCHANGED <<order, tangled>> /\ session[e].op = "remove"
      /\ place' = [place EXCEPT ![session[e].row] =
                     IF kind = "menu" THEN "deleted" ELSE "archived"]
  BY DEF Lists!Remove, Lists!Finish, Lists!Disturbed
<1>2. /\ session' \in [Editors -> ListSessions] /\ session'[e].op = "idle"
      /\ \A f \in Editors \ {e} : session'[f] = session[f]
  BY <1>1, IdleType DEF ListInv, ListTypes
<1>3. e \notin stale
  BY <1>1 DEF ListInv, OverlapInv, Lists!Reads
<1>4. ListTypes'
  BY <1>1, <1>2 DEF ListInv, ListTypes
<1>5. OverlapInv'
  BY <1>1, <1>2, <1>3 DEF ListInv, OverlapInv, Lists!Reads
<1>6. Lists!Listed' \subseteq Lists!Listed
  BY <1>1 DEF Lists!Listed, ListInv, ListTypes
<1>7. TiesComeFromOverlap'
  BY <1>1, <1>6 DEF ListInv, TiesComeFromOverlap, Lists!TiesComeFromOverlap
<1> QED
  BY <1>4, <1>5, <1>7 DEF ListInv

LEMMA ListKeeps == ListInv /\ [Lists!Next]_listVars => ListInv'
<1> SUFFICES ASSUME ListInv, [Lists!Next]_listVars PROVE ListInv'
  OBVIOUS
<1>1. CASE UNCHANGED listVars
  <2>1. \A e \in Editors : Lands(e) => Lands(e)'
    BY <1>1, LandsStays DEF listVars
  <2> QED
    BY <1>1, <2>1 DEF listVars, ListInv, ListTypes, OverlapInv, TiesComeFromOverlap,
                      Lists!TiesComeFromOverlap, Lists!Listed
<1>2. ASSUME NEW e \in Editors, NEW x \in Rows,
             \/ Lists!CreateReads(e, x) \/ Lists!RestoreReads(e, x)
             \/ Lists!RemoveReads(e, x)
             \/ \E n \in 1..Lists!Cardinality(Rows) : Lists!Aim(e, x, n)
             \/ \E up \in BOOLEAN : Lists!Nudge(e, x, up) \/ Lists!MoveStage(e, x, up)
      PROVE  ListInv'
  <2>1. CASE Lists!CreateReads(e, x) \/ Lists!RestoreReads(e, x)
    BY <2>1, CreateKeeps
  <2>2. CASE Lists!RemoveReads(e, x)
    BY <2>2, AimKeeps DEF Lists!RemoveReads
  <2>3. ASSUME NEW n \in 1..Lists!Cardinality(Rows), Lists!Aim(e, x, n) PROVE ListInv'
    <3>1. n \in Nat
      BY SameCardinality, ListAssumption, FS_CardinalityType
    <3> QED
      BY <2>3, <3>1, AimKeeps DEF Lists!Aim
  <2>4. ASSUME NEW up \in BOOLEAN, Lists!Nudge(e, x, up) PROVE ListInv'
    BY <2>4, NudgeKeeps
  <2>5. ASSUME NEW up \in BOOLEAN, Lists!MoveStage(e, x, up) PROVE ListInv'
    BY <2>5, SwapKeeps
  <2> QED
    BY <1>2, <2>1, <2>2, <2>3, <2>4, <2>5
<1>3. ASSUME NEW e \in Editors, Lists!MoveItemReads(e) \/ Lists!MoveItemMissing(e)
      PROVE  ListInv'
  BY <1>3, RenumberKeeps, FailKeeps
<1>4. ASSUME NEW e \in Editors, Lists!Write(e) \/ Lists!Remove(e) \/ Lists!Fail(e)
      PROVE  ListInv'
  BY <1>4, WriteKeeps, RemoveKeeps, FailKeeps
<1> QED
  BY <1>1, <1>2, <1>3, <1>4 DEF Lists!Next

THEOREM ListInductive == ScreensSpec => []ListInv
<1>1. ScreensInit => ListInv
  BY ListStarts DEF ScreensInit
<1>2. ListInv /\ [ScreensNext]_<<vars, listVars, open>> => ListInv'
  <2>1. [ScreensNext]_<<vars, listVars, open>> => [Lists!Next]_listVars
    BY DEF ScreensNext
  <2> QED
    BY <2>1, ListKeeps
<1> QED
  BY <1>1, <1>2, PTL DEF ScreensSpec

(* Two rows share a position only because an action wrote what another had *)
(* overtaken: one at a time, creations, moves, removals and restorations   *)
(* keep a menu and the pipeline in one order.                              *)
THEOREM TiesNeedOverlap == ScreensSpec => []TiesComeFromOverlap
<1>1. ListInv => TiesComeFromOverlap
  BY DEF ListInv
<1> QED
  BY <1>1, ListInductive, PTL

(* A move nobody overtook puts its row at the position it names and leaves *)
(* the others in the order they had (moveNavigationItem, moveStage).       *)
THEOREM MovesLandWhereAimed == ScreensSpec => MovesLand
<1>1. ASSUME ListInv, NEW e \in Editors, NEW x \in Rows,
             Lists!Write(e), session[e].row = x, e \notin stale,
             session[e].op = "renumber" \/ (session[e].op = "swap" /\ ~tangled)
      PROVE  Lists!Rank(x)' = session[e].goal /\ Lists!OthersKeepOrder(x)
  <2>1. session[e].op = "swap" => Untied
    BY <1>1 DEF ListInv, TiesComeFromOverlap, Lists!TiesComeFromOverlap, Untied
  <2> QED
    BY <1>1, <2>1, MoveLands
<1>2. ListInv =>
        [\A e \in Editors, x \in Rows :
           Lists!Write(e) /\ session[e].row = x /\ e \notin stale /\
           (session[e].op = "renumber" \/ (session[e].op = "swap" /\ ~tangled))
             => Lists!Rank(x)' = session[e].goal /\ Lists!OthersKeepOrder(x)]_Lists!vars
  BY <1>1
<1> QED
  BY <1>2, ListInductive, PTL DEF MovesLand, Lists!MovesLand
=============================================================================
