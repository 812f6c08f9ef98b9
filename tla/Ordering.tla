----------------------------- MODULE Ordering -----------------------------
(***************************************************************************)
(* The two lists of the panel that people arrange by hand: the items of a  *)
(* menu (admin/_actions/navigation.ts) and the stages of the pipeline      *)
(* (admin/_actions/pipeline.ts). A position is a sort_order, no index      *)
(* keeps two rows apart, and every action reads the list before the        *)
(* transaction that writes it. Sort orders are counted in steps of their   *)
(* list: 10 for a menu, 100 for the stages.                                *)
(***************************************************************************)
EXTENDS Naturals, FiniteSets, Functions

CONSTANTS Rows,      \* rows the list may hold
          Seeded,    \* rows it starts with
          Editors,   \* server actions under way
          MaxActions \* bound: actions started

VARIABLES
  kind,    \* which list this is: "menu" or "stages"
  place,   \* "unborn", "listed"; "archived" for a stage; "deleted"
  order,   \* sort_order
  session  \* what an action has read and will write

VARIABLES
  stale,   \* history: actions behind whose back the list was written
  tangled, \* history: was one of them allowed to write?
  actions

list    == <<kind, place, order>>
history == <<stale, tangled>>
vars    == <<list, session, history, actions>>

Idle == [op |-> "idle", row |-> "none", goal |-> 0, plan |-> <<>>]

Init ==
  /\ kind \in {"menu", "stages"}
  /\ place = [x \in Rows |-> IF x \in Seeded THEN "listed" ELSE "unborn"]
  /\ \E f \in Bijection(Seeded, 1..Cardinality(Seeded)) :
       order = [x \in Rows |-> IF x \in Seeded THEN f[x] ELSE 0]
  /\ session = [e \in Editors |-> Idle]
  /\ stale = {} /\ tangled = FALSE /\ actions = 0

-----------------------------------------------------------------------------
Listed == {x \in Rows : place[x] = "listed"}

Highest(S) ==
  IF S = {} THEN 0
  ELSE CHOOSE n \in {order[x] : x \in S} : \A x \in S : order[x] <= n

(* ORDER BY sort_order, and nothing to separate rows that share one.       *)
Arrangements ==
  {a \in Bijection(1..Cardinality(Listed), Listed) :
     \A i, j \in DOMAIN a : i < j => order[a[i]] <= order[a[j]]}

Position(a, x) == CHOOSE i \in DOMAIN a : a[i] = x

Begin(e, op, x, goal, plan) ==
  /\ session[e] = Idle /\ actions < MaxActions
  /\ actions' = actions + 1
  /\ session' = [session EXCEPT ![e] =
       [op |-> op, row |-> x, goal |-> goal, plan |-> plan]]
  /\ UNCHANGED <<list, history>>

(* A write leaves every other action that has read the list stale.         *)
Reads == {"create", "restore", "renumber", "swap"}
Disturbed(e) == {f \in Editors \ {e} : session[f].op \in Reads}

Finish(e) == session' = [session EXCEPT ![e] = Idle]

Commit(e) ==
  /\ Finish(e)
  /\ stale' = (stale \ {e}) \union Disturbed(e)
  /\ tangled' = IF session[e].op = "renumber" THEN e \in stale
                ELSE tangled \/ e \in stale

-----------------------------------------------------------------------------
(* createNavigationItem, and createStage, which counts archived stages in. *)
(* Slip: appending at the number of rows.                                  *)
AtCount == Cardinality(Listed)
AtEnd == IF kind = "menu" THEN Highest(Listed) + 1
         ELSE Highest({x \in Rows : place[x] \in {"listed", "archived"}}) + 1

CreateReads(e, x) ==
  /\ place[x] = "unborn"
  /\ \A f \in Editors : session[f].row # x
  /\ Begin(e, "create", x, 0, [y \in {x} |-> AtEnd])

(* restoreStage appends after the stages on the board.                     *)
RestoreReads(e, x) ==
  /\ place[x] = "archived"
  /\ Begin(e, "restore", x, 0, [y \in {x} |-> Highest(Listed) + 1])

(* The control of a menu names a position; the arrows ask the server for   *)
(* it, which then moves as if it had been named.                           *)
Aim(e, x, n) ==
  /\ kind = "menu" /\ x \in Listed /\ n \in 1..Cardinality(Listed)
  /\ Begin(e, "aim", x, n, <<>>)

Nudge(e, x, up) ==
  /\ kind = "menu" /\ x \in Listed
  /\ \E a \in Arrangements :
       LET i == Position(a, x)
           n == IF up THEN i - 1 ELSE i + 1
       IN  n \in DOMAIN a /\ Begin(e, "aim", x, n, <<>>)

(* moveNavigationItem: take the row out, put it back at its position, and  *)
(* renumber every row from one. Slip: exchanging it with the row there.    *)
ExchangedWith(a, x, n) == [a EXCEPT ![n] = x, ![Position(a, x)] = a[n]]
Spliced(a, x, n) ==
  LET i == Position(a, x) IN
  [k \in DOMAIN a |->
     IF k = n THEN x
     ELSE IF i <= k /\ k < n THEN a[k + 1]
     ELSE IF n < k /\ k <= i THEN a[k - 1] ELSE a[k]]

MoveItemReads(e) ==
  LET x == session[e].row IN
  /\ session[e].op = "aim" /\ x \in Listed
  /\ \E a \in Arrangements :
       LET n == IF session[e].goal \in DOMAIN a THEN session[e].goal
                ELSE Cardinality(Listed)
       IN IF n = Position(a, x) THEN Finish(e)
          ELSE session' = [session EXCEPT ![e] =
                 [@ EXCEPT !.op = "renumber", !.goal = n,
                           !.plan = [y \in Listed |->
                                       Position(Spliced(a, x, n), y)]]]
  /\ UNCHANGED <<list, history, actions>>

MoveItemMissing(e) ==
  /\ session[e].op = "aim" /\ session[e].row \notin Listed
  /\ Finish(e)
  /\ UNCHANGED <<list, history, actions>>

(* moveStage exchanges the sort orders of two neighbours. Slip: giving the *)
(* neighbour the order its partner has just been given.                    *)
HalfExchanged(x, y) == [z \in {x, y} |-> order[y]]
Exchanged(x, y) == [z \in {x, y} |-> IF z = x THEN order[y] ELSE order[x]]

MoveStage(e, x, up) ==
  /\ kind = "stages" /\ x \in Listed
  /\ \E a \in Arrangements :
       LET i == Position(a, x)
           n == IF up THEN i - 1 ELSE i + 1
       IN  /\ n \in DOMAIN a
           /\ Begin(e, "swap", x, n, Exchanged(x, a[n]))

-----------------------------------------------------------------------------
(* What an action planned is written without another look at the list; an  *)
(* update finds the rows that are still there.                             *)
Kept(e) == {x \in DOMAIN session[e].plan :
              place[x] # "deleted" /\
              (session[e].op = "restore" => place[x] = "archived")}

Write(e) ==
  /\ session[e].op \in Reads
  /\ order' = [x \in Rows |-> IF x \in Kept(e) THEN session[e].plan[x]
                                               ELSE order[x]]
  /\ place' = [x \in Rows |->
       IF x \in Kept(e) /\ session[e].op \in {"create", "restore"}
       THEN "listed" ELSE place[x]]
  /\ Commit(e)
  /\ UNCHANGED <<kind, actions>>

(* Two renumberings may lock rows in opposite orders and one is aborted;   *)
(* any other failure of the database ends the same way.                    *)
Fail(e) ==
  /\ session[e] # Idle
  /\ Finish(e)
  /\ stale' = stale \ {e}
  /\ UNCHANGED <<list, tangled, actions>>

(* deleteNavigationItem, and archiveStage, which spares the last stage it  *)
(* sees (and the entry point, which people may give to any other stage).   *)
RemoveReads(e, x) ==
  /\ x \in Listed
  /\ kind = "stages" => Listed # {x}
  /\ Begin(e, "remove", x, 0, <<>>)

Remove(e) ==
  /\ session[e].op = "remove"
  /\ place' = [place EXCEPT ![session[e].row] =
       IF kind = "menu" THEN "deleted" ELSE "archived"]
  /\ stale' = stale \union Disturbed(e)
  /\ Finish(e)
  /\ UNCHANGED <<kind, order, tangled, actions>>

-----------------------------------------------------------------------------
Next ==
  \/ \E e \in Editors, x \in Rows :
       \/ CreateReads(e, x) \/ RestoreReads(e, x) \/ RemoveReads(e, x)
       \/ \E n \in 1..Cardinality(Rows) : Aim(e, x, n)
       \/ \E up \in BOOLEAN : Nudge(e, x, up) \/ MoveStage(e, x, up)
  \/ \E e \in Editors : MoveItemReads(e) \/ MoveItemMissing(e)
  \/ \E e \in Editors : Write(e) \/ Remove(e) \/ Fail(e)

Spec == Init /\ [][Next]_vars
-----------------------------------------------------------------------------
TypeOK ==
  /\ kind \in {"menu", "stages"}
  /\ place \in [Rows -> {"unborn", "listed", "archived", "deleted"}]
  /\ order \in [Rows -> Nat]
  /\ \A e \in Editors :
       /\ session[e].op \in {"idle", "aim", "remove"} \union Reads
       /\ session[e].row \in Rows \union {"none"}
       /\ session[e].goal \in 0..Cardinality(Rows)
       /\ \A x \in DOMAIN session[e].plan :
            x \in Rows /\ session[e].plan[x] \in Nat
  /\ stale \subseteq Editors /\ tangled \in BOOLEAN
  /\ actions \in 0..MaxActions

(* Two rows of a list share a position only because an action wrote what   *)
(* another had overtaken: any sequence of creations, moves, removals and   *)
(* restorations that do not overlap keeps a list in one order, and a move  *)
(* of a menu item that nobody overtook straightens the menu out again.     *)
TiesComeFromOverlap ==
  tangled \/ \A x, y \in Listed : order[x] = order[y] => x = y

(* A move nobody overtook puts the row where the screen said it would be   *)
(* and leaves the others in the order they had, unless two stages already  *)
(* share a position.                                                       *)
Rank(x) == 1 + Cardinality({y \in Listed : order[y] < order[x]})
OthersKeepOrder(x) ==
  \A y, z \in Listed \ {x} : order[y] < order[z] => order'[y] < order'[z]
MovesLand ==
  [][\A e \in Editors, x \in Rows :
       Write(e) /\ session[e].row = x /\ e \notin stale /\
       (session[e].op = "renumber" \/ (session[e].op = "swap" /\ ~tangled))
         => Rank(x)' = session[e].goal /\ OthersKeepOrder(x)]_vars

(* "Contiguous numbering means the stored order always matches what was on *)
(* screen" (admin/_actions/navigation.ts:182).                             *)
NumberingIsContiguous ==
  [][\A e \in Editors : Write(e) /\ session[e].op = "renumber" =>
       {order'[x] : x \in Listed'} = 1..Cardinality(Listed')]_vars
=============================================================================
