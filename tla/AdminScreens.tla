---------------------------- MODULE AdminScreens ----------------------------
(***************************************************************************)
(* The screens of the panel that people work on by hand: the block editor  *)
(* of a page (Panel) and the lists put in order (Ordering). They share no  *)
(* table and no state in the browser, so a behaviour of either leaves the  *)
(* other as it is: the open screen is chosen once, and the two are checked *)
(* side by side without their product. The list behind an open page is a   *)
(* menu, and only the list on the screen may be either.                    *)
(***************************************************************************)
EXTENDS Panel, FiniteSets

CONSTANTS Rows, Seeded, Editors, MaxActions

ASSUME ListAssumption ==
  /\ IsFiniteSet(Rows) /\ Seeded \subseteq Rows /\ MaxActions \in Nat

VARIABLES kind, place, order, session, stale, tangled, actions

VARIABLE open \* the screen people work on: "page" or "list"

Lists == INSTANCE Ordering

listVars == <<kind, place, order, session, stale, tangled, actions>>

ScreensInit ==
  /\ open \in {"page", "list"} /\ Init /\ Lists!Init
  /\ open = "page" => kind = "menu"

ScreensNext ==
  \/ open = "page" /\ Next /\ UNCHANGED <<listVars, open>>
  \/ open = "list" /\ Lists!Next /\ UNCHANGED <<vars, open>>

ScreensSpec == ScreensInit /\ [][ScreensNext]_<<vars, listVars, open>>
-----------------------------------------------------------------------------
(* Two rows of a menu, or two stages, share a position only because an     *)
(* action wrote what another had overtaken (Ordering).                     *)
TiesComeFromOverlap == Lists!TiesComeFromOverlap

(* A move nobody overtook puts a row where the screen said and leaves the  *)
(* others in the order they had (Ordering).                                *)
MovesLand == Lists!MovesLand
=============================================================================
