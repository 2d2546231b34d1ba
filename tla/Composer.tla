------------------------------- MODULE Composer -------------------------------
(***************************************************************************)
(* The window list of kernel/src/window_manager/composer.rs: an array of   *)
(* slots sorted from the front-most window to the rearmost after every     *)
(* change.  Positions, sizes, buffers and all drawing are left out; popups *)
(* are treated exactly as bars and no program opens one.                   *)
(***************************************************************************)
EXTENDS Integers, FiniteSets

CONSTANTS SLOTS,         \* length of the array (16)
          REAR_Z,        \* the z of a new wallpaper and of an emptied slot (255)
          Pid,           \* processes that open windows
          MaxId,         \* windows opened in a behaviour (bound of the model)
          MaxZ           \* z values explored (bound of the model)

ASSUME ComposerAssumption ==
    /\ SLOTS \in Nat \ {0}
    /\ REAR_Z \in Nat \ {0, 1}
    /\ Pid \subseteq Nat \ {0}
    /\ MaxId \in Nat
    /\ MaxZ \in Nat

VARIABLES windows,   \* the array: id, owner, z and type of each slot
          next_id,   \* NEXT_ID: identifiers are never used again
          clicked    \* CLICKED_WINDOW_ID: the active window, 0 before the first click

cvars == <<windows, next_id, clicked>>

Slot == 1 .. SLOTS

Items == {"Wallpaper", "Bar", "Window"}

WindowRecord == [id : Nat, pid : Nat, z : Nat, w_type : Items \cup {"Null"}]

TypeOK ==
    /\ windows \in [Slot -> WindowRecord]
    /\ next_id \in 1 .. MaxId + 1
    /\ clicked \in 0 .. MaxId

NULL_WINDOW == [id |-> 0, pid |-> 0, z |-> 0, w_type |-> "Null"]

Init ==
    /\ windows = [s \in Slot |-> NULL_WINDOW]
    /\ next_id = 1
    /\ clicked = 0

Live(ws) == {s \in Slot : ws[s].w_type # "Null"}

-----------------------------------------------------------------------------

(* sort_by_key: windows with the same z keep their order. *)
SortedByZ(ws) ==
    LET Before(i, j) == ws[i].z < ws[j].z \/ (ws[i].z = ws[j].z /\ i <= j)
        rank == [s \in Slot |-> Cardinality({i \in Slot : Before(i, s)})]
    IN  [k \in Slot |-> ws[CHOOSE s \in Slot : rank[s] = k]]

(* The z of a new window. *)
FirstZ(w_type) ==
    CASE w_type = "Wallpaper" -> REAR_Z
      [] w_type = "Bar"       -> 0
      [] w_type = "Window"    -> 1

(* What the arrival of a window of type w_type makes of the z of another:  *)
(* a window or wallpaper steps back unless the newcomer is a bar, and then *)
(* it makes sure not to be level with it.                                  *)
MadeRoom(w, w_type) ==
    CASE w.w_type = "Null" -> w
      [] w.w_type = "Bar"  -> [w EXCEPT !.z = 0]
      [] w.w_type \in {"Window", "Wallpaper"} ->
            [w EXCEPT !.z = IF w_type # "Bar" THEN @ + 1 ELSE IF @ = 0 THEN 1 ELSE @]

FirstEmpty(s) == windows[s].w_type = "Null" /\ \A t \in 1 .. s - 1 : windows[t].w_type # "Null"

(* The array after w has arrived: it takes the first empty slot, if there  *)
(* is one, and the others make room in any case.                           *)
Arrived(w) ==
    SortedByZ([s \in Slot |-> IF FirstEmpty(s) THEN w ELSE MadeRoom(windows[s], w.w_type)])

(* The first user program opens the wallpaper before it starts any other. *)
Opens(w_type) == w_type = "Wallpaper" => next_id = 1

(* add_window.  When all slots are taken the window is not stored, but its *)
(* identifier is used up and returned as if it were.                       *)
AddWindow(pid, w_type) ==
    /\ next_id <= MaxId
    /\ \A s \in Slot : windows[s].z < MaxZ
    /\ windows' = Arrived([id |-> next_id, pid |-> pid, z |-> FirstZ(w_type),
                           w_type |-> w_type])
    /\ next_id' = next_id + 1
    /\ UNCHANGED clicked

(* Variant of Focused: the other windows do not step back. *)
FocusedAlone(id) ==
    LET here == {s \in Live(windows) : windows[s].id = id /\ windows[s].w_type = "Window"}
    IN  SortedByZ([s \in Slot |-> IF s \in here THEN [windows[s] EXCEPT !.z = 1]
                                  ELSE windows[s]])

(* The array after focus_window(id): a window comes to the front and the   *)
(* other windows step back; bars and wallpapers do not take part.          *)
Focused(id) ==
    LET here == {s \in Live(windows) : windows[s].id = id /\ windows[s].w_type = "Window"}
    IN  IF here = {} THEN windows
        ELSE SortedByZ([s \in Slot |->
                IF s \in here THEN [windows[s] EXCEPT !.z = 1]
                ELSE IF windows[s].w_type = "Window" THEN [windows[s] EXCEPT !.z = @ + 1]
                ELSE windows[s]])

(* find_window can return the window in slot s for some position of the    *)
(* pointer: windows lie anywhere on the screen, a wallpaper covers it all. *)
Exposed(s) ==
    /\ windows[s].w_type # "Null"
    /\ \A t \in 1 .. s - 1 : windows[t].w_type # "Wallpaper"

(* The left button goes down on the window in slot s: it becomes the       *)
(* active window and is focused, unless it is the active window already.   *)
Click(s) ==
    /\ Exposed(s)
    /\ \A t \in Slot : windows[t].z < MaxZ
    /\ clicked' = windows[s].id
    /\ windows' = IF windows[s].id # clicked THEN Focused(windows[s].id) ELSE windows
    /\ UNCHANGED next_id

(* remove_windows_by_pid: an emptied slot keeps its identifier and owner. *)
RemovedByPid(pid) ==
    LET gone == {s \in Live(windows) : windows[s].pid = pid}
    IN  IF gone = {} THEN windows
        ELSE SortedByZ([s \in Slot |->
                IF s \in gone THEN [windows[s] EXCEPT !.w_type = "Null", !.z = REAR_Z]
                ELSE windows[s]])

(* The windows of a process go when it exits or is killed. *)
OwnerDies(pid) ==
    /\ windows' = RemovedByPid(pid)
    /\ UNCHANGED <<next_id, clicked>>

Next ==
    \/ \E pid \in Pid, w_type \in Items : Opens(w_type) /\ AddWindow(pid, w_type)
    \/ \E s \in Slot : Click(s)
    \/ \E pid \in Pid : OwnerDies(pid)

Spec == Init /\ [][Next]_cvars

-----------------------------------------------------------------------------
(* Properties.                                                             *)

(* Drawing, hit-testing and occlusion culling walk the array and take its  *)
(* order for the stacking order: it is sorted by z whatever was opened,    *)
(* clicked and closed, and no two windows are ever level.                  *)
FrontToBack ==
    \A i, j \in Slot : i < j =>
        /\ windows[i].z <= windows[j].z
        /\ windows[i].w_type = "Window" /\ windows[j].w_type = "Window"
              => windows[i].z < windows[j].z

(* The task bar cannot be covered by a window. *)
BarsInFront ==
    \A i, j \in Slot :
        windows[i].w_type \in {"Window", "Wallpaper"} /\ windows[j].w_type = "Bar" => j < i

(* Whatever was opened, clicked and closed, by whomever and in whichever   *)
(* order, the array can be drawn and searched from front to back.          *)
StackingOrder == FrontToBack /\ BarsInFront
=============================================================================
