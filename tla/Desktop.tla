-------------------------------- MODULE Desktop --------------------------------
(***************************************************************************)
(* The desktop: the window list of module Composer together with the       *)
(* processes that own windows and with the mouse and keyboard handlers,    *)
(* kernel/src/window_manager/input.rs and interrupts/exceptions.rs.        *)
(*                                                                         *)
(* Of a process only its life is kept; module Tasks has the rest.  Pids    *)
(* are slots of the task table and are used again, window identifiers are  *)
(* not.  Every handler is one step.  The pointer may be over any window    *)
(* that is exposed.  RESIZING_WINDOW is left out: nothing ever sets it.    *)
(***************************************************************************)
EXTENDS Composer

VARIABLES life,       \* [Pid -> Life]
          running,    \* the process whose code runs, 0 if another's does
          left,       \* the left button is down
          drags,      \* DRAGS: packets with the button down, up to three
          titlebar,   \* CLICK_STARTED_IN_TITLEBAR
          dragging    \* DRAGGING_WINDOW: the window that follows the pointer, or 0

ovars == <<life, running>>
mvars == <<left, drags, titlebar, dragging>>
dvars == <<cvars, ovars, mvars>>

(* A process is Risen if it was killed while it ran and went to sleep in   *)
(* the rest of its time slice: it runs again, without its windows.         *)
Life == {"Free", "Alive", "Zombie", "Risen"}

DesktopTypeOK ==
    /\ TypeOK
    /\ life \in [Pid -> Life]
    /\ running \in Pid \cup {0}
    /\ left \in BOOLEAN
    /\ drags \in 0 .. 3
    /\ titlebar \in BOOLEAN
    /\ dragging \in 0 .. MaxId

DInit ==
    /\ Init
    /\ life = [p \in Pid |-> "Free"]
    /\ running = 0
    /\ left = FALSE
    /\ drags = 0
    /\ titlebar = FALSE
    /\ dragging = 0

IsLive(id) == \E s \in Live(windows) : windows[s].id = id

-----------------------------------------------------------------------------
(* Processes.                                                              *)

(* A process is loaded in a free slot. *)
Start(p) ==
    /\ life[p] = "Free"
    /\ life' = [life EXCEPT ![p] = "Alive"]
    /\ UNCHANGED <<cvars, running, mvars>>

(* The scheduler resumes p, or something that owns no window.  A pending   *)
(* signal kills the process it picks, which runs nevertheless.             *)
Resume(p, signalled) ==
    /\ p # 0 => life[p] \in {"Alive", "Risen"}
    /\ signalled => p # 0
    /\ running' = p
    /\ IF signalled
       THEN /\ OwnerDies(p)
            /\ life' = [life EXCEPT ![p] = "Zombie"]
       ELSE UNCHANGED <<cvars, life>>
    /\ UNCHANGED mvars

(* sys_add_window: the window belongs to the running process. *)
Open(w_type) ==
    /\ running # 0
    /\ Opens(w_type)
    /\ AddWindow(running, w_type)
    /\ UNCHANGED <<ovars, mvars>>

(* sys_sleep sets the state of its caller, whatever it was. *)
Doze ==
    /\ running # 0
    /\ life' = [life EXCEPT ![running] = IF @ = "Alive" THEN @ ELSE "Risen"]
    /\ UNCHANGED <<cvars, running, mvars>>

(* sys_exit: the process never runs user code again. *)
Exit ==
    /\ running # 0
    /\ life' = [life EXCEPT ![running] = "Zombie"]
    /\ OwnerDies(running)
    /\ running' = 0
    /\ UNCHANGED mvars

(* Variant of Kill: the windows stay. *)
KillLeavingWindows(p) ==
    /\ life[p] \in {"Alive", "Risen"}
    /\ life' = [life EXCEPT ![p] = "Zombie"]
    /\ UNCHANGED <<cvars, running, mvars>>

(* kill_process(p, 9): p may be the running process, interrupted by the    *)
(* keyboard, and then runs on until the next switch.                       *)
Kill(p) ==
    /\ life[p] \in {"Alive", "Risen"}
    /\ life' = [life EXCEPT ![p] = "Zombie"]
    /\ OwnerDies(p)
    /\ UNCHANGED <<running, mvars>>

(* sys_waitpid frees the slot of a zombie. *)
Reap(p) ==
    /\ life[p] = "Zombie" /\ p # running
    /\ life' = [life EXCEPT ![p] = "Free"]
    /\ UNCHANGED <<cvars, running, mvars>>

-----------------------------------------------------------------------------
(* Input.                                                                  *)

(* Super+X: the handler looks for the active window among all slots, also  *)
(* the emptied ones, and kills the process noted there.                    *)
Shortcut ==
    /\ clicked # 0
    /\ \E s \in Slot :
          /\ windows[s].id = clicked
          /\ \A t \in 1 .. s - 1 : windows[t].id # clicked
          /\ Kill(windows[s].pid)


(* can_move: cleared by the program for the wallpaper only. *)
CanMove(w) == w.w_type # "Wallpaper"

(* A packet that reports the left button pressed, over slot s or, when s   *)
(* is 0, over no window.  To see whether the window can be dragged the     *)
(* handler uses a reference to the slot that it has held over the call to  *)
(* focus_window, which may sort another window into the slot; which of the *)
(* two is asked depends on when the compiler has the flag read.            *)
Press(s, super) ==
    /\ ~left
    /\ left' = TRUE
    /\ drags' = 1
    /\ IF s = 0
       THEN titlebar' = FALSE /\ UNCHANGED cvars
       ELSE /\ Click(s)
            /\ \E w \in {windows[s], windows'[s]} : titlebar' = (super /\ CanMove(w))
    /\ UNCHANGED <<ovars, dragging>>

(* A packet with the button still down: from the third on, a drag begins.  *)
Move ==
    /\ left
    /\ drags' = IF drags < 3 THEN drags + 1 ELSE 3
    /\ dragging' = IF drags' = 3 /\ titlebar /\ dragging = 0 THEN clicked ELSE dragging
    /\ UNCHANGED <<cvars, ovars, left, titlebar>>

(* Variant of Dropped: the test is the wrong way round. *)
DroppedIfDead == IF IsLive(dragging) THEN dragging ELSE 0

(* What is dragged after the button has been released: the handler returns *)
(* early, and leaves DRAGGING_WINDOW set, if the window no longer exists.  *)
Dropped == IF IsLive(dragging) THEN 0 ELSE dragging

(* A packet with the button up. *)
Release ==
    /\ left' = FALSE
    /\ drags' = 0
    /\ titlebar' = FALSE
    /\ dragging' = Dropped
    /\ UNCHANGED <<cvars, ovars>>

DNext ==
    \/ \E p \in Pid : Start(p)
    \/ \E p \in Pid \cup {0}, signalled \in BOOLEAN : Resume(p, signalled)
    \/ \E w_type \in Items : Open(w_type)
    \/ Doze
    \/ Exit
    \/ \E p \in Pid : Kill(p)
    \/ \E p \in Pid : Reap(p)
    \/ Shortcut
    \/ \E s \in Slot \cup {0}, super \in BOOLEAN : Press(s, super)
    \/ Move
    \/ Release

DSpec == DInit /\ [][DNext]_dvars

-----------------------------------------------------------------------------
(* Properties.                                                             *)

Orphans == {windows[s].id : s \in {t \in Live(windows) : life[windows[t].pid] \in {"Free", "Zombie"}}}

(* A window outlives its process only if the process opened it after it    *)
(* had been killed, in the rest of its time slice.                         *)
OrphansOnlyFromTheDead ==
    [][Orphans' \subseteq Orphans
       \/ (running # 0 /\ life[running] \in {"Free", "Zombie"} /\ \E w_type \in Items : Open(w_type))]_dvars

(* While the button is up nothing is being dragged, unless the window died *)
(* in the middle of the drag: then the drag never ends, and the handler    *)
(* neither draws the pointer nor delivers mouse events any more.           *)
DragEnds == ~left /\ dragging # 0 => ~IsLive(dragging)

(* The wallpaper stays where it is, although the handler may look at the   *)
(* wrong slot when it asks whether the window can be moved.                *)
WallpaperStays ==
    \A s \in Slot : windows[s].id = dragging => windows[s].w_type # "Wallpaper"

(* What the mouse handler remembers between two interrupts stays right     *)
(* while windows come, go and change their slots.                          *)
DragsRight == DesktopTypeOK /\ DragEnds /\ WallpaperStays

(* "Killing Process {} associated with Window {}" (exceptions.rs): the     *)
(* process that Super+X kills is the owner of the active window.  It may   *)
(* have nothing to do with it: the emptied slot of a window still names    *)
(* the pid of its owner, which may by now belong to another process.       *)
ShortcutKillsOwner ==
    \A s \in Slot :
        /\ clicked # 0
        /\ windows[s].id = clicked
        /\ life[windows[s].pid] = "Alive"
        => windows[s].w_type # "Null"
=============================================================================
