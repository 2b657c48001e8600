---------------------------- MODULE UserScreens ----------------------------
(***************************************************************************)
(* The screens of ui.c: the normal screen, the menus and the keypads.  The    *)
(* user walks a tree of menus, kept as a stack of limited depth; a keypad      *)
(* holds Thread1 until a value is keyed in or the console types one.  The      *)
(* console commands menu and mode walk the same stack in Thread1, text runs    *)
(* in the shell thread.  A form is a menu that covers the whole screen, as    *)
(* the menu of modes and those of the output modes do.                          *)
(***************************************************************************)
EXTENDS SequencesExt

CONSTANT MENU_STACK_DEPTH_MAX

ASSUME ScreensAssumption == MENU_STACK_DEPTH_MAX \in Nat \ {0, 1}

VARIABLES
  ui_mode,
  menu_stack,       \* up to menu_current_level
  mode,             \* setting.mode
  doing,            \* Thread1: "sweep", "menu" in cmd_menu, "keypad" in the loop of one
  after,            \* what the callback that opened the keypad then does
  remote_text,
  awaiting,         \* history: a keypad that cmd_menu opened waits for cmd_text
  stuck,            \* history: cmd_text could not close it, because of a form
  astray            \* history: the mode changed below a form of the output mode

histories == <<awaiting, stuck, astray>>
screenVars == <<ui_mode, menu_stack, mode, doing, after, remote_text, histories>>

\* "more" stands for every other menu.
Forms == {"mode", "output form", "form"}
Modes == {"input", "output"}

\* A callback stays, leaves the menus, goes back or into a menu, or enables ultra.
Afters == {"stay", "leave", "back", "push", "ultra"}

ScreenInit ==
  /\ ui_mode = "NORMAL" /\ menu_stack = <<"top">> /\ mode = "input"
  /\ doing = "sweep" /\ after = "stay" /\ remote_text = FALSE
  /\ awaiting = FALSE /\ stuck = FALSE /\ astray = FALSE

-----------------------------------------------------------------------------
(* What is on the screen: the ui_mode and the stack.                         *)

Screen == [ui |-> ui_mode, stack |-> menu_stack]
IsForm(s) == Last(s.stack) \in Forms

\* ui_mode_menu, and ui_mode_normal, which does not leave a form.
InMenu(s) == [s EXCEPT !.ui = "MENU"]
Normal(s) == IF IsForm(s) THEN s ELSE [s EXCEPT !.ui = "NORMAL"]

\* A full stack loses its last menu.
Push(s, menu) ==
  InMenu([s EXCEPT !.stack =
            Append(IF Len(@) = MENU_STACK_DEPTH_MAX THEN Front(@) ELSE @, menu)])

Back(s, leave) ==
  IF Len(s.stack) = 1 THEN s
  ELSE LET below == [s EXCEPT !.stack = Front(@)]
       IN IF leave THEN Normal(below) ELSE InMenu(below)

\* The menus stay on the stack.
MoveTopNot(s) == InMenu(s)

MoveTop(s) == IF Len(s.stack) = 1 THEN s ELSE InMenu([s EXCEPT !.stack = <<"top">>])

HasOutputForm(stack) == \E i \in 1 .. Len(stack) : stack[i] = "output form"

\* The screen becomes s, perhaps in another mode.
ShowsIn(s, m, sets) ==
  /\ ui_mode' = s.ui /\ menu_stack' = s.stack /\ mode' = m
  /\ awaiting' = (awaiting /\ s.ui = "KEYPAD")
  /\ stuck' = (stuck /\ s.ui = "KEYPAD")
  /\ astray' = (HasOutputForm(s.stack) /\ (astray \/ (sets /\ m = "input")))

Shows(s) == ShowsIn(s, mode, FALSE)

-----------------------------------------------------------------------------
(* menu_invoke, for the items of the current menu.                           *)

\* The menu of modes, which goes on with the form of an output mode.
SelectMode ==
  /\ Last(menu_stack) = "mode"
  /\ \/ ShowsIn(Back(Screen, TRUE), "input", FALSE)
     \/ ShowsIn(Push(Screen, "output form"), "output", FALSE)
  /\ UNCHANGED <<doing, after>>

\* A preset, from the flash or a card, or the factory settings set another mode and leave
\* the menus; ENABLE ULTRA and the correction of an input level set an input mode and keep
\* the menus on the stack.
OtherMode ==
  /\ Last(menu_stack) = "more"
  /\ \/ \E m \in Modes, s \in {Back(Screen, TRUE), Normal(Screen)} : ShowsIn(s, m, TRUE)
     \/ \E s \in {Normal(Screen), Push(Screen, "more")} : ShowsIn(s, "input", TRUE)
  /\ UNCHANGED <<doing, after>>

SubMenu ==
  /\ \E menu \in {"mode", "form", "more"} :
       /\ menu = "mode" => Last(menu_stack) = "top"
       /\ Shows(Push(Screen, menu))
  /\ UNCHANGED <<doing, after>>

\* A callback changes a setting and stays, leaves the menus, or goes back, as CANCEL does.
Callback ==
  /\ \/ Shows(Screen) \/ Shows(Normal(Screen))
     \/ \E leave \in BOOLEAN : Shows(Back(Screen, leave))
  /\ UNCHANGED <<doing, after>>

\* What the callback makes of the screen s that its keypad leaves, when the value is right.
Then(s, what) ==
  CASE what = "back" -> Back(s, TRUE)
    [] what = "push" -> Push(s, "more")
    [] what \in {"leave", "ultra"} -> Normal(s)
    [] OTHER -> s

\* ENABLE ULTRA asks for a code before it sets an input mode.
ModeThen(what) == IF what = "ultra" THEN "input" ELSE mode

\* ui_mode_keypad.  In cmd_menu its loop is left at once.  The mode that some callbacks set
\* for the time of their keypad is left out: they put the old one back after it.
OpenKeypad ==
  LET opened == [Screen EXCEPT !.ui = "KEYPAD"] IN
  \E what \in Afters :
    /\ what = "ultra" => Last(menu_stack) = "more"
    /\ IF doing = "menu"
       THEN /\ LET s == Then(opened, what)
               IN /\ ui_mode' = s.ui /\ menu_stack' = s.stack
                  /\ mode' = ModeThen(what)
                  /\ awaiting' = (s.ui = "KEYPAD") /\ stuck' = FALSE
                  /\ astray' = (HasOutputForm(s.stack) /\ (astray \/ what = "ultra"))
            /\ UNCHANGED <<doing, after>>
       ELSE /\ Shows(opened) /\ doing' = "keypad" /\ after' = what

Invoke == (SelectMode \/ OtherMode \/ SubMenu \/ Callback \/ OpenKeypad) /\ UNCHANGED remote_text

-----------------------------------------------------------------------------
(* ui_process: the lever and the touch screen.                               *)

\* A form is brought back, or the user asks for the menu, a quick menu or the menu of a
\* marker.
EnterMenu ==
  /\ doing = "sweep" /\ ui_mode = "NORMAL"
  /\ \/ Shows(InMenu(Screen))
     \/ ~IsForm(Screen) /\ Shows(Push([Screen EXCEPT !.stack = <<"top">>], "more"))
  /\ UNCHANGED <<doing, after, remote_text>>

\* A frequency or a quick menu of the normal screen opens a keypad.
EnterKeypad ==
  /\ doing = "sweep" /\ ui_mode = "NORMAL" /\ ~IsForm(Screen)
  /\ OpenKeypad
  /\ UNCHANGED remote_text

InvokeByUser == doing = "sweep" /\ ui_mode = "MENU" /\ Invoke

\* Beside the buttons, but not beside those of a form.
LeaveMenu ==
  /\ doing = "sweep" /\ ui_mode = "MENU" /\ Shows(Normal(Screen))
  /\ UNCHANGED <<doing, after, remote_text>>

\* Forgets the screens without a form.
ClosedInPlace(s) == IF IsForm(s) THEN InMenu(s) ELSE s

\* What the end of ui_process_keypad shows.
Closed(s) == IF IsForm(s) THEN InMenu(s) ELSE Normal(s)

\* A key ends the input, or a text has come, now or before the keypad was opened.
CloseKeypad ==
  /\ doing = "keypad" /\ doing' = "sweep"
  /\ remote_text' \in {FALSE, remote_text}
  /\ ShowsIn(Then(Closed(Screen), after), ModeThen(after), after = "ultra")
  /\ after' = "stay"

-----------------------------------------------------------------------------
(* The console.                                                              *)

StartMenuCommand ==
  /\ doing = "sweep" /\ doing' = "menu"
  /\ Shows([Normal(Screen) EXCEPT !.stack = <<"top">>])
  /\ UNCHANGED <<after, remote_text>>

InvokeByCommand == doing = "menu" /\ Invoke

EndMenuCommand ==
  /\ doing = "menu" /\ doing' = "sweep"
  /\ UNCHANGED <<ui_mode, menu_stack, mode, after, remote_text, histories>>

ModeCommand ==
  /\ doing = "sweep"
  /\ \/ ShowsIn(Normal(MoveTop(Screen)), "input", FALSE)
     \/ ShowsIn(Push(MoveTop(Screen), "output form"), "output", FALSE)
  /\ UNCHANGED <<doing, after, remote_text>>

\* recall and load, or a self test or calibration of Thread1: the screen stays.
RecallCommand ==
  /\ doing = "sweep" /\ \E m \in Modes : ShowsIn(Screen, m, TRUE)
  /\ UNCHANGED <<doing, after, remote_text>>

\* cmd_text, in the shell thread, which waits while a cmd_menu runs.
Text ==
  /\ doing # "menu"
  /\ remote_text' = TRUE
  /\ ui_mode' = Normal(Screen).ui
  /\ awaiting' = FALSE /\ stuck' = (ui_mode' = "KEYPAD")
  /\ UNCHANGED <<menu_stack, mode, doing, after, astray>>

\* A restart takes the mode over from the backup registers, with its form, or has the
\* mode of the startup preset.
RestartScreen ==
  /\ \/ mode = "output" /\ mode' = mode
        /\ ui_mode' = "MENU" /\ menu_stack' = <<"top", "mode", "output form">>
     \/ mode' \in Modes /\ ui_mode' = "NORMAL" /\ menu_stack' = <<"top">>
  /\ doing' = "sweep" /\ after' = "stay" /\ remote_text' = FALSE
  /\ awaiting' = FALSE /\ stuck' = FALSE /\ astray' = FALSE

ScreenNext ==
  \/ EnterMenu \/ EnterKeypad \/ InvokeByUser \/ LeaveMenu \/ CloseKeypad
  \/ StartMenuCommand \/ InvokeByCommand \/ EndMenuCommand \/ ModeCommand \/ RecallCommand
  \/ Text \/ RestartScreen

ScreenSpec == ScreenInit /\ [][ScreenNext]_screenVars

-----------------------------------------------------------------------------
(* Properties.                                                               *)

\* On a keypad, where ui_process looks neither at the lever nor at the screen, Thread1
\* is in its loop, unless cmd_menu has opened it for a cmd_text that is still to come
\* or that found a form below (ui.c:7471-7500, 7839-7886; main.c:963-998).
KeypadListens ==
  ui_mode = "KEYPAD" => doing \in {"keypad", "menu"} \/ awaiting \/ stuck

\* The menus of an output mode are on the stack in that mode only, unless an input mode has
\* been set below them: by a preset or the factory settings, a self test or calibration,
\* ENABLE ULTRA or the correction of an input level (ui.c:1700-1805, 2140-2230, 2823-2848;
\* sa_cmd.c:59-80).
OutputFormInOutput == HasOutputForm(menu_stack) /\ ~astray => mode = "output"
=============================================================================
