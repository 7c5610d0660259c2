------------------------------- MODULE Panel -------------------------------
(***************************************************************************)
(* The display as loop() drives it: the user button, the automatic cycle   *)
(* of boards without one, the sleep timer and the redraws, over a display  *)
(* driver that is an OLED, the T114's TFT or the Tracker's TFT, which      *)
(* turnOff() leaves uninitialised.                                         *)
(*                                                                         *)
(* millis() runs modulo PanelWrap: a deadline is compared as the code does *)
(* it, and `wrapped' tells that it started over since the last press that  *)
(* was served.  Bound: the panel is as good as never pressed once `rest'   *)
(* has reached PanelWrap.                                                  *)
(***************************************************************************)
EXTENDS Naturals

CONSTANTS PRG_DEBOUNCE, OLED_WAKE_DURATION, SCREEN_AUTO_CYCLE, REDRAW, PanelWrap

ASSUME PanelAssumption ==
    /\ {PRG_DEBOUNCE, OLED_WAKE_DURATION, SCREEN_AUTO_CYCLE, REDRAW, PanelWrap} \subseteq Nat
    /\ PRG_DEBOUNCE < OLED_WAKE_DURATION /\ 2 * OLED_WAKE_DURATION < PanelWrap
    /\ PanelWrap % 2 = 0

VARIABLES now,          \* millis()
          screen,       \* currentScreen
          prgIgnoreUntil, oledWakeUntil, lastAutoCycle, lastOledUpdate,
          display,      \* the driver: kind, _ready, and whether the panel is lit
          hasButton,    \* BOARD.pin_user_button >= 0
          rest,         \* time since the last press that was served (or since setup)
          wrapped       \* millis() started over since then

deadlines == <<prgIgnoreUntil, oledWakeUntil, lastAutoCycle, lastOledUpdate>>
panelVars == <<now, screen, deadlines, display, hasButton, rest, wrapped>>

Screens == {"SLEEP", "STATUS", "RADIO", "DIAGNOSTICS"}
Millis == 0 .. PanelWrap - 1
After(t, d) == (t + d) % PanelWrap
Since(t) == (now + PanelWrap - t) % PanelWrap

\* (int32_t)(millis() - deadline) >= 0
Reached(deadline) == Since(deadline) < PanelWrap \div 2
-----------------------------------------------------------------------------
(* The display drivers *)

Drivers == {"oled", "t114", "tracker"}

\* begin() at boot; an OLED that does not answer stays unused.
DisplayBegun == {[kind |-> k, ready |-> TRUE, lit |-> TRUE] : k \in Drivers}
                \union {[kind |-> "oled", ready |-> FALSE, lit |-> FALSE]}

turnOff(d) == IF d.ready THEN [d EXCEPT !.lit = FALSE, !.ready = d.kind # "tracker"] ELSE d
turnOn(d) == IF d.kind = "tracker" \/ d.ready THEN [d EXCEPT !.lit = TRUE, !.ready = TRUE] ELSE d
-----------------------------------------------------------------------------
\* The end of setup().
PanelInit ==
    /\ now = 1 /\ screen = "STATUS"
    /\ prgIgnoreUntil = 0 /\ oledWakeUntil = After(1, OLED_WAKE_DURATION)
    /\ lastAutoCycle = 1 /\ lastOledUpdate = 0
    /\ display \in DisplayBegun /\ hasButton \in BOOLEAN
    /\ rest = 0 /\ wrapped = FALSE

NextScreen(s) == CASE s = "STATUS" -> "RADIO" [] s = "RADIO" -> "DIAGNOSTICS"
                   [] s \in {"SLEEP", "DIAGNOSTICS"} -> "STATUS"

\* Mutant: the press forgets the sleep timer.
NotAwakened == oledWakeUntil

\* How long a press keeps the panel awake.
Awakened == After(now, OLED_WAKE_DURATION)

PressServed(btn) == hasButton /\ btn /\ now > prgIgnoreUntil
CycleDue == ~hasButton /\ screen # "SLEEP" /\ Since(lastAutoCycle) >= SCREEN_AUTO_CYCLE

\* The end of a pass: sleep, or redraw the screen.
SleepOrDraw(current, wake, drawn, d) ==
    IF current # "SLEEP" /\ Reached(wake)
    THEN screen' = "SLEEP" /\ display' = turnOff(d) /\ lastOledUpdate' = drawn
    ELSE /\ screen' = current /\ display' = d
         /\ lastOledUpdate' = IF current # "SLEEP" /\ Since(drawn) > REDRAW THEN now ELSE drawn

\* A pass of loop() with the button down or up, and the time until the next one.
PanelPass(btn, time) ==
    LET pressed == PressServed(btn)
        moves == pressed \/ CycleDue
        wake == IF pressed \/ ~hasButton THEN Awakened ELSE oledWakeUntil
    IN /\ prgIgnoreUntil' = IF pressed THEN After(now, PRG_DEBOUNCE) ELSE prgIgnoreUntil
       /\ oledWakeUntil' = wake
       /\ lastAutoCycle' = IF CycleDue THEN now ELSE lastAutoCycle
       /\ SleepOrDraw(IF moves THEN NextScreen(screen) ELSE screen, wake,
                      IF moves THEN 0 ELSE lastOledUpdate,
                      IF pressed /\ screen = "SLEEP" THEN turnOn(display) ELSE display)
       /\ now' = After(now, time)
       /\ rest' = IF pressed THEN time ELSE IF rest < PanelWrap THEN rest + time ELSE rest
       /\ wrapped' = ((wrapped /\ ~pressed) \/ now' < now)
       /\ UNCHANGED hasButton

PanelNext == \E btn \in BOOLEAN, time \in {0, 1} : PanelPass(btn, time)

\* loop() runs and time goes by; nobody has to press the button.
PanelSpec == /\ PanelInit /\ [][PanelNext]_panelVars
             /\ WF_panelVars(\E btn \in BOOLEAN : PanelPass(btn, 1))
-----------------------------------------------------------------------------
PanelTypeOK ==
    /\ now \in Millis /\ screen \in Screens
    /\ {prgIgnoreUntil, oledWakeUntil, lastAutoCycle, lastOledUpdate} \subseteq Millis
    /\ display \in [kind : Drivers, ready : BOOLEAN, lit : BOOLEAN]
    /\ hasButton \in BOOLEAN /\ rest \in 0 .. PanelWrap /\ wrapped \in BOOLEAN

\* What loop() takes for a sleeping panel is dark, and every other one is lit.
DarkWhenAsleep ==
    display.ready \/ display.kind = "tracker" => (display.lit <=> screen # "SLEEP")

\* A press outside the debounce time of the one before moves the screen and lights the
\* panel, which then stays lit for OLED_WAKE_DURATION whatever else happens and is dark
\* when it sleeps -- unless millis() started over since that press: main.cpp:2086 compares
\* without a difference.
PressesAnswered ==
    [][/\ hasButton /\ rest > PRG_DEBOUNCE /\ ~wrapped /\ (\E time \in {0, 1} : PanelPass(TRUE, time))
            => screen' \notin {screen, "SLEEP"}
       /\ screen # "SLEEP" /\ screen' = "SLEEP" => hasButton /\ rest >= OLED_WAKE_DURATION
       /\ DarkWhenAsleep']_panelVars

\* A panel whose button is left alone goes to sleep, across the wrap of millis() too.
PanelSleeps == hasButton => []<>(screen = "SLEEP" \/ rest <= 1)
=============================================================================
