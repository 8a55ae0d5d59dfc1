---------------------------- MODULE ConfigButton ----------------------------
(***************************************************************************)
(* The BOOT button of the example firmware (examples/src/                  *)
(* wifi_provisioning.cpp).  The cfg-button task samples the pin every      *)
(* CONFIG_BUTTON_SAMPLE_TICKS and turns presses into a pending action; the *)
(* main task polls the action, and when the request marker cannot be       *)
(* opened it resets the six fields the sampler owns, one assignment after  *)
(* another and without a lock, while the sampler keeps running.            *)
(*                                                                         *)
(* Time is counted in samples.  A time stamp is kept as its age, capped    *)
(* one past the largest threshold it is compared with; the stamp 0 that    *)
(* the resets store has the age of the whole uptime.  One sample is one    *)
(* step; the main task may be interrupted between any two assignments.     *)
(***************************************************************************)
EXTENDS Naturals, Sequences

CONSTANTS
    ClickMin,      \* CONFIG_CLICK_MIN_MS, in samples
    ClickWindow,   \* CONFIG_CLICK_WINDOW_MS, in samples
    EditHold,      \* CONFIG_EDIT_HOLD_MS, in samples
    MaxRefusals    \* bound: how often a marker file cannot be opened

ASSUME ButtonAssumption ==
    /\ ClickMin \in Nat /\ ClickWindow \in Nat /\ EditHold \in Nat
    /\ MaxRefusals \in Nat
    /\ 0 < ClickMin /\ ClickMin < ClickWindow /\ ClickWindow < EditHold

VARIABLES
    uptime,        \* millis(), capped at EditHold
    wasPressed,    \* buttonWasPressed
    pressedAge,    \* now - buttonPressedAt
    clickCount,    \* buttonClickCount
    windowAge,     \* now - buttonClickWindowStartedAt
    holdTriggered, \* buttonHoldActionTriggered
    pending,       \* pendingButtonAction
    polling,       \* 0: not polling, 1..6: next assignment of the reset,
                   \* 7: the request is stored, the device restarts
    refusals,      \* marker files that could not be opened so far
    down,          \* history: the finger was seen on the button ...
    downFor,       \* history: ... for this many samples in a row
    gaps,          \* history: time between the latest clicks that lie within
                   \* one window, newest first
    quiet,         \* history: time since the latest click
    interrupted    \* history: a sample fell between two assignments of the
                   \* reset, and a press or a count has been open since

sampler == <<wasPressed, pressedAge, clickCount, windowAge, holdTriggered>>
finger == <<down, downFor, gaps, quiet>>
vars == <<uptime, sampler, pending, polling, refusals, finger, interrupted>>

ButtonActions == {"None", "WifiReset", "Edit", "FactoryReset"}
WindowCap == ClickWindow + 1

Older(age, cap) == IF age < cap THEN age + 1 ELSE cap
AtMost(age, cap) == IF age < cap THEN age ELSE cap

TypeOK ==
    /\ uptime \in 0..EditHold
    /\ wasPressed \in BOOLEAN /\ holdTriggered \in BOOLEAN
    /\ pressedAge \in 0..EditHold
    /\ clickCount \in 0..5
    /\ windowAge \in 0..WindowCap
    /\ pending \in ButtonActions
    /\ polling \in 0..7
    /\ refusals \in 0..MaxRefusals
    /\ down \in BOOLEAN /\ interrupted \in BOOLEAN
    /\ downFor \in 0..EditHold
    /\ quiet \in 0..WindowCap
    /\ gaps \in Seq(1..ClickWindow) /\ Len(gaps) <= 4

-----------------------------------------------------------------------------

\* Static initialisation: every stamp is 0 and the clock starts at 0.
PoweredUp ==
    /\ uptime' = 0
    /\ wasPressed' = FALSE /\ pressedAge' = 0
    /\ clickCount' = 0 /\ windowAge' = 0
    /\ holdTriggered' = FALSE
    /\ pending' = "None" /\ polling' = 0
    /\ interrupted' = FALSE

Init ==
    /\ uptime = 0
    /\ wasPressed = FALSE /\ pressedAge = 0
    /\ clickCount = 0 /\ windowAge = 0
    /\ holdTriggered = FALSE
    /\ pending = "None" /\ polling = 0
    /\ refusals = 0
    /\ down = FALSE /\ downFor = 0
    /\ gaps = <<>> /\ quiet = WindowCap
    /\ interrupted = FALSE

-----------------------------------------------------------------------------
\* What the finger did as far as the device watched it, without the counters
\* and stamps of the code.

\* The longest run of latest gaps that fits in one window, four at most.
WithinWindow(gs) ==
    LET total(n) == IF n = 0 THEN 0
                    ELSE IF n = 1 THEN gs[1]
                    ELSE IF n = 2 THEN gs[1] + gs[2]
                    ELSE IF n = 3 THEN gs[1] + gs[2] + gs[3]
                    ELSE gs[1] + gs[2] + gs[3] + gs[4]
        fits == {n \in 0..AtMost(Len(gs), 4) : total(n) <= ClickWindow}
    IN  SubSeq(gs, 1, CHOOSE n \in fits : \A k \in fits : k <= n)

\* Nobody looks: a press that lasts is a new press to whoever looks again.
FingerUnwatched ==
    /\ down' = FALSE /\ downFor' = 0
    /\ quiet' = Older(quiet, WindowCap)
    /\ UNCHANGED gaps

FingerDown ==
    /\ down' = TRUE
    /\ downFor' = IF down THEN Older(downFor, EditHold) ELSE 0
    /\ quiet' = Older(quiet, WindowCap)
    /\ UNCHANGED gaps

FingerUp ==
    LET held == Older(downFor, EditHold)
        click == down /\ ClickMin <= held /\ held < EditHold
        since == Older(quiet, WindowCap)
    IN  /\ down' = FALSE /\ downFor' = 0
        /\ gaps' = IF click THEN WithinWindow(<<since>> \o gaps) ELSE gaps
        /\ quiet' = IF click THEN 0 ELSE since

-----------------------------------------------------------------------------
\* sampleConfigButton, one call of the cfg-button task.

\* Faulty variant: clicks count however old they are.
CountedClicksAnyAge == clickCount

\* The clicks that still count: an expired window starts the count again.
CountedClicks ==
    IF clickCount > 0 /\ Older(windowAge, WindowCap) > ClickWindow THEN 0
    ELSE clickCount

\* Faulty variant: off by one.
LimitReachedLate(n) == n > 5

LimitReached(n) == n >= 5

HoldReached == ~holdTriggered /\ Older(pressedAge, EditHold) >= EditHold

\* Time passes; an action that waits to be polled blocks the sampler.
SampleBlocked ==
    /\ pending # "None"
    /\ FingerUnwatched
    /\ pressedAge' = Older(pressedAge, EditHold)
    /\ windowAge' = Older(windowAge, WindowCap)
    /\ UNCHANGED <<wasPressed, clickCount, holdTriggered, pending>>

\* The release of a press: a click when it was neither a bounce nor a hold.
SampleRelease ==
    LET duration == Older(pressedAge, EditHold)
        click == ~holdTriggered /\ ClickMin <= duration /\ duration < EditHold
    IN  /\ pending = "None" /\ wasPressed
        /\ FingerUp
        /\ wasPressed' = FALSE
        /\ pressedAge' = Older(uptime, EditHold)
        /\ holdTriggered' = FALSE
        /\ clickCount' = IF click THEN CountedClicks + 1 ELSE clickCount
        /\ windowAge' = IF click /\ CountedClicks = 0 THEN 0
                        ELSE Older(windowAge, WindowCap)
        /\ pending' = IF click /\ LimitReached(CountedClicks + 1)
                      THEN "FactoryReset" ELSE "None"

\* No press: an expired window decides what its clicks meant.
SampleIdle ==
    LET sinceWindow == Older(windowAge, WindowCap)
        expired == clickCount > 0 /\ sinceWindow > ClickWindow
    IN  /\ pending = "None" /\ ~wasPressed
        /\ FingerUp
        /\ pressedAge' = Older(pressedAge, EditHold)
        /\ windowAge' = sinceWindow
        /\ pending' = IF expired /\ clickCount = 3 THEN "WifiReset" ELSE "None"
        /\ clickCount' = IF expired /\ clickCount # 3 THEN 0 ELSE clickCount
        /\ UNCHANGED <<wasPressed, holdTriggered>>

SamplePress ==
    /\ pending = "None" /\ ~wasPressed
    /\ FingerDown
    /\ wasPressed' = TRUE
    /\ pressedAge' = 0
    /\ holdTriggered' = FALSE
    /\ windowAge' = Older(windowAge, WindowCap)
    /\ UNCHANGED <<clickCount, pending>>

SampleHeld ==
    /\ pending = "None" /\ wasPressed
    /\ FingerDown
    /\ pressedAge' = Older(pressedAge, EditHold)
    /\ windowAge' = Older(windowAge, WindowCap)
    /\ holdTriggered' = (holdTriggered \/ HoldReached)
    /\ clickCount' = IF HoldReached THEN 0 ELSE clickCount
    /\ pending' = IF HoldReached THEN "Edit" ELSE "None"
    /\ UNCHANGED wasPressed

Sample ==
    /\ \/ SampleBlocked
       \/ SampleRelease
       \/ SampleIdle
       \/ SamplePress
       \/ SampleHeld
    /\ uptime' = Older(uptime, EditHold)
    /\ LET open == wasPressed' \/ clickCount' > 0 \/ pending' # "None"
       IN  interrupted' = (polling \in 2..6 \/ (interrupted /\ open))
    /\ UNCHANGED <<polling, refusals>>

-----------------------------------------------------------------------------
\* pollConfigResetButton, called by the main task.

\* The request is on flash (or the factory reset is done): delay, then restart.
PollServed ==
    /\ polling = 0 /\ pending # "None"
    /\ polling' = 7
    /\ UNCHANGED <<uptime, sampler, pending, refusals, finger, interrupted>>

\* The marker file cannot be opened: give the request up.
PollRefused ==
    /\ polling = 0 /\ pending \in {"Edit", "WifiReset"}
    /\ refusals < MaxRefusals
    /\ refusals' = refusals + 1
    /\ polling' = 1
    /\ UNCHANGED <<uptime, sampler, pending, finger, interrupted>>

\* One assignment of the give-up path.
ResetField ==
    /\ polling \in 1..6
    /\ polling' = IF polling = 6 THEN 0 ELSE polling + 1
    /\ pending' = IF polling = 1 THEN "None" ELSE pending
    /\ clickCount' = IF polling = 2 THEN 0 ELSE clickCount
    /\ windowAge' = IF polling = 3 THEN AtMost(uptime, WindowCap) ELSE windowAge
    /\ wasPressed' = IF polling = 4 THEN FALSE ELSE wasPressed
    /\ pressedAge' = IF polling = 5 THEN uptime ELSE pressedAge
    /\ holdTriggered' = IF polling = 6 THEN FALSE ELSE holdTriggered
    /\ down' = (down /\ polling # 4)
    /\ downFor' = IF polling = 4 THEN 0 ELSE downFor
    /\ UNCHANGED <<uptime, refusals, gaps, quiet, interrupted>>

\* ESP.restart, after which the finger is watched anew.
Restart ==
    /\ polling = 7
    /\ PoweredUp
    /\ down' = FALSE /\ downFor' = 0
    /\ gaps' = <<>> /\ quiet' = WindowCap
    /\ UNCHANGED refusals

Next == Sample \/ PollServed \/ PollRefused \/ ResetField \/ Restart

Spec == Init /\ [][Next]_vars

-----------------------------------------------------------------------------

\* README: "5 short clicks: full factory reset", "3 short clicks: clear WiFi
\* credentials", "Hold 4 seconds: restart into tunnel-configuration edit mode".
\* The factory reset is raised only when the finger made five clicks within one
\* window, the WiFi reset only after three and when the window of the first is
\* over, the edit request only for a press of that length, unless a sample fell
\* between the assignments of an earlier give-up path: stamps and counts then
\* no longer belong together, and a press registered between the resets of
\* buttonWasPressed and buttonPressedAt counts as held since power-up.  Even
\* then a factory reset takes four real clicks within one window: at most one
\* bounce is taken for a click before the count starts again.
ActionsEarned ==
    [][pending = "None" =>
         /\ pending' = "FactoryReset" =>
              \/ Len(gaps') >= 4 /\ quiet' = 0
              \/ Len(gaps') >= 3 /\ interrupted'
         /\ pending' = "WifiReset" =>
              \/ Len(gaps') >= 2 /\ gaps'[1] + gaps'[2] + quiet' > ClickWindow
              \/ interrupted'
         /\ pending' = "Edit" => downFor' >= EditHold \/ interrupted']_vars
=============================================================================
