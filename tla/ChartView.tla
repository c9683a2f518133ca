------------------------------ MODULE ChartView ------------------------------
(***************************************************************************)
(* The observation page: qt_host/observation.py (the catalogue, what is    *)
(* ticked in it, the sample buffer) over qt_host/chart.py (axes, lines,    *)
(* toolbar, cursors).  One mouse serves panning, zooming and the cursors;  *)
(* redrawing is put off by a timer; a menu is open while samples and a new *)
(* catalogue arrive.                                                       *)
(*                                                                         *)
(* Samples are reduced to which signals have any and to a version of the   *)
(* buffer, a time range to "start", "fit" (all data) or one the user chose.*)
(***************************************************************************)
EXTENDS Naturals, FiniteSets

CONSTANTS
    Names,        \* signals of all A2L files
    Layouts,      \* numbers of subplots of the layouts
    Ranges        \* time ranges a user pans or zooms to

ChartAssumption ==
    /\ 1 \in Layouts /\ Layouts \subseteq Nat \ {0}
    /\ Ranges \intersect {"start", "fit", "all"} = {}

VARIABLES
    catalog,      \* _items: signals of the loaded A2L
    selected,     \* _selected of the page
    chosen,       \* _selected_signals of the chart
    enabled,      \* _selection_enabled
    signals,      \* state.signals: display style of each known signal
    layout,       \* subplot_count
    follow,       \* the chart follows the newest sample
    mode,         \* of the toolbar: "none", "pan" or "zoom"
    cursors,      \* cursor_count
    drag,         \* the mouse drags a cursor
    view,         \* limits of the axes
    has, version, \* signals with samples, and the state of the buffer
    lines,        \* lines on the axes: subplot, and whether it is shown
    drawn,        \* range and version of the samples in the lines
    dirty, timer, \* _plot_dirty, and _draw_timer is active
    table,        \* signals in the table of cursor values
    menu          \* the signals the page's menu was opened for, {"chart"} for the
                  \* menu of the chart, {} when neither is open

page == <<catalog, selected, enabled, has, version>>
style == <<signals, layout, chosen>>
tools == <<follow, mode, cursors, drag>>
picture == <<view, lines, drawn, dirty, timer, table>>
vars == <<page, style, tools, picture, menu>>

NewStyle == [visible |-> TRUE, subplot |-> 0]

\* ensure_signals.
Ensured(names) ==
    [n \in DOMAIN signals \union names |-> IF n \in DOMAIN signals THEN signals[n] ELSE NewStyle]

Init ==
    /\ catalog = {} /\ selected = {} /\ chosen = {} /\ enabled = FALSE
    /\ signals = [n \in {} |-> NewStyle] /\ layout = 1
    /\ follow = TRUE /\ mode = "none" /\ cursors = 0 /\ drag = FALSE
    /\ view = "start" /\ has = {} /\ version = 0
    /\ lines = [n \in {} |-> NewStyle]
    /\ drawn = [range |-> "all", version |-> 0]
    /\ dirty = FALSE /\ timer = TRUE /\ table = {} /\ menu = {}

-----------------------------------------------------------------------------
\* is_plotted and _render_cursors: the rows are those of the lines shown.
Rows == IF cursors = 0 THEN {}
        ELSE {n \in selected \intersect DOMAIN lines : lines[n].shown}

\* draw, for axes whose limits are "limits": the samples of the limits, or of
\* everything when the chart follows, which then fits the limits to them.
Draw(limits) ==
    /\ lines' = [n \in DOMAIN signals' |->
                    [subplot |-> signals'[n].subplot,
                     shown |-> signals'[n].visible /\ n \in chosen' /\ n \in has']]
    /\ drawn' = [range |-> IF follow' THEN "all" ELSE limits, version |-> version']
    /\ view' = IF follow' THEN "fit" ELSE limits
    /\ dirty' = FALSE /\ timer' = TRUE
    /\ table' = Rows'

MutantNotDirty == timer' = TRUE /\ UNCHANGED dirty

\* _view_limits_changed.
ViewLimitsChanged ==
    IF follow' THEN UNCHANGED <<dirty, timer>> ELSE dirty' = TRUE /\ timer' = TRUE

\* The toolbar's pan and zoom, which also leave following and the cursors; a
\* second call leaves the mode.
Toggled(m) == IF mode = m THEN "none" ELSE m

-----------------------------------------------------------------------------
(* What other parts of the application do to the page.                     *)

\* set_measurements: a new A2L has been read.
SetMeasurements ==
    \E names \in SUBSET Names \ {{}} :
        /\ catalog' = names
        /\ selected' = selected \intersect names
        /\ has' = {} /\ version' = 1 - version
        /\ signals' = [n \in names |-> NewStyle]
        /\ chosen' = selected'
        /\ UNCHANGED <<enabled, layout, tools, menu>>
        /\ Draw("start")

\* append_values and append_samples: samples of signals that are acquired.
AppendSamples ==
    \E names \in SUBSET catalog \ {{}} :
        /\ has' = has \union names /\ version' = 1 - version
        /\ UNCHANGED <<catalog, selected, enabled, style, tools, menu>>
        /\ Draw(view)

\* set_policy.
SetPolicy ==
    /\ enabled' = ~enabled
    /\ UNCHANGED <<catalog, selected, has, version, style, tools, picture, menu>>

-----------------------------------------------------------------------------
(* What the user does on the page, or in its menu for the signals it was   *)
(* opened for.                                                             *)

MutantTickOnly(names, checked) ==
    /\ enabled
    /\ selected' = IF checked THEN selected \union names ELSE selected \ names
    /\ UNCHANGED <<catalog, enabled, has, version, style, tools, picture>>

\* _set_selected, which asks the policy again.
SetSelected(names, checked) ==
    /\ enabled
    /\ selected' = IF checked THEN selected \union names ELSE selected \ names
    /\ chosen' = selected'
    /\ UNCHANGED <<catalog, enabled, has, version, signals, layout, tools>>
    /\ Draw(view)

\* set_signal_display.
Display(names) ==
    /\ \/ \E visible \in BOOLEAN :
            signals' = [n \in DOMAIN Ensured(names) |->
                IF n \in names THEN [Ensured(names)[n] EXCEPT !.visible = visible]
                ELSE Ensured(names)[n]]
       \/ \E subplot \in 0..layout - 1 :
            signals' = [n \in DOMAIN Ensured(names) |->
                IF n \in names THEN [Ensured(names)[n] EXCEPT !.subplot = subplot]
                ELSE Ensured(names)[n]]
    /\ UNCHANGED <<page, layout, chosen, tools>>
    /\ Draw(view)

Tick == menu = {} /\ (\E n \in catalog, b \in BOOLEAN : SetSelected({n}, b)) /\ UNCHANGED menu
Edit == menu = {} /\ (\E n \in catalog : Display({n})) /\ UNCHANGED menu

\* _context: menu.exec has an event loop of its own.
OpenMenu ==
    /\ menu = {}
    /\ \E names \in SUBSET catalog \ {{}} : menu' = names
    /\ UNCHANGED <<page, style, tools, picture>>
CloseMenu ==
    /\ menu \notin {{}, {"chart"}} /\ menu' = {}
    /\ \/ \E checked \in BOOLEAN : SetSelected(menu, checked)
       \/ Display(menu)
       \/ UNCHANGED <<page, style, tools, picture>>

\* clear_samples.
Clear ==
    /\ menu = {} /\ has # {}
    /\ has' = {} /\ version' = 1 - version
    /\ UNCHANGED <<catalog, selected, enabled, style, tools, menu>>
    /\ Draw(view)

-----------------------------------------------------------------------------
(* What the user does on the chart.                                        *)

\* _show_context_menu: a loop of its own, ended by a command or none.
OpenChartMenu ==
    /\ menu = {} /\ menu' = {"chart"}
    /\ UNCHANGED <<page, style, tools, picture>>
CloseChartMenu ==
    /\ menu = {"chart"} /\ menu' = {}
    /\ UNCHANGED <<page, style, tools, picture>>

\* A command given by the controls or in the menu.
Command == menu \in {{}, {"chart"}} /\ menu' = {}

\* Without cursors nothing is dragged (set_cursor_mode(0)).
DragEnds == drag' = (drag /\ cursors' # 0)

\* pan and zoom of the toolbar.
Navigate(m) ==
    /\ menu = {}
    /\ follow' = FALSE /\ cursors' = 0 /\ mode' = Toggled(m) /\ DragEnds
    /\ UNCHANGED <<page, style, view, lines, drawn, dirty, menu>>
    /\ timer' = TRUE /\ table' = Rows'

\* Dragging in a mode, the wheel, back and forward: other limits.
MoveView ==
    /\ menu = {}
    /\ follow' = FALSE
    /\ view' \in Ranges \ {view}
    /\ ViewLimitsChanged
    /\ UNCHANGED <<page, style, mode, cursors, drag, lines, drawn, table, menu>>

Resize ==
    /\ menu = {} /\ UNCHANGED follow
    /\ ViewLimitsChanged
    /\ UNCHANGED <<page, style, mode, cursors, drag, view, lines, drawn, table, menu>>

\* home: fit_view.
FitView ==
    /\ Command
    /\ UNCHANGED <<page, style, tools>>
    /\ Draw("fit")

MutantKeepMode ==
    /\ Command /\ ~follow
    /\ follow' = TRUE
    /\ UNCHANGED <<page, style, mode, cursors, drag>>
    /\ Draw("fit")

\* _follow_changed: following ends the mode of the toolbar, and with it the
\* cursors; without a mode the cursors stay.
Follow ==
    /\ Command /\ ~follow
    /\ follow' = TRUE /\ mode' = "none"
    /\ cursors' = (IF mode = "none" THEN cursors ELSE 0) /\ DragEnds
    /\ UNCHANGED <<page, style>>
    /\ Draw("fit")

Unfollow ==
    /\ Command /\ follow
    /\ follow' = FALSE
    /\ UNCHANGED <<page, style, mode, cursors, drag, picture>>

\* set_cursor_mode: cursors end the mode of the toolbar and following; the
\* table is filled from the lines as they are.
SetCursorMode ==
    /\ Command
    /\ cursors' \in 0..2 \ {cursors} /\ DragEnds
    /\ IF cursors' = 0 THEN UNCHANGED <<follow, mode>> ELSE follow' = FALSE /\ mode' = "none"
    /\ UNCHANGED <<page, style, view, lines, drawn, dirty>>
    /\ timer' = TRUE /\ table' = Rows'

\* _mouse_down on a cursor, _mouse_move and _mouse_up: the values at the cursor
\* are read from the lines as they are.
MouseDown ==
    /\ menu = {} /\ cursors > 0 /\ mode = "none"
    /\ drag' = TRUE
    /\ UNCHANGED <<page, style, follow, mode, cursors, view, lines, drawn, dirty, menu>>
    /\ timer' = TRUE /\ table' = Rows'
MouseUp ==
    /\ drag /\ drag' = FALSE
    /\ UNCHANGED <<page, style, follow, mode, cursors, picture, menu>>

\* set_layout: axes are built anew, signals of subplots that are gone move to
\* the first one.
SetLayout ==
    /\ Command
    /\ layout' \in Layouts
    /\ signals' = [n \in DOMAIN signals |->
                    IF signals[n].subplot < layout' THEN signals[n]
                    ELSE [signals[n] EXCEPT !.subplot = 0]]
    /\ mode' = "none"
    /\ IF mode = "none" THEN UNCHANGED <<follow, cursors>> ELSE follow' = FALSE /\ cursors' = 0
    /\ DragEnds
    /\ UNCHANGED <<page, chosen>>
    /\ Draw("fit")

\* _flush_draw: the timer has run out.
FlushDraw ==
    /\ timer /\ timer' = FALSE /\ dirty' = FALSE
    /\ UNCHANGED <<page, style, tools, menu>>
    /\ IF dirty
       THEN /\ lines' = [n \in DOMAIN signals |->
                            [subplot |-> signals[n].subplot,
                             shown |-> signals[n].visible /\ n \in chosen /\ n \in has]]
            /\ drawn' = [range |-> IF follow THEN "all" ELSE view, version |-> version]
            /\ view' = IF follow THEN "fit" ELSE view
            /\ table' = Rows'
       ELSE UNCHANGED <<lines, drawn, view, table>>

Next ==
    \/ SetMeasurements \/ AppendSamples \/ SetPolicy \/ FlushDraw
    \/ Tick \/ Edit \/ OpenMenu \/ CloseMenu \/ Clear
    \/ (\E m \in {"pan", "zoom"} : Navigate(m)) \/ MoveView \/ Resize \/ FitView
    \/ Follow \/ Unfollow \/ SetCursorMode \/ SetLayout \/ MouseDown \/ MouseUp
    \/ OpenChartMenu \/ CloseChartMenu

Spec == Init /\ [][Next]_vars

-----------------------------------------------------------------------------
\* When no redraw is due, the picture is that of the samples in the buffer for
\* the limits of the axes, and has exactly the ticked and visible signals, each
\* in its subplot, which exists.  Redraws are put off (draw, request_draw,
\* _flush_draw) and what they depend on changes in two dozen handlers.
ShowsWhatItShould ==
    ~timer =>
        /\ drawn.version = version
        /\ drawn.range \in {"all", view}
        /\ lines = [n \in DOMAIN signals |->
                        [subplot |-> signals[n].subplot,
                         shown |-> signals[n].visible /\ n \in selected /\ n \in has]]
        /\ \A n \in DOMAIN lines : lines[n].subplot < layout

\* One user of the mouse: panning and zooming exclude following and cursors, a
\* drag needs a cursor, and the table of cursor values lists the ticked, visible signals with samples.
OneToolAtATime ==
    /\ mode # "none" => ~follow /\ cursors = 0
    /\ drag => cursors > 0
    /\ table = IF cursors = 0 THEN {}
               ELSE {n \in selected \intersect DOMAIN signals : signals[n].visible /\ n \in has}

=============================================================================
