------------------------------ MODULE Dashboard ------------------------------
(***************************************************************************)
(* The terminal dashboard, `oxmgr ui`.  One loop fetches the process list  *)
(* when it is due, redraws the frame when something asked for it, and      *)
(* handles one input event; a handler that asks the daemon for something   *)
(* waits for the answer.  The selection is a row number of the visible     *)
(* list, which changes under it with every fetch, filter, sort and search, *)
(* and mouse clicks are placed by the layout of the last frame.  Other     *)
(* clients change the daemon's processes at any time.                      *)
(*                                                                         *)
(* A frame is what is drawn of the state; widths and heights are those of  *)
(* the code, but for the rows around the table and the log.                *)
(***************************************************************************)
EXTENDS Naturals, Sequences, FiniteSets

CONSTANTS
    NONE,
    Names,          \* process names; each is also the key that types it
    Looks,          \* what else a listed process shows: [status, health, cpu, ram, restarts]
    MaxId,          \* bound: process ids
    Listed,         \* the daemon's processes at first
    Sizes,          \* the terminal sizes, [width, height]
    Chrome,         \* bound: rows of a frame outside the table (nine in the code)
    ViewerChrome,   \* bound: rows of a frame outside the log (six in the code)
    MaxLines,       \* bound: lines of a log file
    MaxText,        \* bound: length of a typed text (64 and 256 in the code)
    MaxChanges,     \* bound: changes made by other clients
    MaxEvents       \* bound: input events

Space == " "
Lines == 0 .. MaxLines

\* CreateProcessForm, DeleteConfirmState and LogViewerState.
Form    == [command : Seq(Names \cup {Space}), name : Seq(Names \cup {Space}),
            active : {"command", "name"}, error : BOOLEAN]
Confirm == [target : Names, choice : {"cancel", "delete"}]
Viewer  == [name : Names, unified : BOOLEAN, out : Lines, err : Lines,
            source : {"stdout", "stderr"}, scroll : Lines]

ASSUME DashboardAssumption ==
    /\ IsFiniteSet(Names) /\ IsFiniteSet(Listed)
    /\ NONE \notin Names /\ NONE \notin Form /\ NONE \notin Confirm /\ NONE \notin Viewer
    /\ Names \cap {"esc", "tab", "backspace", "delete", "enter"} = {}  \* keys that type nothing
    /\ Looks \subseteq [status : STRING, health : STRING, cpu : Nat, ram : Nat, restarts : Nat]
    /\ Listed \subseteq [id : 1 .. Cardinality(Listed), name : Names, look : Looks]
    /\ \A p, q \in Listed : p.id = q.id \/ p.name = q.name => p = q
    /\ Cardinality(Listed) <= MaxId
    /\ Sizes # {} /\ Sizes \subseteq [width : Nat, height : Nat]
    /\ {MaxId, Chrome, ViewerChrome, MaxLines, MaxText, MaxChanges, MaxEvents} \subseteq Nat

VARIABLES
    table,      \* the daemon's processes
    nextId,     \* the id the daemon gives next
    changes,    \* changes made by other clients
    size,       \* of the terminal
    processes,  \* the list fetched last
    state,      \* DashboardState
    frame,      \* the frame drawn last, with its FrameInfo
    pc,         \* where run_tui is: "top", "draw", "input" or "done"
    redraw,     \* needs_redraw
    refresh,    \* next_refresh_at was set to now
    event,      \* the input event handled last in this round
    asked,      \* the request its handler sent
    events      \* input events handled

daemon == <<table, nextId, changes>>
loop   == <<redraw, refresh>>
vars   == <<daemon, size, processes, state, frame, pc, loop, event, asked, events>>

Process == [id : 1 .. MaxId, name : Names, look : Looks]
Named(procs, n) == {p \in procs : p.name = n}
Low(a, b)  == IF a < b THEN a ELSE b
High(a, b) == IF a < b THEN b ELSE a
Less(a, b) == IF a < b THEN 0 ELSE a - b

-----------------------------------------------------------------------------
(* The visible list.                                                        *)

\* ProcessFilter and ProcessSort with their order of cycling.
Filters == <<"all", "running", "stopped", "unhealthy">>
Sorts   == <<"id", "name", "cpu", "ram", "restarts">>

After(cycle, x) ==
    LET i == CHOOSE i \in DOMAIN cycle : cycle[i] = x IN cycle[(i % Len(cycle)) + 1]

Matches(p, filter) ==
    CASE filter = "all"       -> TRUE
      [] filter = "unhealthy" -> p.look.health = "unhealthy"
      [] OTHER                -> p.look.status = filter

\* A query is compared with the process's texts, of which its name stands here.
MatchesQuery(p, query) == query \in {<<>>, <<p.name>>}

\* One order of the names stands for the alphabet's.
NameOrder == CHOOSE f \in [Names -> 1 .. Cardinality(Names)] :
                 \A m, n \in Names : f[m] = f[n] => m = n

\* Resource columns sort downwards, and ids break ties.
Precedes(p, q, sort) ==
    LET byId == p.id < q.id IN
    CASE sort = "id"   -> byId
      [] sort = "name" -> \/ NameOrder[p.name] < NameOrder[q.name]
                          \/ p.name = q.name /\ byId
      [] OTHER         -> \/ p.look[sort] > q.look[sort]
                          \/ p.look[sort] = q.look[sort] /\ byId

Visible(procs, s) ==
    LET shown == {p \in procs : Matches(p, s.filter) /\ MatchesQuery(p, s.query)}
        Rank(p) == Cardinality({q \in shown : Precedes(q, p, s.sort)})
    IN  [i \in 1 .. Cardinality(shown) |-> CHOOSE p \in shown : Rank(p) = i - 1]

\* A slip: the selection is kept when the list got shorter.
Clamped_Kept(s, procs) == s

Clamped(s, procs) ==
    LET n == Len(Visible(procs, s))
    IN  [s EXCEPT !.selected = IF n = 0 THEN 0 ELSE Low(@, n - 1)]

\* selected_target: rows are counted from zero.
Target(procs, s) ==
    LET rows == Visible(procs, s)
    IN  IF s.selected < Len(rows) THEN rows[s.selected + 1].name ELSE NONE

-----------------------------------------------------------------------------
(* The frame.                                                               *)

\* One column is kept unused.
Width       == High(Less(size.width, 1), 1)
TableRows   == High(Less(size.height, Chrome), 1)
ViewerRows  == High(Less(size.height, ViewerChrome), 1)
\* The widths of the nine columns and the separators between them.
TableWidth  == 1 + 4 + 18 + 10 + 8 + 9 + 6 + 9 + 9 + 8 * 3
TooSmall    == Width < 80 \/ size.height < 20

\* process_sidebar_layout.
SidebarWidth == High(Low(Less(Width - 2, 66 + 1), 44), 36)
SidebarFits  == Width >= 110 /\ size.height >= 14 /\ Width - 2 >= 66 + 1 + 36

Sidebar(procs) ==
    /\ state.viewer = NONE /\ ~state.menu /\ ~state.help /\ state.form = NONE
    /\ Target(procs, state) # NONE
    /\ SidebarFits

\* table_inner_width.
TableInner(procs) == Less(IF Sidebar(procs) THEN Less(Width, SidebarWidth + 1) ELSE Width, 2)

\* compute_table_view scrolls the table so that the selected row is its last.
StartIndex == IF state.selected >= TableRows THEN state.selected + 1 - TableRows ELSE 0

Overlays ==
    {o \in {"search", "form", "confirm", "help", "menu"} :
        CASE o = "search"  -> state.searching
          [] o = "form"    -> state.form # NONE
          [] o = "confirm" -> state.confirm # NONE
          [] o = "help"    -> state.help
          [] o = "menu"    -> state.menu}

Kind == CASE TooSmall             -> "small"
          [] state.viewer # NONE  -> "viewer"
          [] OTHER                -> "fleet"

Fits(procs) == Kind = "fleet" /\ TableWidth <= TableInner(procs)

\* draw_table: a table that is too wide for its pane is left out.
TableDrawn(procs) ==
    LET rows == Visible(procs, state)
    IN  IF Fits(procs) THEN SubSeq(rows, StartIndex + 1, Low(Len(rows), StartIndex + TableRows))
                       ELSE <<>>

\* The marked row, or the process of the sidebar.
Marked(procs) ==
    IF Fits(procs) \/ (Kind = "fleet" /\ Sidebar(procs)) THEN Target(procs, state) ELSE NONE

Dialog == IF Kind = "fleet" THEN state.confirm ELSE NONE

\* esc_menu_layout and delete_confirm_layout.
Buttons ==
    {o \in Overlays : \/ o = "menu" /\ Width >= 30 /\ size.height >= 10
                      \/ o = "confirm" /\ Width >= 44 /\ size.height >= 12}

\* draw_frame: nothing is drawn in a small terminal, but the buttons are laid out.
Frame(procs) ==
    [kind     |-> Kind,
     rows     |-> TableDrawn(procs),
     start    |-> StartIndex,
     height   |-> TableRows,
     marked   |-> Marked(procs),
     overlays |-> IF Kind = "small" THEN {} ELSE Overlays,
     dialog   |-> Dialog,
     buttons  |-> IF Kind = "viewer" THEN {} ELSE Buttons]

NoFrame == [kind |-> "none", rows |-> <<>>, start |-> 0, height |-> 3, marked |-> NONE,
            overlays |-> {}, dialog |-> NONE, buttons |-> {}]

-----------------------------------------------------------------------------
(* The daemon, as its other clients and the dashboard's requests change it. *)

Status(ls) == {l \in Looks : l.status = ls}
Free       == {n \in Names : Named(table, n) = {}}

Relooked(n, looks) ==
    {(table \ Named(table, n)) \cup {[p EXCEPT !.look = l] : p \in Named(table, n)} : l \in looks}

\* A name the daemon knows is never given to a second process.
Started(names) ==
    {table \cup {[id |-> nextId, name |-> n, look |-> l]} : n \in names \cap Free, l \in Status("running")}

OtherClient ==
    /\ changes < MaxChanges
    /\ changes' = changes + 1
    /\ \/ /\ nextId <= MaxId
          /\ table' \in Started(Names)
          /\ nextId' = nextId + 1
       \/ /\ \E n \in Names \ Free :
                table' \in Relooked(n, Looks) \cup {table \ Named(table, n)}
          /\ UNCHANGED nextId
    /\ UNCHANGED <<size, processes, state, frame, pc, loop, event, asked, events>>

Outcomes(verb, n) ==
    CASE verb = "delete"              -> {table \ Named(table, n)}
      [] verb = "stop"                -> Relooked(n, Status("stopped"))
      [] verb \in {"restart", "reload"} -> Relooked(n, Status("running"))
      [] verb = "pull"                -> {table} \cup Relooked(n, Status("running"))
      [] verb = "logs"                -> {table}

Request(verb, n) == [verb |-> verb, target |-> n]

\* send_request and expect_ok: the daemon answers, refuses, or is not there.
Ask(verb, n, ok, err) ==
    /\ asked' = Request(verb, n)
    /\ UNCHANGED <<nextId, changes>>
    /\ \/ /\ n \notin Free
          /\ table' \in Outcomes(verb, n)
          /\ state' \in ok
       \/ /\ UNCHANGED table
          /\ state' = err

-----------------------------------------------------------------------------
(* run_tui.                                                                 *)

Info(s)  == [s EXCEPT !.flash = "info"]
Error(s) == [s EXCEPT !.flash = "error"]

\* A slip: nothing is fetched behind an overlay.
Fetch_NotBehind ==
    /\ pc = "top" /\ pc' = "draw"
    /\ IF Overlays = {} /\ state.viewer = NONE
       THEN /\ processes' = table
            /\ state' = [Clamped(state, table) EXCEPT !.flash = IF @ = "error" THEN "none" ELSE @]
       ELSE UNCHANGED <<processes, state>>
    /\ refresh' = FALSE /\ redraw' = TRUE
    /\ event' = NONE /\ asked' = NONE
    /\ UNCHANGED <<daemon, size, frame, events>>

\* The refresh is due.  An error that was shown, or was about to be, goes away.
Fetch ==
    /\ pc = "top" /\ pc' = "draw"
    /\ processes' = table
    /\ state' = [Clamped(state, table) EXCEPT !.flash = IF @ = "error" THEN "none" ELSE @]
    /\ refresh' = FALSE /\ redraw' = TRUE
    /\ event' = NONE /\ asked' = NONE
    /\ UNCHANGED <<daemon, size, frame, events>>

FetchFails ==
    /\ pc = "top" /\ pc' = "draw"
    /\ state' = Error(state)
    /\ refresh' = FALSE /\ redraw' = TRUE
    /\ event' = NONE /\ asked' = NONE
    /\ UNCHANGED <<daemon, size, processes, frame, events>>

NotDue ==
    /\ pc = "top" /\ pc' = "draw"
    /\ ~refresh
    /\ event' = NONE /\ asked' = NONE
    /\ UNCHANGED <<daemon, size, processes, state, frame, loop, events>>

Draw ==
    /\ pc = "draw" /\ pc' = "input"
    /\ UNCHANGED <<daemon, size, processes, refresh, event, asked, events>>
    /\ redraw' = FALSE
    /\ IF redraw THEN /\ state' = Clamped(state, processes)
                      /\ frame' = Frame(processes)'
                 ELSE UNCHANGED <<state, frame>>

\* event::poll timed out.
NoInput ==
    /\ pc = "input" /\ pc' = "top"
    /\ UNCHANGED <<daemon, size, processes, state, frame, loop, event, asked, events>>

\* prune_flash, at the end of a round.
PruneFlash ==
    /\ pc = "top"
    /\ state.flash # "none"
    /\ state' = [state EXCEPT !.flash = "none"]
    /\ redraw' = TRUE
    /\ UNCHANGED <<daemon, size, processes, frame, pc, refresh, event, asked, events>>

\* One input event is read and handled; the round ends.
Read(e) ==
    /\ pc = "input"
    /\ events < MaxEvents
    /\ events' = events + 1
    /\ event' = e
    /\ UNCHANGED <<processes, frame>>

\* LoopControl: how a handler ends.
Repaint  == pc' = "top"  /\ redraw' = TRUE /\ UNCHANGED <<refresh, size>>
Renew    == pc' = "top"  /\ redraw' = TRUE /\ refresh' = TRUE /\ UNCHANGED size
Ignore   == pc' = "top"  /\ UNCHANGED <<loop, state, size>>
Exit     == pc' = "done" /\ UNCHANGED <<loop, state, size>>
Silently == asked' = NONE /\ UNCHANGED daemon

Key(k)   == [kind |-> "key", key |-> k]
Click(b) == [kind |-> "button", button |-> b]
Row(i)   == [kind |-> "row", row |-> i]
Wheel(w) == [kind |-> "wheel", turn |-> w]

-----------------------------------------------------------------------------
(* Keys, by the overlay that owns them.                                     *)

\* A slip: keys are the prompt's once something is typed.
Focus_Typed ==
    CASE state.searching /\ state.query # <<>> -> "search"
      [] state.form # NONE     -> "form"
      [] state.confirm # NONE  -> "confirm"
      [] state.viewer # NONE   -> "viewer"
      [] state.help            -> "help"
      [] state.menu            -> "menu"
      [] OTHER                 -> "dashboard"

Focus ==
    CASE state.searching       -> "search"
      [] state.form # NONE     -> "form"
      [] state.confirm # NONE  -> "confirm"
      [] state.viewer # NONE   -> "viewer"
      [] state.help            -> "help"
      [] state.menu            -> "menu"
      [] OTHER                 -> "dashboard"

Shortened(text) == SubSeq(text, 1, Less(Len(text), 1))
Typed(text, ch) == IF Len(text) < MaxText THEN Append(text, ch) ELSE text

SearchKey(k) ==
    /\ Focus = "search"
    /\ Read(Key(k)) /\ Silently /\ Repaint
    /\ CASE k = "esc"       -> state' = [state EXCEPT !.searching = FALSE]
         [] k = "backspace" -> state' = Clamped([state EXCEPT !.query = Shortened(@)], processes)
         [] k = "delete"    -> state' = Clamped([state EXCEPT !.query = <<>>], processes)
         [] k \in Names     -> state' = Clamped([state EXCEPT !.query = Typed(@, k)], processes)

Blank(t) == \A i \in DOMAIN t : t[i] = Space
NewForm  == [command |-> <<>>, name |-> <<>>, active |-> "command", error |-> FALSE]

EditForm(k) ==
    LET form == state.form
        Edited(t) == IF k = "backspace" THEN Shortened(t) ELSE Typed(t, k)
    IN  state' = [state EXCEPT !.form =
            CASE k = "esc" -> NONE
              [] k = "tab" -> [form EXCEPT !.active = IF @ = "command" THEN "name" ELSE "command",
                                           !.error = FALSE]
              [] OTHER     -> [form EXCEPT ![form.active] = Edited(@), !.error = FALSE]]

\* submit_create_form: a start that fails leaves the form open.  A process without a
\* name is given one by the daemon.
SubmitForm ==
    LET form  == state.form
        names == IF Blank(form.name) THEN Names ELSE {n \in Names : form.name = <<n>>}
        fails == state' = [state EXCEPT !.form.error = TRUE]
    IN  IF Blank(form.command)
        THEN fails /\ Silently
        ELSE /\ asked' = Request("start", NONE)
             /\ UNCHANGED changes
             /\ \/ /\ nextId <= MaxId
                   /\ table' \in Started(names)
                   /\ nextId' = nextId + 1
                   /\ state' = Info([state EXCEPT !.form = NONE])
                \/ /\ fails
                   /\ UNCHANGED <<table, nextId>>

FormKey(k) ==
    /\ Focus = "form"
    /\ Read(Key(k))
    /\ IF k = "enter" THEN SubmitForm /\ Renew
                      ELSE EditForm(k) /\ Silently /\ Repaint

\* A slip: the dialog deletes the row that is selected now.
Doomed_Selected(s) == Target(processes, s)

Doomed(s) == s.confirm.target

\* confirm_delete: the dialog closes, whatever the answer.
ConfirmDelete ==
    LET closed == [state EXCEPT !.confirm = NONE]
    IN  Ask("delete", Doomed(state), {Info(closed)}, Error(closed)) /\ Renew

\* close_delete_confirm, and the choice between the buttons.
CloseConfirm  == state' = [state EXCEPT !.confirm = NONE] /\ Silently /\ Repaint
ChooseButton(c) == state' = [state EXCEPT !.confirm.choice = c] /\ Silently /\ Repaint

ConfirmKey(k) ==
    /\ Focus = "confirm"
    /\ Read(Key(k))
    /\ CASE k \in {"esc", "n"} -> CloseConfirm
         [] k = "left"         -> ChooseButton("cancel")
         [] k = "right"        -> ChooseButton("delete")
         [] k = "y"            -> ConfirmDelete
         [] k = "enter"        -> IF state.confirm.choice = "delete" THEN ConfirmDelete ELSE CloseConfirm

HelpKey(k) ==
    /\ Focus = "help"
    /\ Read(Key(k)) /\ Silently
    /\ IF k = "q" THEN Exit ELSE state' = [state EXCEPT !.help = FALSE] /\ Repaint

MenuKey(k) ==
    /\ Focus = "menu"
    /\ Read(Key(k)) /\ Silently
    /\ \/ k = "esc"   /\ state' = [state EXCEPT !.menu = FALSE] /\ Repaint
       \/ k = "left"  /\ state' = [state EXCEPT !.choice = "resume"] /\ Repaint
       \/ k = "right" /\ state' = [state EXCEPT !.choice = "quit"] /\ Repaint
       \/ k = "enter" /\ state.choice = "resume" /\ state' = [state EXCEPT !.menu = FALSE] /\ Repaint
       \/ k = "enter" /\ state.choice = "quit" /\ Exit
       \/ k = "q"     /\ Exit

-----------------------------------------------------------------------------
(* The log viewer.                                                          *)

\* The files are read anew with every reload; rotation may have emptied them.
Current(v)   == IF v.source = "stdout" THEN v.out ELSE v.err
MaxScroll(v) == Less(Current(v), ViewerRows)
ToBottom(v)  == [v EXCEPT !.scroll = MaxScroll(v)]
ScrolledBy(v, n) == [v EXCEPT !.scroll = Low(@ + n, MaxScroll(v))]
ScrolledUp(v, n) == [v EXCEPT !.scroll = Less(@, n)]
Page         == High(Less(ViewerRows, 1), 1)

\* reload.  Its last branch, back to stderr, has no case: it wants the stream that is
\* shown to be stdout, not empty and empty.
Reloaded(v, out, err) ==
    LET read == [v EXCEPT !.out = out, !.err = IF v.unified THEN 0 ELSE err,
                          !.source = IF v.unified THEN "stdout" ELSE @]
    IN  IF Current(read) = 0 /\ out > 0 THEN [read EXCEPT !.source = "stdout"] ELSE read

\* from_logs and default_log_source.
FromLogs(n, unified, out, err) ==
    LET blank == [name |-> n, unified |-> unified, out |-> 0, err |-> 0, source |-> "stderr",
                  scroll |-> 0]
    IN  ToBottom([Reloaded(blank, out, err) EXCEPT !.source = IF out > 0 THEN "stdout" ELSE "stderr"])

Viewers(n) == {FromLogs(n, u, out, err) : u \in BOOLEAN, out \in Lines, err \in Lines}

ClampScroll(v) == [v EXCEPT !.scroll = Low(@, MaxScroll(v))]

OtherSource(v) ==
    ToBottom([v EXCEPT !.source = IF v.unified \/ @ = "stderr" THEN "stdout" ELSE "stderr"])

ViewerKey(k) ==
    LET v == state.viewer
        Show(w) == state' = [state EXCEPT !.viewer = w] /\ Repaint
    IN  /\ Focus = "viewer"
        /\ Read(Key(k)) /\ Silently
        /\ CASE k \in {"esc", "l"} -> Show(NONE)
             [] k = "up"           -> Show(ScrolledUp(v, 1))
             [] k = "down"         -> Show(ScrolledBy(v, 1))
             [] k = "pageup"       -> Show(ScrolledUp(v, Page))
             [] k = "pagedown"     -> Show(ScrolledBy(v, Page))
             [] k = "home"         -> Show([v EXCEPT !.scroll = 0])
             [] k = "end"          -> Show(ToBottom(v))
             [] k = "tab"          -> Show(OtherSource(v))
             [] k = "g"            -> \E out, err \in Lines : Show(ClampScroll(Reloaded(v, out, err)))
             [] k = "?"            -> state' = [state EXCEPT !.help = ~@] /\ Repaint
             [] k = "q"            -> Exit

-----------------------------------------------------------------------------
(* Keys on the list.                                                        *)

Moved(s, by) == [s EXCEPT !.selected = @ + by]
CanMoveDown  == state.selected + 1 < Len(Visible(processes, state))

ViewKey(k) ==
    LET Become(s) == state' = s /\ Repaint
    IN  /\ Focus = "dashboard"
        /\ Read(Key(k)) /\ Silently
        /\ \/ k = "q"   /\ Exit
           \/ k = "/"   /\ Become([state EXCEPT !.searching = TRUE])
           \/ k = "f"   /\ Become(Info(Clamped([state EXCEPT !.filter = After(Filters, @)], processes)))
           \/ k = "o"   /\ Become(Info(Clamped([state EXCEPT !.sort = After(Sorts, @)], processes)))
           \/ k = "esc" /\ Become([state EXCEPT !.menu = TRUE, !.choice = "resume"])
           \/ k = "?"   /\ Become([state EXCEPT !.help = TRUE])
           \/ k = "n"   /\ Become([state EXCEPT !.form = NewForm])
           \/ k = "up"   /\ state.selected > 0 /\ Become([state EXCEPT !.selected = @ - 1])
           \/ k = "down" /\ CanMoveDown /\ Become([state EXCEPT !.selected = @ + 1])
           \/ k = "g"   /\ state' = Info(state) /\ Renew
           \/ k = " "   /\ UNCHANGED state /\ Renew

Verbs == [s |-> "stop", r |-> "reload", R |-> "restart", p |-> "pull"]

\* The keys that act on the selected process; an error is shown until the next refresh.
ActionKey(k) ==
    LET n == Target(processes, state)
    IN  /\ Focus = "dashboard"
        /\ Read(Key(k))
        /\ IF n = NONE
           THEN Silently /\ UNCHANGED state /\ (Repaint \/ Renew)
           ELSE CASE k \in DOMAIN Verbs ->
                        Ask(Verbs[k], n, {Info(state)}, Error(state)) /\ Renew
                  [] k = "t" -> Ask("logs", n, {Info(state)}, Error(state)) /\ Repaint
                  [] k = "l" -> /\ Ask("logs", n, {[state EXCEPT !.viewer = v] : v \in Viewers(n)}, Error(state))
                                /\ Repaint
                  [] k = "d" -> /\ state' = [state EXCEPT !.confirm = [target |-> n, choice |-> "cancel"]]
                                /\ Silently /\ Repaint

-----------------------------------------------------------------------------
(* The mouse.                                                               *)

\* Clicks are not the search prompt's: they reach the list behind it.
MouseFocus == IF Focus = "search" THEN "dashboard" ELSE Focus

\* A slip: rows are counted from the top of the pane.
RowClicked_FromTop(i) == i

RowClicked(i) == frame.start + i

\* A click on row i of the table's pane, of the last frame; outside it clicks are ignored.
ClickRow(i) ==
    /\ MouseFocus = "dashboard"
    /\ i < frame.height
    /\ Read(Row(i)) /\ Silently
    /\ IF RowClicked(i) < Len(Visible(processes, state)) /\ RowClicked(i) # state.selected
       THEN state' = [state EXCEPT !.selected = RowClicked(i)] /\ Repaint
       ELSE Ignore

ClickButton(b) ==
    /\ Read(Click(b))
    /\ \/ MouseFocus = "confirm" /\ "confirm" \in frame.buttons
          /\ \/ b = "cancel" /\ CloseConfirm
             \/ b = "delete" /\ ConfirmDelete
       \/ MouseFocus = "menu" /\ "menu" \in frame.buttons /\ Silently
          /\ \/ b = "resume" /\ state' = [state EXCEPT !.menu = FALSE] /\ Repaint
             \/ b = "quit" /\ Exit

\* A click anywhere closes the help, and does nothing to the form.
ClickOverlay ==
    /\ MouseFocus \in {"help", "form"}
    /\ Read(Click("anywhere")) /\ Silently
    /\ state' = [state EXCEPT !.help = (@ /\ MouseFocus # "help")]
    /\ Repaint

Turn(w) ==
    /\ Read(Wheel(w)) /\ Silently
    /\ \/ /\ MouseFocus = "viewer"
          /\ state' = [state EXCEPT !.viewer = IF w = "up" THEN ScrolledUp(@, 3) ELSE ScrolledBy(@, 3)]
          /\ Repaint
       \/ /\ MouseFocus = "dashboard"
          /\ IF w = "up" /\ state.selected > 0
             THEN state' = [state EXCEPT !.selected = @ - 1] /\ Repaint
             ELSE IF w = "down" /\ CanMoveDown
             THEN state' = [state EXCEPT !.selected = @ + 1] /\ Repaint
             ELSE Ignore

\* The terminal's size changes with the event that tells of it.
Resize(z) ==
    /\ z # size
    /\ Read([kind |-> "resize"]) /\ Silently
    /\ size' = z
    /\ pc' = "top" /\ redraw' = TRUE
    /\ UNCHANGED <<refresh, state>>

-----------------------------------------------------------------------------
SearchKeys  == {"esc", "backspace", "delete"} \cup Names
FormKeys    == {"esc", "tab", "backspace", "enter", Space} \cup Names
ConfirmKeys == {"esc", "n", "left", "right", "y", "enter"}
ViewerKeys  == {"esc", "l", "up", "down", "pageup", "pagedown", "home", "end", "tab", "g", "?", "q"}
HelpKeys    == {"esc", "?", "q"}
MenuKeys    == {"esc", "left", "right", "enter", "q"}
ViewKeys    == {"q", "/", "f", "o", "esc", "?", "n", "up", "down", "g", " "}
ActionKeys  == DOMAIN Verbs \cup {"t", "l", "d"}

Input ==
    \/ \E k \in SearchKeys : SearchKey(k)
    \/ \E k \in FormKeys : FormKey(k)
    \/ \E k \in ConfirmKeys : ConfirmKey(k)
    \/ \E k \in ViewerKeys : ViewerKey(k)
    \/ \E k \in HelpKeys : HelpKey(k)
    \/ \E k \in MenuKeys : MenuKey(k)
    \/ \E k \in ViewKeys : ViewKey(k)
    \/ \E k \in ActionKeys : ActionKey(k)
    \/ \E i \in 0 .. MaxId : ClickRow(i)
    \/ \E b \in {"cancel", "delete", "resume", "quit"} : ClickButton(b)
    \/ ClickOverlay
    \/ \E w \in {"up", "down"} : Turn(w)
    \/ \E z \in Sizes : Resize(z)

NewState == [selected |-> 0, flash |-> "none", menu |-> FALSE, choice |-> "resume", help |-> FALSE,
             form |-> NONE, confirm |-> NONE, viewer |-> NONE, query |-> <<>>, searching |-> FALSE,
             filter |-> "all", sort |-> "id"]

Init ==
    /\ table = Listed
    /\ nextId = Cardinality(Listed) + 1
    /\ changes = 0
    /\ size \in Sizes
    /\ processes = {}
    /\ state = NewState
    /\ frame = NoFrame
    /\ pc = "top"
    /\ redraw = TRUE
    /\ refresh = TRUE
    /\ event = NONE
    /\ asked = NONE
    /\ events = 0

Loop == Fetch \/ FetchFails \/ NotDue \/ Draw \/ NoInput \/ PruneFlash

Next == OtherClient \/ Loop \/ Input

Spec == Init /\ [][Next]_vars

\* Rounds end, the refresh comes due, and the daemon answers now and then.
FairSpec == Spec /\ WF_vars(Loop \/ Input) /\ SF_vars(Fetch)

-----------------------------------------------------------------------------
(* Properties.                                                              *)

\* DashboardState.
State ==
    [selected : Nat, flash : {"none", "info", "error"},
     menu : BOOLEAN, choice : {"resume", "quit"}, help : BOOLEAN,
     form : Form \cup {NONE}, confirm : Confirm \cup {NONE}, viewer : Viewer \cup {NONE},
     query : Seq(Names), searching : BOOLEAN,
     filter : {"all", "running", "stopped", "unhealthy"},
     sort : {"id", "name", "cpu", "ram", "restarts"}]

\* The selection stays in the list, and typed texts keep their bound.
TypeOK ==
    /\ table \subseteq Process /\ processes \subseteq Process
    /\ nextId \in 1 .. MaxId + 1 /\ changes \in 0 .. MaxChanges
    /\ size \in Sizes
    /\ state \in State
    /\ state.selected < High(1, Len(Visible(processes, state)))
    /\ state.form # NONE => Len(state.form.command) <= MaxText /\ Len(state.form.name) <= MaxText
    /\ Len(state.query) <= MaxText
    /\ pc \in {"top", "draw", "input", "done"}
    /\ redraw \in BOOLEAN /\ refresh \in BOOLEAN
    /\ events \in 0 .. MaxEvents

\* A key that acts on a process acts on the one the frame on the screen marks, whatever
\* was fetched, filtered, sorted or searched before it, and only when no overlay is
\* drawn; unless the terminal has no room for the table.
ActsOnTheMarked ==
    [][asked' # asked /\ asked' # NONE /\ asked'.verb \notin {"start", "delete"} =>
          /\ frame.kind # "viewer" /\ frame.overlays = {}
          /\ frame.marked \in {asked'.target, NONE}
          /\ frame.rows # <<>> => frame.marked = asked'.target]_vars

\* A process is deleted only by a dialog that names it on the screen, confirmed with y,
\* the button, or Enter while the dialog shows Delete as chosen: "Delete confirmation uses
\* `Enter` or `y` to confirm, and `Esc` or `n` to cancel" (docs/UI.md).
DeletesTheConfirmed ==
    [][asked' # asked /\ asked' # NONE /\ asked'.verb = "delete" /\ frame.kind # "small" =>
          /\ frame.dialog # NONE /\ frame.dialog.target = asked'.target
          /\ \/ event' \in {Key("y"), Click("delete")}
             \/ event' = Key("enter") /\ frame.dialog.choice = "delete"
      ]_vars

\* A click on a row selects the process that is drawn there: "Left click on a row: select
\* service" (docs/UI.md).
ClickSelectsTheDrawn ==
    [][event' # event /\ event' # NONE /\ event'.kind = "row" /\ event'.row < Len(frame.rows) =>
          Target(processes, state)' = frame.rows[event'.row + 1].name]_vars

\* Once the daemon's processes are left alone, the screen shows them as they are,
\* whatever is open over them.
ScreenCatchesUp == []<>(pc = "done" \/ frame = Frame(table))

=============================================================================
