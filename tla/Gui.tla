-------------------------------- MODULE Gui ----------------------------------
(***************************************************************************)
(* One browser tab with the pages of server-gui/src (App.js, Global.js,    *)
(* components/Topology.js and inventory.js) in front of the web server.    *)
(*                                                                         *)
(* A fetch is sent, handled by the server and answered; several may be on  *)
(* their way, on connections of their own, so that they are handled and    *)
(* answered in any order.  The tab moves while the server is idle: what it *)
(* does during a request it might as well do just before or after it, as   *)
(* the server sees nothing of the tab but the fetches it takes up.         *)
(***************************************************************************)
EXTENDS Web

CONSTANTS MaxGestures,     \* bound on what the user does
          MaxEvents        \* bound on that and the requests typed in, together

ASSUME GuiAssumption == MaxGestures \in Nat /\ MaxEvents \in Nat

VARIABLES
    page,         \* App's selectedMenu
    view,         \* the state of the Inventory or the Topology, and its Init
    fetches,      \* the fetches on their way, in the order they were sent
    reloaded,     \* the newest run that a Reload Network was told of
    gestures      \* how many things the user did

browser == <<page, view, fetches, reloaded, gestures>>
all == <<server, browser>>

Views == {"inventory", "topology"}

NoView == [ready |-> FALSE, loading |-> FALSE, button |-> FALSE,
           run |-> 0, count |-> 0, drawn |-> <<>>]

(* loading is the Inventory's, button the loading of its or the Topology's *)
(* Init; run and count tell which graphs the view has and how many, drawn  *)
(* the run and the index of the graph on the screen.                       *)
Mounted(p) == [NoView EXCEPT !.loading = (p = "inventory")]

(* kind: what is fetched; to: who waits for the answer.                    *)
Fetch(kind, to) == [kind |-> kind, to |-> to, state |-> "sent", run |-> 0, count |-> 0]

DataOf(p) == Fetch(IF p = "inventory" THEN "nodes" ELSE "graphs", "view")

(* A view that is left waits for nothing any more; what it asked for is    *)
(* still on its way.                                                       *)
Orphaned(queue) ==
    [i \in 1..Len(queue) |->
        IF queue[i].to = "app" THEN queue[i] ELSE [queue[i] EXCEPT !.to = "nobody"]]

GuiInit ==
    /\ WebInit
    /\ page = "home" /\ view = NoView /\ fetches = <<>>
    /\ reloaded = 0 /\ gestures = 0

-----------------------------------------------------------------------------
(* The user.                                                               *)
Gesture ==
    /\ Idle /\ gestures < MaxGestures /\ gestures + typed < MaxEvents
    /\ gestures' = gestures + 1
    /\ UNCHANGED server

(* A menu item of another page: its view is mounted and asks for its data. *)
ChangeMenu(p) ==
    /\ Gesture /\ page # p
    /\ page' = p /\ view' = Mounted(p)
    /\ fetches' = Append(Orphaned(fetches), DataOf(p))
    /\ UNCHANGED reloaded

(* "Run it now!", once.                                                    *)
InitShown == page # "home" /\ ~view.ready /\ ~view.loading

Click ==
    /\ Gesture /\ InitShown /\ ~view.button
    /\ view' = [view EXCEPT !.button = TRUE]
    /\ fetches' = Append(fetches, Fetch("init", "button"))
    /\ UNCHANGED <<page, reloaded>>

Reload ==
    /\ Gesture
    /\ fetches' = Append(fetches, Fetch("init", "app"))
    /\ UNCHANGED <<page, view, reloaded>>

(* setGraph (Topology.js lines 37-67): beyond the end it is the last graph, *)
(* and without a graph it throws, which leaves the drawing.                *)
SetGraph(v, e) ==
    IF v.count = 0 THEN v
    ELSE [v EXCEPT !.drawn = <<v.run, Min({e, v.count - 1})>>]

Slide ==
    /\ Gesture /\ page = "topology" /\ view.ready
    /\ \E e \in 0..view.count : view' = SetGraph(view, e)
    /\ UNCHANGED <<page, fetches, reloaded>>

-----------------------------------------------------------------------------
(* The answers, in the tab.                                                *)
NoInitWithoutGraph(f) == f.run = 0 \/ f.count = 0      \* mutant

NoInit(f) == f.run = 0

(* With the data the view shows it, and its Init is gone; with NO_INIT it  *)
(* shows an Init, the one it shows already or a new one.                   *)
Received(f) == [ready |-> TRUE, loading |-> FALSE, button |-> FALSE,
                run |-> f.run, count |-> f.count, drawn |-> view.drawn]

ReadyWithoutGraph(f) == Received(f)      \* mutant: setGraph(1) is left out

Ready(f) == SetGraph(Received(f), 1)

WithoutButton(queue) ==
    [i \in 1..Len(queue) |->
        IF queue[i].to = "button" THEN [queue[i] EXCEPT !.to = "view"] ELSE queue[i]]

ReceiveData(f, rest) ==
    /\ f.kind \in {"graphs", "nodes"} /\ f.to = "view"
    /\ IF NoInit(f)
       THEN /\ view' = [view EXCEPT !.ready = FALSE, !.loading = FALSE]
            /\ fetches' = rest
       ELSE /\ view' = Ready(f)
            /\ fetches' = WithoutButton(rest)
    /\ UNCHANGED <<page, reloaded>>

(* The handler of Init's /init asks for the data again, even when it was   *)
(* answered with a 500: fetch does not fail for that.                      *)
ReceiveInit(f, rest) ==
    /\ f.kind = "init" /\ f.to \in {"button", "view"}
    /\ view' = IF f.to = "button" THEN [view EXCEPT !.button = FALSE] ELSE view
    /\ fetches' = Append(rest, DataOf(page))
    /\ UNCHANGED <<page, reloaded>>

(* React sets no state of what is not mounted any more; what the handler   *)
(* of an Init that is gone would fetch nobody sees either.                 *)
ReceiveNothing(f, rest) ==
    /\ f.to = "nobody"
    /\ fetches' = rest
    /\ UNCHANGED <<page, view, reloaded>>

Reloaded(f) == reloaded' = IF f.run > reloaded THEN f.run ELSE reloaded

ReceiveReloadInPlace(f, rest) ==      \* mutant: stays on the page
    /\ f.to = "app"
    /\ fetches' = rest
    /\ Reloaded(f)
    /\ UNCHANGED <<page, view>>

ReceiveReload(f, rest) ==
    /\ f.to = "app"
    /\ page' = "home" /\ view' = NoView
    /\ fetches' = Orphaned(rest)
    /\ Reloaded(f)

Receive ==
    /\ Idle
    /\ \E i \in 1..Len(fetches) :
          /\ fetches[i].state = "answered"
          /\ LET f == fetches[i]
                 rest == RemoveAt(fetches, i)
             IN \/ ReceiveData(f, rest)
                \/ ReceiveInit(f, rest)
                \/ ReceiveReload(f, rest)
                \/ ReceiveNothing(f, rest)
    /\ UNCHANGED <<server, gestures>>

-----------------------------------------------------------------------------
(* The fetches, in the server.  /graphs and /nodes only read (lines        *)
(* 181-209); the answer of /init comes when its work is over.              *)
AnsweredWith(f) == [f EXCEPT !.state = "answered", !.run = run, !.count = Len(graphs)]

HandleRead(i) ==
    /\ fetches[i].kind \in {"graphs", "nodes"}
    /\ fetches' = [fetches EXCEPT ![i] = AnsweredWith(@)]
    /\ UNCHANGED server

HandleInit(i) ==
    /\ fetches[i].kind = "init"
    /\ GetInit
    /\ fetches' = [fetches EXCEPT ![i].state = "handled"]
    /\ UNCHANGED <<late, typed>>

Handle ==
    /\ Idle
    /\ \E i \in 1..Len(fetches) :
          fetches[i].state = "sent" /\ (HandleRead(i) \/ HandleInit(i))
    /\ UNCHANGED <<page, view, reloaded, gestures>>

Compute ==
    /\ Work
    /\ fetches' = [i \in 1..Len(fetches) |->
                     IF fetches[i].state = "handled" /\ request' = "none"
                     THEN [fetches[i] EXCEPT !.state = "answered", !.run = run]
                     ELSE fetches[i]]
    /\ UNCHANGED <<page, view, reloaded, gestures>>

Others ==
    /\ (Typed /\ gestures + typed < MaxEvents) \/ TraceArrives
    /\ UNCHANGED browser

GuiNext ==
    \/ \E p \in Views : ChangeMenu(p)
    \/ Click \/ Reload \/ Slide
    \/ Receive
    \/ Handle \/ Compute
    \/ Others

(* Node takes up every request and goes on with it, and every answer       *)
(* arrives; what the user does, and whether traces arrive, is left open.   *)
(* While a request is at work nothing but Compute changes anything, so     *)
(* that GoesOn is weak fairness of Compute.                                *)
GoesOn == []<>Idle \/ []<><<~Idle>>_all
Fairness == WF_all(Handle) /\ GoesOn /\ WF_all(Receive)

GuiSpec == GuiInit /\ [][GuiNext]_all /\ Fairness

-----------------------------------------------------------------------------
(* Properties.                                                             *)

(* "In order to see the something, you have to run the algorithm"          *)
(* (Global.js line 12): whoever presses "Run it now!" gets to see the data *)
(* or leaves the page, even when the run fails halfway, when a "NO_INIT"   *)
(* of before comes late and when traces and other requests come between.   *)
ClickLeadsToView ==
    \A p \in Views : (page = p /\ view.button) ~> (page # p \/ view.ready)

(* After Reload Network was answered, no view shows the data of an older   *)
(* run, whatever was still on its way (App.js lines 56-65).                *)
ReloadedViewsFresh == view.ready => view.run >= reloaded

(* The graph on the screen is one of the list that the slider goes through *)
(* (Topology.js lines 37-45, 81-83), whichever of two lists came last.     *)
DrawsItsList ==
    page = "topology" /\ view.ready /\ view.count > 0 =>
        \E index \in 0..(view.count - 1) : view.drawn = <<view.run, index>>
=============================================================================
