------------------------------ MODULE Browser ------------------------------
(***************************************************************************)
(* The file browser in a tab: where it is, the history of its buttons, and *)
(* the loads of what it shows, none of which is cancelled.                 *)
(*   src/frontend/src/App.tsx, lines 139-269 and 972-1000                  *)
(*                                                                         *)
(* One action is one event with the render and the effects that follow.    *)
(* The effect that loads runs when the route is another object: a route    *)
(* has a number.  Files, announcements and the layout are left out.        *)
(***************************************************************************)
EXTENDS Integers, Sequences, SequencesExt

CONSTANTS Pages,       \* paths that are visited
          Home,        \* the root
          MaxLoads,    \* bound: loads
          MaxSession   \* bound: entries of the tab's history

ASSUME HomeAssumption == Home \in Pages /\ "elsewhere" \notin Pages

\* A definition named MUTANT_D is D with a mistake the properties are to find.

VARIABLES tab,       \* the tab's own history: URLs, position and a traversal that is queued
          route,
          history,   \* routeHistory
          view,      \* what is shown
          loads,     \* loads without an answer
          requests,  \* refreshes and passwords without an answer, each with the route of its click
          count,     \* of loads and routes
          crossed    \* history: whether an event of an older route was taken for the current one

browserVars == <<tab, route, history, view, loads, requests, count, crossed>>

BrowserInit ==
  \E url \in Pages \cup {"elsewhere"} :
    LET found == url \in Pages
        path == IF found THEN url ELSE Home
    IN  /\ tab = [urls |-> <<url>>, at |-> 1, go |-> 0]
        /\ route = [path |-> path, id |-> 1]
        /\ history = [entries |-> <<path>>, index |-> 1]
        /\ view = [of |-> "nothing", answered |-> 0, prompt |-> FALSE, error |-> FALSE,
                   loading |-> found, notFound |-> ~found]
        /\ loads = IF found THEN {[path |-> path, id |-> 1, n |-> 1]} ELSE {}
        /\ requests = {} /\ count = 1 /\ crossed = FALSE

\* What load does before its await.
Load(r) == /\ count' = count + 1
           /\ loads' = loads \cup {[path |-> r.path, id |-> r.id, n |-> count + 1]}
           /\ view' = [view EXCEPT !.prompt = FALSE, !.error = FALSE, !.loading = TRUE,
                                   !.notFound = FALSE]

\* setRoute with a new object, and the effect.
SetRoute(path) == LET r == [path |-> path, id |-> count + 1] IN route' = r /\ Load(r)

-----------------------------------------------------------------------------
(* Moving.                                                                  *)

goHome ==
  /\ view.notFound
  /\ tab' = [tab EXCEPT !.urls[tab.at] = Home]
  /\ SetRoute(Home) /\ history' = [entries |-> <<Home>>, index |-> 1]
  /\ UNCHANGED <<requests, crossed>>

MUTANT_appendRouteHistory(h, path) ==
  IF h.entries[h.index] = path THEN h
  ELSE [entries |-> Append(h.entries, path), index |-> h.index + 1]

appendRouteHistory(h, path) ==
  IF h.entries[h.index] = path THEN h
  ELSE [entries |-> Append(SubSeq(h.entries, 1, h.index), path), index |-> h.index + 1]

navigateTo(path) ==
  /\ ~view.notFound /\ path # route.path /\ tab.at < MaxSession
  /\ tab' = [tab EXCEPT !.urls = Append(SubSeq(@, 1, tab.at), path), !.at = @ + 1]
  /\ SetRoute(path) /\ history' = appendRouteHistory(history, path)
  /\ UNCHANGED <<requests, crossed>>

\* The buttons ask for a traversal of the tab's history, and so may the user.
stepRouteHistory(offset) ==
  /\ ~view.notFound /\ tab.go = 0
  /\ tab' = [tab EXCEPT !.go = offset]
  /\ UNCHANGED <<route, history, view, loads, requests, count, crossed>>

\* Which way the tab went is not known: the entry before is looked at first.
syncRouteHistory(h, path) ==
  LET At(i) == i \in DOMAIN h.entries /\ h.entries[i] = path
  IN  IF At(h.index) THEN h
      ELSE IF At(h.index - 1) THEN [h EXCEPT !.index = @ - 1]
      ELSE IF At(h.index + 1) THEN [h EXCEPT !.index = @ + 1]
      ELSE [entries |-> <<path>>, index |-> 1]

\* The traversal, with the event popstate unless the history ends there.  Entries
\* of this document are pages of the site.
handlePopState ==
  LET at == tab.at + tab.go
  IN  /\ tab.go # 0
      /\ IF at \in DOMAIN tab.urls
         THEN /\ tab' = [tab EXCEPT !.at = at, !.go = 0]
              /\ SetRoute(tab.urls[at]) /\ history' = syncRouteHistory(history, tab.urls[at])
         ELSE /\ tab' = [tab EXCEPT !.go = 0]
              /\ UNCHANGED <<route, history, view, loads, count>>
      /\ UNCHANGED <<requests, crossed>>

-----------------------------------------------------------------------------
(* Answers.                                                                 *)

\* An answer, which is crossed if it is for another page than the route's and
\* comes after that of a later load, or with the power to set the route.
Answered(l, next, setsRoute) ==
  /\ loads' = loads \ {l} /\ view' = next
  /\ crossed' = (crossed \/ (l.path # route.path /\ (setsRoute \/ l.n < view.answered)))
  /\ UNCHANGED <<tab, history, requests>>

Latest(l) == IF l.n > view.answered THEN l.n ELSE view.answered
Shown(l) == [view EXCEPT !.of = l.path, !.answered = Latest(l), !.loading = FALSE]

LoadDone(l) == Answered(l, Shown(l), FALSE) /\ UNCHANGED <<route, count>>

\* The entries that were shown stay, under the message.
LoadFails(l) ==
  /\ Answered(l, [view EXCEPT !.error = TRUE, !.answered = Latest(l), !.loading = FALSE], FALSE)
  /\ UNCHANGED <<route, count>>

\* directory_password_required sets the route to that of the load.  If it was
\* another, it is loaded again.
PasswordRequired(l) ==
  IF l.id = route.id
  THEN Answered(l, [Shown(l) EXCEPT !.prompt = TRUE], TRUE) /\ UNCHANGED <<route, count>>
  ELSE /\ route' = [path |-> l.path, id |-> l.id] /\ count' = count + 1
       /\ loads' = (loads \ {l}) \cup {[path |-> l.path, id |-> l.id, n |-> count + 1]}
       /\ view' = [Shown(l) EXCEPT !.error = FALSE, !.loading = TRUE]
       /\ crossed' = (crossed \/ l.path # route.path)
       /\ UNCHANGED <<tab, history, requests>>

-----------------------------------------------------------------------------
(* A refresh, or the password for the page: when it is done the route of    *)
(* its click is loaded.                                                     *)

BeginRequest ==
  /\ ~view.notFound /\ requests = {}
  /\ requests' = {[path |-> route.path, id |-> route.id, password |-> view.prompt]}
  /\ UNCHANGED <<tab, route, history, view, loads, count, crossed>>

RequestDone(r) ==
  /\ requests' = requests \ {r} /\ Load(r)
  /\ crossed' = (crossed \/ r.path # route.path)
  /\ UNCHANGED <<tab, route, history>>

\* The prompt says itself that a password is wrong.
RequestFails(r) ==
  /\ requests' = requests \ {r}
  /\ view' = [view EXCEPT !.error = @ \/ ~r.password]
  /\ UNCHANGED <<tab, route, history, loads, count, crossed>>

-----------------------------------------------------------------------------
Event ==
  \/ goHome \/ (\E path \in Pages : navigateTo(path))
  \/ (\E offset \in {-1, 1} : stepRouteHistory(offset)) \/ handlePopState
  \/ \E l \in loads : LoadDone(l) \/ LoadFails(l) \/ PasswordRequired(l)
  \/ BeginRequest \/ \E r \in requests : RequestDone(r) \/ RequestFails(r)

BrowserNext == Event /\ count' <= MaxLoads

BrowserSpec == BrowserInit /\ [][BrowserNext]_browserVars

-----------------------------------------------------------------------------
(* Properties.                                                              *)

\* Every variable has its type.
BrowserTypeOK ==
  /\ tab \in [urls: Seq(Pages \cup {"elsewhere"}), at: Nat, go: -1 .. 1]
  /\ route \in [path: Pages, id: Nat]
  /\ history \in [entries: Seq(Pages), index: Nat]
  /\ tab.at \in DOMAIN tab.urls /\ history.index \in DOMAIN history.entries
  /\ view \in [of: Pages \cup {"nothing"}, answered: Nat, prompt: BOOLEAN, error: BOOLEAN,
               loading: BOOLEAN, notFound: BOOLEAN]
  /\ loads \subseteq [path: Pages, id: Nat, n: Nat]
  /\ requests \subseteq [path: Pages, id: Nat, password: BOOLEAN]
  /\ count \in Nat /\ crossed \in BOOLEAN

\* When all is answered, the page of the address is the current one, the history
\* of the buttons stands on it, its entries or its prompt are shown, or a message
\* is, and no load is announced: unless an answer for a page that was left came
\* after the newer one, or asked for its password, or a refresh of a page that
\* was left was done (App.tsx:187-232, 262-269, 972-1000).
ShowsWhereItIs ==
  ~crossed /\ loads = {} /\ ~view.notFound =>
    /\ tab.urls[tab.at] = route.path /\ history.entries[history.index] = route.path
    /\ view.of = route.path \/ view.error
    /\ ~view.loading
=============================================================================
