---------------------------- MODULE PartsProofs ----------------------------
(***************************************************************************)
(* Proofs about the parts that share no state, Browser, ResponseCache and  *)
(* LogFile, for every value of their constants.                            *)
(***************************************************************************)
EXTENDS ResponseCache, LogFile, Browser, FiniteSetTheorems, WellFoundedInduction, TLAPS

-----------------------------------------------------------------------------
(* Browser.                                                                 *)

\* The route is where the tab and the history of the buttons are, and the latest
\* load is one of it: it is under way, or its page or a message is shown.
OnRoute ==
  /\ tab.urls[tab.at] = route.path /\ history.entries[history.index] = route.path
  /\ \A l \in loads : l.n = count => l.path = route.path
  /\ \/ \E l \in loads : l.n = count
     \/ view.answered = count /\ (view.of = route.path \/ view.error)

BrowserInv ==
  /\ BrowserTypeOK
  /\ view.answered <= count /\ \A l \in loads : l.n <= count
  /\ view.notFound => /\ loads = {} /\ requests = {} /\ tab.go = 0
                      /\ Len(tab.urls) = 1
  /\ ~view.notFound => \A i \in DOMAIN tab.urls : tab.urls[i] \in Pages
  /\ view.loading => loads # {}
  /\ ~crossed /\ ~view.notFound => OnRoute

\* In the beginning the page is loaded, or not found.
LEMMA BrowserInitInv == BrowserInit => BrowserInv
<1> SUFFICES ASSUME BrowserInit PROVE BrowserInv
  OBVIOUS
<1>1. PICK url \in Pages \cup {"elsewhere"}, path \in Pages :
        /\ url \in Pages => path = url
        /\ tab = [urls |-> <<url>>, at |-> 1, go |-> 0]
        /\ route = [path |-> path, id |-> 1]
        /\ history = [entries |-> <<path>>, index |-> 1]
        /\ view = [of |-> "nothing", answered |-> 0, prompt |-> FALSE, error |-> FALSE,
                   loading |-> url \in Pages, notFound |-> url \notin Pages]
        /\ loads = IF url \in Pages THEN {[path |-> path, id |-> 1, n |-> 1]} ELSE {}
        /\ requests = {} /\ count = 1 /\ crossed = FALSE
  <2>1. PICK url \in Pages \cup {"elsewhere"} :
          LET found == url \in Pages
              path == IF found THEN url ELSE Home
          IN  /\ tab = [urls |-> <<url>>, at |-> 1, go |-> 0]
              /\ route = [path |-> path, id |-> 1]
              /\ history = [entries |-> <<path>>, index |-> 1]
              /\ view = [of |-> "nothing", answered |-> 0, prompt |-> FALSE, error |-> FALSE,
                         loading |-> found, notFound |-> ~found]
              /\ loads = IF found THEN {[path |-> path, id |-> 1, n |-> 1]} ELSE {}
              /\ requests = {} /\ count = 1 /\ crossed = FALSE
    BY DEF BrowserInit
  <2>2. CASE url \in Pages
    <3> WITNESS url \in Pages \cup {"elsewhere"}, url \in Pages
    <3> QED BY <2>1, <2>2
  <2>3. CASE url \notin Pages
    <3> USE HomeAssumption
    <3> WITNESS url \in Pages \cup {"elsewhere"}, Home \in Pages
    <3> QED BY <2>1, <2>3
  <2> QED
    BY <2>2, <2>3
<1>2. /\ <<url>> \in Seq(Pages \cup {"elsewhere"}) /\ <<path>> \in Seq(Pages)
      /\ DOMAIN <<url>> = {1} /\ DOMAIN <<path>> = {1} /\ <<url>>[1] = url /\ <<path>>[1] = path
      /\ Len(<<url>>) = 1
  OBVIOUS
<1>3. /\ tab.urls = <<url>> /\ tab.at = 1 /\ tab.go = 0
      /\ tab \in [urls: Seq(Pages \cup {"elsewhere"}), at: Nat, go: -1 .. 1]
  BY <1>1, <1>2
<1>4. /\ history.entries = <<path>> /\ history.index = 1 /\ route.path = path
      /\ history \in [entries: Seq(Pages), index: Nat] /\ route \in [path: Pages, id: Nat]
  BY <1>1, <1>2
<1>5. /\ view.of = "nothing" /\ view.answered = 0 /\ view.loading = (url \in Pages)
      /\ view.notFound = (url \notin Pages)
      /\ view \in [of: Pages \cup {"nothing"}, answered: Nat, prompt: BOOLEAN, error: BOOLEAN,
                   loading: BOOLEAN, notFound: BOOLEAN]
  BY <1>1
<1>6. /\ loads \subseteq [path: Pages, id: Nat, n: Nat] /\ \A l \in loads : l.n = 1 /\ l.path = path
      /\ url \in Pages => \E l \in loads : l.n = 1
      /\ url \notin Pages => loads = {}
  <2>1. LET l == [path |-> path, id |-> 1, n |-> 1]
        IN  l \in [path: Pages, id: Nat, n: Nat] /\ l.n = 1 /\ l.path = path
    OBVIOUS
  <2> QED
    BY <1>1, <2>1
<1>7. requests = {} /\ count = 1 /\ crossed = FALSE
  BY <1>1
<1>8. tab.at \in DOMAIN tab.urls /\ history.index \in DOMAIN history.entries
      /\ tab.urls[tab.at] = url /\ history.entries[history.index] = path
  BY <1>2, <1>3, <1>4
<1>9. BrowserTypeOK
  BY <1>3, <1>4, <1>5, <1>6, <1>7, <1>8 DEF BrowserTypeOK
<1>10. ~view.notFound => OnRoute
  BY <1>1, <1>4, <1>5, <1>6, <1>7, <1>8 DEF OnRoute
<1>11. /\ view.notFound => Len(tab.urls) = 1
       /\ ~view.notFound => \A i \in DOMAIN tab.urls : tab.urls[i] \in Pages
  BY <1>2, <1>3, <1>5
<1> QED
  BY <1>3, <1>5, <1>6, <1>7, <1>9, <1>10, <1>11 DEF BrowserInv

\* A load that begins is the latest.
LEMMA LoadFacts ==
  ASSUME BrowserInv, NEW path \in Pages, NEW id \in Nat, Load([path |-> path, id |-> id])
  PROVE  /\ count' = count + 1 /\ count \in Nat
         /\ loads' = loads \cup {[path |-> path, id |-> id, n |-> count + 1]}
         /\ loads' \subseteq [path: Pages, id: Nat, n: Nat]
         /\ view' \in [of: Pages \cup {"nothing"}, answered: Nat, prompt: BOOLEAN, error: BOOLEAN,
                       loading: BOOLEAN, notFound: BOOLEAN]
         /\ view'.answered = view.answered /\ view'.loading /\ ~view'.notFound
         /\ view'.answered <= count' /\ \A l \in loads' : l.n <= count'
         /\ \E l \in loads' : l.n = count'
         /\ \A l \in loads' : l.n = count' => l.path = path
<1>1. /\ count' = count + 1 /\ count \in Nat
      /\ loads' = loads \cup {[path |-> path, id |-> id, n |-> count + 1]}
      /\ loads \subseteq [path: Pages, id: Nat, n: Nat] /\ view.answered \in Nat
      /\ \A l \in loads : l.n <= count /\ l.n \in Nat
      /\ view.answered <= count
  BY DEF Load, BrowserInv, BrowserTypeOK
<1>2. PICK v \in [of: Pages \cup {"nothing"}, answered: Nat, prompt: BOOLEAN, error: BOOLEAN,
                  loading: BOOLEAN, notFound: BOOLEAN] : v = view
  BY DEF BrowserInv, BrowserTypeOK
<1>3. LET w == [v EXCEPT !.prompt = FALSE, !.error = FALSE, !.loading = TRUE, !.notFound = FALSE]
      IN  /\ w \in [of: Pages \cup {"nothing"}, answered: Nat, prompt: BOOLEAN, error: BOOLEAN,
                    loading: BOOLEAN, notFound: BOOLEAN]
          /\ w.answered = v.answered /\ w.loading = TRUE /\ w.notFound = FALSE
  OBVIOUS
<1>4. view' = [view EXCEPT !.prompt = FALSE, !.error = FALSE, !.loading = TRUE, !.notFound = FALSE]
  BY DEF Load
<1>5. /\ view' \in [of: Pages \cup {"nothing"}, answered: Nat, prompt: BOOLEAN, error: BOOLEAN,
                    loading: BOOLEAN, notFound: BOOLEAN]
      /\ view'.answered = view.answered /\ view'.loading /\ ~view'.notFound
  BY <1>2, <1>3, <1>4
<1>6. LET l == [path |-> path, id |-> id, n |-> count + 1]
      IN  l \in [path: Pages, id: Nat, n: Nat] /\ l.n = count + 1 /\ l.path = path
  BY <1>1
<1> DEFINE new == [path |-> path, id |-> id, n |-> count + 1]
<1>7. loads' = loads \cup {new} /\ new \in [path: Pages, id: Nat, n: Nat]
      /\ new.n = count + 1 /\ new.path = path
  BY <1>1, <1>6
<1> HIDE DEF new
<1>8. /\ loads' \subseteq [path: Pages, id: Nat, n: Nat]
      /\ \A l \in loads' : l.n <= count'
      /\ \E l \in loads' : l.n = count'
      /\ \A l \in loads' : l.n = count' => l.path = path
  BY <1>1, <1>7
<1>9. view'.answered <= count'
  BY <1>1, <1>5
<1> QED
  BY <1>1, <1>5, <1>8, <1>9

\* Where the route is set to a page that the tab and the history stand on, its
\* load is the latest.
LEMMA SetRouteKeeps ==
  ASSUME BrowserInv, NEW path \in Pages, SetRoute(path), UNCHANGED <<requests, crossed>>,
         tab' \in [urls: Seq(Pages), at: Nat, go: -1 .. 1], tab'.at \in DOMAIN tab'.urls,
         history' \in [entries: Seq(Pages), index: Nat], history'.index \in DOMAIN history'.entries,
         tab'.urls[tab'.at] = path, history'.entries[history'.index] = path
  PROVE  BrowserInv'
<1>1. /\ route' = [path |-> path, id |-> count + 1]
      /\ Load([path |-> path, id |-> count + 1]) /\ count + 1 \in Nat
  BY DEF SetRoute, BrowserInv, BrowserTypeOK
<1>2. /\ loads' \subseteq [path: Pages, id: Nat, n: Nat] /\ count' \in Nat
      /\ view' \in [of: Pages \cup {"nothing"}, answered: Nat, prompt: BOOLEAN, error: BOOLEAN,
                    loading: BOOLEAN, notFound: BOOLEAN]
      /\ view'.loading /\ ~view'.notFound
      /\ view'.answered <= count' /\ \A l \in loads' : l.n <= count'
      /\ \E l \in loads' : l.n = count'
      /\ \A l \in loads' : l.n = count' => l.path = path
  BY <1>1, LoadFacts
<1>3. /\ tab' \in [urls: Seq(Pages \cup {"elsewhere"}), at: Nat, go: -1 .. 1]
      /\ \A i \in DOMAIN tab'.urls : tab'.urls[i] \in Pages
  <2>1. PICK s \in Seq(Pages) : s = tab'.urls
    OBVIOUS
  <2>2. s \in Seq(Pages \cup {"elsewhere"}) /\ \A i \in DOMAIN s : s[i] \in Pages
    OBVIOUS
  <2> QED
    BY <2>1, <2>2
<1>4. BrowserTypeOK'
  BY <1>1, <1>2, <1>3 DEF BrowserTypeOK, BrowserInv
<1>5. OnRoute'
  BY <1>1, <1>2 DEF OnRoute
<1> QED
  BY <1>2, <1>3, <1>4, <1>5 DEF BrowserInv

\* Of a page that was found, the tab has only pages of the site.
LEMMA PagesOfSite ==
  ASSUME NEW s \in Seq(Pages \cup {"elsewhere"}), \A i \in DOMAIN s : s[i] \in Pages
  PROVE  s \in Seq(Pages)
<1>1. s = [i \in 1 .. Len(s) |-> s[i]] /\ Len(s) \in Nat /\ DOMAIN s = 1 .. Len(s)
  OBVIOUS
<1> QED
  BY <1>1

\* An entry that is appended to the first ones of a sequence is its last.
LEMMA AppendedTo ==
  ASSUME NEW s \in Seq(Pages), NEW i \in DOMAIN s, NEW path \in Pages
  PROVE  LET t == Append(SubSeq(s, 1, i), path)
         IN  t \in Seq(Pages) /\ i + 1 \in DOMAIN t /\ t[i + 1] = path /\ i + 1 \in Nat
<1>1. i \in 1 .. Len(s) /\ SubSeq(s, 1, i) \in Seq(Pages) /\ Len(SubSeq(s, 1, i)) = i
  OBVIOUS
<1> QED
  BY <1>1

\* What the history of the buttons does stands on the page that is visited.
LEMMA HistoryFacts ==
  ASSUME NEW h \in [entries: Seq(Pages), index: Nat], h.index \in DOMAIN h.entries,
         NEW path \in Pages,
         NEW g, g = appendRouteHistory(h, path) \/ g = syncRouteHistory(h, path)
                \/ g = [entries |-> <<path>>, index |-> 1]
  PROVE  /\ g \in [entries: Seq(Pages), index: Nat] /\ g.index \in DOMAIN g.entries
         /\ g.entries[g.index] = path
<1> DEFINE Stands(x) == /\ x \in [entries: Seq(Pages), index: Nat] /\ x.index \in DOMAIN x.entries
                        /\ x.entries[x.index] = path
<1>1. Stands([entries |-> <<path>>, index |-> 1])
  <2>1. LET x == [entries |-> <<path>>, index |-> 1] IN x.entries = <<path>> /\ x.index = 1
    OBVIOUS
  <2>2. <<path>> \in Seq(Pages) /\ 1 \in DOMAIN <<path>> /\ <<path>>[1] = path
    OBVIOUS
  <2> QED
    BY <2>1, <2>2
<1>2. ASSUME NEW i \in DOMAIN h.entries, h.entries[i] = path
      PROVE  Stands([h EXCEPT !.index = i])
  <2>1. i \in Nat
    OBVIOUS
  <2> QED
    BY <1>2, <2>1
<1>3. Stands(appendRouteHistory(h, path))
  <2>1. CASE h.entries[h.index] = path
    BY <2>1 DEF appendRouteHistory
  <2>2. CASE h.entries[h.index] # path
    <3> DEFINE t == Append(SubSeq(h.entries, 1, h.index), path)
    <3>1. t \in Seq(Pages) /\ h.index + 1 \in DOMAIN t /\ t[h.index + 1] = path /\ h.index + 1 \in Nat
      BY AppendedTo
    <3>2. appendRouteHistory(h, path) = [entries |-> t, index |-> h.index + 1]
      BY <2>2 DEF appendRouteHistory
    <3> HIDE DEF t
    <3> QED
      BY <3>1, <3>2
  <2> QED
    BY <2>1, <2>2
<1>4. Stands(syncRouteHistory(h, path))
  <2> DEFINE At(i) == i \in DOMAIN h.entries /\ h.entries[i] = path
  <2>1. CASE At(h.index)
    BY <2>1 DEF syncRouteHistory
  <2>2. CASE ~At(h.index) /\ At(h.index - 1)
    <3>1. syncRouteHistory(h, path) = [h EXCEPT !.index = h.index - 1]
      BY <2>2 DEF syncRouteHistory
    <3> QED
      BY <1>2, <2>2, <3>1
  <2>3. CASE ~At(h.index) /\ ~At(h.index - 1) /\ At(h.index + 1)
    <3>1. syncRouteHistory(h, path) = [h EXCEPT !.index = h.index + 1]
      BY <2>3 DEF syncRouteHistory
    <3> QED
      BY <1>2, <2>3, <3>1
  <2>4. CASE ~At(h.index) /\ ~At(h.index - 1) /\ ~At(h.index + 1)
    <3>1. syncRouteHistory(h, path) = [entries |-> <<path>>, index |-> 1]
      BY <2>4 DEF syncRouteHistory
    <3> QED
      BY <1>1, <3>1
  <2> QED
    BY <2>1, <2>2, <2>3, <2>4
<1> QED
  BY <1>1, <1>3, <1>4

\* An answer that is shown as one of the current page.
LEMMA AnswerKeeps ==
  ASSUME BrowserInv, NEW l \in loads, NEW next, NEW setsRoute \in BOOLEAN,
         Answered(l, next, setsRoute), UNCHANGED <<route, count>>,
         next \in [of: Pages \cup {"nothing"}, answered: Nat, prompt: BOOLEAN, error: BOOLEAN,
                   loading: BOOLEAN, notFound: BOOLEAN],
         next.answered = Latest(l), ~next.loading, next.notFound = view.notFound,
         next.error \/ (next.of = l.path /\ next.error = view.error)
  PROVE  BrowserInv'
<1>1. /\ loads' = loads \ {l} /\ view' = next
      /\ crossed' = (crossed \/ (l.path # route.path /\ (setsRoute \/ l.n < view.answered)))
      /\ UNCHANGED <<tab, route, history, requests, count>>
  BY DEF Answered
<1>2. /\ l.n \in Nat /\ l.n <= count /\ view.answered \in Nat /\ view.answered <= count
      /\ count \in Nat /\ ~view.notFound /\ view.notFound \in BOOLEAN /\ crossed \in BOOLEAN
  BY DEF BrowserInv, BrowserTypeOK
<1>3. BrowserTypeOK'
  BY <1>1, <1>2 DEF BrowserTypeOK, BrowserInv
<1>4. next.answered \in Nat /\ next.answered <= count /\ next.answered >= l.n
      /\ next.answered >= view.answered
  BY <1>2 DEF Latest
<1>5. ASSUME ~crossed' PROVE OnRoute'
  <2>1. OnRoute /\ ~crossed /\ (l.path = route.path \/ ~(l.n < view.answered))
    BY <1>1, <1>2, <1>5 DEF BrowserInv
  <2>2. ASSUME ~\E k \in loads' : k.n = count
        PROVE  next.answered = count /\ (next.of = route.path \/ next.error)
    <3>1. CASE l.n = count
      BY <1>2, <1>4, <2>1, <3>1 DEF OnRoute
    <3>2. CASE l.n # count
      <4>1. view.answered = count /\ (view.of = route.path \/ view.error)
        BY <1>1, <2>1, <2>2, <3>2 DEF OnRoute
      <4>2. l.path = route.path
        BY <1>2, <2>1, <3>2, <4>1
      <4> QED
        BY <1>2, <1>4, <4>1, <4>2
    <3> QED
      BY <3>1, <3>2
  <2> QED
    BY <1>1, <2>1, <2>2 DEF OnRoute
<1> QED
  BY <1>1, <1>2, <1>3, <1>4, <1>5 DEF BrowserInv

\* A page that is visited, and one that the buttons of the tab go back or on to.
LEMMA MovingKeeps ==
  ASSUME BrowserInv,
         goHome \/ (\E path \in Pages : navigateTo(path)) \/ handlePopState
           \/ \E offset \in {-1, 1} : stepRouteHistory(offset)
  PROVE  BrowserInv'
<1> PICK t \in [urls: Seq(Pages \cup {"elsewhere"}), at: Nat, go: -1 .. 1] :
      t = tab /\ t.at \in DOMAIN t.urls
  BY DEF BrowserInv, BrowserTypeOK
<1> PICK h \in [entries: Seq(Pages), index: Nat] :
      h = history /\ h.index \in DOMAIN h.entries
  BY DEF BrowserInv, BrowserTypeOK
<1>1. CASE goHome
  <2>1. t.urls \in Seq(Pages \cup {"elsewhere"}) /\ Len(t.urls) = 1 /\ t.at = 1
    <3>1. Len(t.urls) = 1 /\ t.at \in 1 .. Len(t.urls)
      BY <1>1 DEF BrowserInv, goHome
    <3> QED
      BY <3>1
  <2>2. LET s == [t.urls EXCEPT ![t.at] = Home]
        IN  s \in Seq(Pages) /\ t.at \in DOMAIN s /\ s[t.at] = Home
    <3> PICK u \in Seq(Pages \cup {"elsewhere"}) : u = t.urls /\ Len(u) = 1
      BY <2>1
    <3>1. [u EXCEPT ![1] = Home] = [i \in 1 .. 1 |-> Home]
      OBVIOUS
    <3>2. LET s == [i \in 1 .. 1 |-> Home] IN s \in Seq(Pages) /\ 1 \in DOMAIN s /\ s[1] = Home
      BY HomeAssumption
    <3> QED
      BY <2>1, <3>1, <3>2
  <2> DEFINE s == [t.urls EXCEPT ![t.at] = Home]
  <2>3. tab' = [t EXCEPT !.urls = s]
    BY <1>1 DEF goHome
  <2> HIDE DEF s
  <2>4. tab' \in [urls: Seq(Pages), at: Nat, go: -1 .. 1] /\ tab'.urls = s /\ tab'.at = t.at
    BY <2>2, <2>3 DEF s
  <2>5. /\ history' \in [entries: Seq(Pages), index: Nat] /\ history'.index \in DOMAIN history'.entries
        /\ history'.entries[history'.index] = Home
    BY <1>1, HistoryFacts, HomeAssumption DEF goHome
  <2> QED
    BY <1>1, <2>2, <2>4, <2>5, SetRouteKeeps, HomeAssumption DEF goHome, s
<1>2. ASSUME NEW path \in Pages, navigateTo(path)
      PROVE  BrowserInv'
  <2>1. t.urls \in Seq(Pages)
    BY <1>2, PagesOfSite DEF navigateTo, BrowserInv
  <2> DEFINE s == Append(SubSeq(t.urls, 1, t.at), path)
  <2>2. s \in Seq(Pages) /\ t.at + 1 \in DOMAIN s /\ s[t.at + 1] = path /\ t.at + 1 \in Nat
    BY <2>1, AppendedTo
  <2>3. tab' = [t EXCEPT !.urls = s, !.at = t.at + 1]
    BY <1>2 DEF navigateTo
  <2> HIDE DEF s
  <2>4. tab' \in [urls: Seq(Pages), at: Nat, go: -1 .. 1] /\ tab'.urls = s /\ tab'.at = t.at + 1
    BY <2>2, <2>3
  <2>5. /\ history' \in [entries: Seq(Pages), index: Nat] /\ history'.index \in DOMAIN history'.entries
        /\ history'.entries[history'.index] = path
    <3>1. history' = appendRouteHistory(h, path)
      BY <1>2 DEF navigateTo
    <3>2. LET g == appendRouteHistory(h, path)
          IN  g \in [entries: Seq(Pages), index: Nat] /\ g.index \in DOMAIN g.entries
              /\ g.entries[g.index] = path
      BY HistoryFacts, SMTT(30)
    <3> QED
      BY <3>1, <3>2
  <2> QED
    BY <1>2, <2>2, <2>4, <2>5, SetRouteKeeps DEF navigateTo
<1>3. CASE handlePopState
  <2> DEFINE at == t.at + t.go
             path == t.urls[at]
  <2>1. ~view.notFound /\ t.urls \in Seq(Pages) /\ UNCHANGED <<requests, crossed>>
    BY <1>3, PagesOfSite DEF handlePopState, BrowserInv, BrowserTypeOK
  <2>2. CASE at \in DOMAIN t.urls
    <3>1. path \in Pages /\ at \in Nat
      BY <2>1, <2>2
    <3>2. tab' = [t EXCEPT !.at = at, !.go = 0] /\ SetRoute(path)
          /\ history' = syncRouteHistory(h, path)
      BY <1>3, <2>2 DEF handlePopState
    <3>3. tab' \in [urls: Seq(Pages), at: Nat, go: -1 .. 1] /\ tab'.urls = t.urls /\ tab'.at = at
      <4>1. tab' = [urls |-> t.urls, at |-> at, go |-> 0]
        BY <3>2
      <4> HIDE DEF at
      <4> QED
        BY <2>1, <3>1, <4>1
    <3>4. /\ history' \in [entries: Seq(Pages), index: Nat] /\ history'.index \in DOMAIN history'.entries
          /\ history'.entries[history'.index] = path
      BY <3>1, <3>2, HistoryFacts
    <3> QED
      BY <2>1, <2>2, <3>1, <3>2, <3>3, <3>4, SetRouteKeeps
  <2>3. CASE at \notin DOMAIN t.urls
    <3>1. tab' = [t EXCEPT !.go = 0] /\ UNCHANGED <<route, history, view, loads, count>>
      BY <1>3, <2>3 DEF handlePopState
    <3>2. tab' \in [urls: Seq(Pages \cup {"elsewhere"}), at: Nat, go: -1 .. 1]
          /\ tab'.urls = t.urls /\ tab'.at = t.at
      BY <3>1
    <3>3. BrowserTypeOK'
      BY <2>1, <3>1, <3>2 DEF BrowserTypeOK, BrowserInv
    <3> QED
      BY <2>1, <3>1, <3>2, <3>3 DEF BrowserInv, OnRoute
  <2> QED
    BY <2>2, <2>3
<1>4. ASSUME NEW offset \in {-1, 1}, stepRouteHistory(offset)
      PROVE  BrowserInv'
  <2>1. tab' = [t EXCEPT !.go = offset] /\ ~view.notFound
        /\ UNCHANGED <<route, history, view, loads, requests, count, crossed>>
    BY <1>4 DEF stepRouteHistory
  <2>2. tab' \in [urls: Seq(Pages \cup {"elsewhere"}), at: Nat, go: -1 .. 1]
        /\ tab'.urls = t.urls /\ tab'.at = t.at
    BY <2>1
  <2>3. BrowserTypeOK'
    BY <2>1, <2>2 DEF BrowserTypeOK, BrowserInv
  <2> QED
    BY <2>1, <2>2, <2>3 DEF BrowserInv, OnRoute
<1> QED
  BY <1>1, <1>2, <1>3, <1>4

\* An answer of a load that is shown, as its page or as a message.
LEMMA AnswersKeep ==
  ASSUME BrowserInv, NEW l \in loads, LoadDone(l) \/ LoadFails(l) \/ PasswordRequired(l)
  PROVE  BrowserInv'
<1> PICK v \in [of: Pages \cup {"nothing"}, answered: Nat, prompt: BOOLEAN, error: BOOLEAN,
                loading: BOOLEAN, notFound: BOOLEAN] : v = view
  BY DEF BrowserInv, BrowserTypeOK
<1>1. /\ l \in [path: Pages, id: Nat, n: Nat] /\ l.n <= count /\ count \in Nat
      /\ v.answered <= count /\ Latest(l) \in Nat /\ Latest(l) <= count
  BY DEF BrowserInv, BrowserTypeOK, Latest
<1>2. CASE LoadDone(l)
  <2>1. LET w == [v EXCEPT !.of = l.path, !.answered = Latest(l), !.loading = FALSE]
        IN  /\ w \in [of: Pages \cup {"nothing"}, answered: Nat, prompt: BOOLEAN, error: BOOLEAN,
                      loading: BOOLEAN, notFound: BOOLEAN]
            /\ w.answered = Latest(l) /\ w.loading = FALSE /\ w.notFound = v.notFound
            /\ w.of = l.path /\ w.error = v.error
    BY <1>1
  <2>2. Answered(l, Shown(l), FALSE) /\ UNCHANGED <<route, count>>
    BY <1>2 DEF LoadDone
  <2> QED
    BY <2>1, <2>2, AnswerKeeps DEF Shown
<1>3. CASE LoadFails(l)
  <2> DEFINE w == [v EXCEPT !.error = TRUE, !.answered = Latest(l), !.loading = FALSE]
  <2>1. /\ w \in [of: Pages \cup {"nothing"}, answered: Nat, prompt: BOOLEAN, error: BOOLEAN,
                  loading: BOOLEAN, notFound: BOOLEAN]
        /\ w.answered = Latest(l) /\ w.loading = FALSE /\ w.notFound = v.notFound
        /\ w.error = TRUE
    BY <1>1
  <2>2. Answered(l, w, FALSE) /\ UNCHANGED <<route, count>>
    BY <1>3 DEF LoadFails
  <2> HIDE DEF w
  <2> QED
    BY <2>1, <2>2, AnswerKeeps
<1>4. CASE PasswordRequired(l) /\ l.id = route.id
  <2> DEFINE w == [[v EXCEPT !.of = l.path, !.answered = Latest(l), !.loading = FALSE]
                     EXCEPT !.prompt = TRUE]
  <2>1. /\ w \in [of: Pages \cup {"nothing"}, answered: Nat, prompt: BOOLEAN, error: BOOLEAN,
                  loading: BOOLEAN, notFound: BOOLEAN]
        /\ w.answered = Latest(l) /\ w.loading = FALSE /\ w.notFound = v.notFound
        /\ w.of = l.path /\ w.error = v.error
    BY <1>1
  <2>2. Answered(l, w, TRUE) /\ UNCHANGED <<route, count>>
    BY <1>4 DEF PasswordRequired, Shown
  <2> HIDE DEF w
  <2> QED
    BY <2>1, <2>2, AnswerKeeps
<1>5. CASE PasswordRequired(l) /\ l.id # route.id
  <2> DEFINE w == [[v EXCEPT !.of = l.path, !.answered = Latest(l), !.loading = FALSE]
                     EXCEPT !.error = FALSE, !.loading = TRUE]
             r == [path |-> l.path, id |-> l.id]
             new == [path |-> l.path, id |-> l.id, n |-> count + 1]
  <2>1. /\ w \in [of: Pages \cup {"nothing"}, answered: Nat, prompt: BOOLEAN, error: BOOLEAN,
                  loading: BOOLEAN, notFound: BOOLEAN]
        /\ w.answered = Latest(l) /\ w.loading = TRUE /\ w.notFound = v.notFound
    BY <1>1
  <2>2. new \in [path: Pages, id: Nat, n: Nat] /\ new.n = count + 1 /\ new.path = l.path
        /\ r \in [path: Pages, id: Nat] /\ r.path = l.path
    BY <1>1
  <2>3. /\ route' = r /\ count' = count + 1 /\ loads' = (loads \ {l}) \cup {new} /\ view' = w
        /\ crossed' = (crossed \/ l.path # route.path)
        /\ UNCHANGED <<tab, history, requests>>
    BY <1>5 DEF PasswordRequired, Shown
  <2> HIDE DEF w, r, new
  <2>4. ~v.notFound /\ crossed \in BOOLEAN
    BY DEF BrowserInv, BrowserTypeOK
  <2>5. BrowserTypeOK'
    BY <1>1, <2>1, <2>2, <2>3, <2>4 DEF BrowserTypeOK, BrowserInv
  <2>6. /\ w.answered <= count + 1
        /\ \A k \in loads' : k.n <= count + 1 /\ (k.n = count + 1 => k = new)
        /\ new \in loads'
    <3>1. \A k \in loads : k.n \in Nat /\ k.n <= count
      BY DEF BrowserInv, BrowserTypeOK
    <3> QED
      BY <1>1, <2>1, <2>2, <2>3, <3>1
  <2>7. ASSUME ~crossed' PROVE OnRoute'
    BY <2>2, <2>3, <2>4, <2>6, <2>7 DEF OnRoute, BrowserInv
  <2> QED
    BY <2>1, <2>3, <2>4, <2>5, <2>6, <2>7 DEF BrowserInv
<1> QED
  BY <1>2, <1>3, <1>4, <1>5

\* A refresh or a password, which is sent and then done or not.
LEMMA RequestsKeep ==
  ASSUME BrowserInv,
         BeginRequest \/ \E r \in requests : RequestDone(r) \/ RequestFails(r)
  PROVE  BrowserInv'
<1>1. CASE BeginRequest
  <2>1. [path |-> route.path, id |-> route.id, password |-> view.prompt]
          \in [path: Pages, id: Nat, password: BOOLEAN]
    BY DEF BrowserInv, BrowserTypeOK
  <2>2. BrowserTypeOK'
    BY <1>1, <2>1 DEF BrowserTypeOK, BrowserInv, BeginRequest
  <2> QED
    BY <1>1, <2>2 DEF BrowserInv, BeginRequest, OnRoute
<1>2. ASSUME NEW r \in requests, RequestDone(r)
      PROVE  BrowserInv'
  <2>1. /\ r.path \in Pages /\ r.id \in Nat /\ Load([path |-> r.path, id |-> r.id])
        /\ requests' = requests \ {r} /\ crossed' = (crossed \/ r.path # route.path)
        /\ UNCHANGED <<tab, route, history>>
    BY <1>2 DEF RequestDone, Load, BrowserInv, BrowserTypeOK
  <2>2. /\ loads' \subseteq [path: Pages, id: Nat, n: Nat] /\ count' \in Nat
        /\ view' \in [of: Pages \cup {"nothing"}, answered: Nat, prompt: BOOLEAN, error: BOOLEAN,
                      loading: BOOLEAN, notFound: BOOLEAN]
        /\ view'.loading /\ ~view'.notFound
        /\ view'.answered <= count' /\ \A l \in loads' : l.n <= count'
        /\ \E l \in loads' : l.n = count'
        /\ \A l \in loads' : l.n = count' => l.path = r.path
    BY <2>1, LoadFacts
  <2>3. ~view.notFound
    BY DEF BrowserInv
  <2>4. BrowserTypeOK'
    BY <2>1, <2>2 DEF BrowserTypeOK, BrowserInv
  <2>5. ASSUME ~crossed' PROVE OnRoute'
    BY <2>1, <2>2, <2>3, <2>5 DEF OnRoute, BrowserInv
  <2> QED
    BY <2>1, <2>2, <2>3, <2>4, <2>5 DEF BrowserInv
<1>3. ASSUME NEW r \in requests, RequestFails(r)
      PROVE  BrowserInv'
  <2> PICK v \in [of: Pages \cup {"nothing"}, answered: Nat, prompt: BOOLEAN, error: BOOLEAN,
                  loading: BOOLEAN, notFound: BOOLEAN] : v = view
    BY DEF BrowserInv, BrowserTypeOK
  <2> DEFINE w == [v EXCEPT !.error = v.error \/ ~r.password]
  <2>1. r.password \in BOOLEAN
    BY DEF BrowserInv, BrowserTypeOK
  <2>2. /\ w \in [of: Pages \cup {"nothing"}, answered: Nat, prompt: BOOLEAN, error: BOOLEAN,
                  loading: BOOLEAN, notFound: BOOLEAN]
        /\ w.answered = v.answered /\ w.loading = v.loading /\ w.notFound = v.notFound
        /\ w.of = v.of /\ (v.error => w.error)
    BY <2>1
  <2>3. /\ requests' = requests \ {r} /\ view' = w
        /\ UNCHANGED <<tab, route, history, loads, count, crossed>>
    BY <1>3 DEF RequestFails
  <2> HIDE DEF w
  <2>4. BrowserTypeOK'
    BY <2>2, <2>3 DEF BrowserTypeOK, BrowserInv
  <2> QED
    BY <2>2, <2>3, <2>4 DEF BrowserInv, OnRoute
<1> QED
  BY <1>1, <1>2, <1>3

\* When all is answered the page of the address is shown, or a message, and the
\* buttons stand on it, unless an answer of a page that was left came in between
\* (App.tsx:187-232, 262-269, 972-1000).
THEOREM PageIsShown == BrowserSpec => []ShowsWhereItIs
<1>1. BrowserInv /\ [BrowserNext]_browserVars => BrowserInv'
  <2> SUFFICES ASSUME BrowserInv, [BrowserNext]_browserVars PROVE BrowserInv'
    OBVIOUS
  <2>1. CASE BrowserNext
    BY <2>1, MovingKeeps, AnswersKeep, RequestsKeep DEF BrowserNext, Event
  <2>2. CASE UNCHANGED browserVars
    BY <2>2 DEF browserVars, BrowserInv, BrowserTypeOK, OnRoute
  <2> QED
    BY <2>1, <2>2
<1>2. BrowserInv => ShowsWhereItIs
  BY DEF BrowserInv, OnRoute, ShowsWhereItIs
<1> QED
  BY <1>1, <1>2, BrowserInitInv, PTL DEF BrowserSpec

-----------------------------------------------------------------------------
(* LogFile.                                                                 *)

\* The day of a second is a number, and does not go back.
LEMMA DayMonotone ==
  ASSUME NEW t \in Nat, NEW u \in Nat, t <= u
  PROVE  dayKey(t) \in Nat /\ dayKey(u) \in Nat /\ dayKey(t) <= dayKey(u)
<1> DEFINE d == DaySeconds
<1>1. d \in Nat /\ d > 0
  BY TimeAssumption
<1> HIDE DEF d
<1>2. /\ t \div d \in Int /\ u \div d \in Int
      /\ d * (t \div d) <= t /\ t < d * (t \div d) + d
      /\ d * (u \div d) <= u /\ u < d * (u \div d) + d
  BY <1>1
<1>3. \A q, p \in Int : d * q <= t /\ t < d * q + d /\ d * p <= u /\ u < d * p + d
                        => q <= p /\ 0 <= q /\ 0 <= p
  BY <1>1
<1> QED
  BY <1>2, <1>3 DEF dayKey, d

\* Of some numbers there is a least one.
LEMMA LeastNumber ==
  ASSUME NEW T \in SUBSET Nat, T # {}
  PROVE  \E x \in T : \A y \in T : x <= y
<1>1. \E x \in T : \A y \in T : ~(<<y, x>> \in OpToRel(<, Nat))
  BY WFMin, NatLessThanWellFounded
<1>2. PICK x \in T : \A y \in T : ~(<<y, x>> \in OpToRel(<, Nat))
  BY <1>1
<1>3. ASSUME NEW y \in T PROVE x <= y
  <2>1. ~(<<y, x>> \in {ss \in Nat \X Nat : ss[1] < ss[2]})
    BY <1>2 DEF OpToRel
  <2>2. <<y, x>> \in Nat \X Nat
    OBVIOUS
  <2> QED
    BY <2>1, <2>2
<1> QED
  BY <1>2, <1>3

\* An archive gets a name that none has: among one number more than there are
\* archives, one is not taken.
LEMMA NameIsNew ==
  ASSUME NEW now \in Nat, IsFiniteSet(DOMAIN archives)
  PROVE  archivePath(now) \in {now} \X Nat /\ archivePath(now) \notin DOMAIN archives
<1> DEFINE c == Cardinality(DOMAIN archives)
           T == {i \in 0 .. c : <<now, i>> \notin DOMAIN archives}
<1>1. c \in Nat
  BY FS_CardinalityType
<1>2. T # {}
  <2> SUFFICES ASSUME T = {} PROVE FALSE
    OBVIOUS
  <2> DEFINE f == [i \in 0 .. c |-> <<now, i>>]
  <2>1. \A i \in 0 .. c : <<now, i>> \in DOMAIN archives
    OBVIOUS
  <2>2. f \in [0 .. c -> DOMAIN archives]
    BY <2>1
  <2>3. IsFiniteSet(0 .. c) /\ Cardinality(0 .. c) = c + 1
    BY <1>1, FS_Interval
  <2>4. \E x, y \in 0 .. c : x # y /\ f[x] = f[y]
    <3> HIDE DEF f
    <3> QED
      BY <1>1, <2>2, <2>3, FS_PigeonHole
  <2> QED
    BY <2>4
<1>3. PICK i \in T : \A j \in T : i <= j
  <2>1. T \in SUBSET Nat
    BY <1>1
  <2> HIDE DEF T
  <2> QED
    BY <1>2, <2>1, LeastNumber
<1>4. \A j \in 0 .. i - 1 : <<now, j>> \in DOMAIN archives
  BY <1>1, <1>3
<1>5. <<now, i>> \in {now} \X (0 .. c) /\ <<now, i>> \notin DOMAIN archives
      /\ <<now, i>>[2] = i
  BY <1>3
<1>6. \E name \in {now} \X (0 .. c) :
        /\ name \notin DOMAIN archives
        /\ \A j \in 0 .. name[2] - 1 : <<now, j>> \in DOMAIN archives
  BY <1>4, <1>5
<1>7. archivePath(now) \in {now} \X (0 .. c) /\ archivePath(now) \notin DOMAIN archives
  <2> HIDE DEF c
  <2> QED
    BY <1>6 DEF archivePath, c
<1> QED
  BY <1>1, <1>7

\* The lines of a file are of one day, that of its ModTime, unless it is late, and
\* what was stored before its last write was seen before.
FileInv(f) ==
  /\ f \in File /\ f.lines \subseteq DOMAIN stored /\ \A m \in f.lines : m <= f.last
  /\ f.last <= active.last /\ f.modTime <= second
  /\ f.bytes = 0 => f.lines = {}
  /\ f.bytes > 0 => \A m \in DOMAIN stored : m <= f.last => stored[m] <= f.modTime
  /\ ~f.late => \A m \in f.lines : dayKey(stored[m]) = dayKey(f.modTime)
  /\ f.bytes > MaxSize => Cardinality(f.lines) <= 1

\* What the writer knows of an open file: its size, and a day that is not after
\* that of its lines.
WriterInv ==
  /\ writer.openedDay <= dayKey(second)
  /\ writer.file # "nil" =>
       /\ writer.size = active.bytes
       /\ ~active.late => \A m \in active.lines : writer.openedDay <= dayKey(stored[m])

\* What the call that holds the mutex has seen to.
CallInv ==
  /\ write.now <= second /\ (write.phase # "idle" => write.size > 0)
  /\ write.phase \in {"check", "close", "cleanup", "append"} => writer.file # "nil"
  /\ write.phase = "rename" => writer.file = "nil"
  /\ write.phase = "cleanup" \/ (write.phase = "open" /\ write.rotating) => active.bytes = 0
  /\ write.phase = "append" =>
       \/ active.bytes = 0
       \/ /\ writer.openedDay = dayKey(write.now) /\ active.bytes + write.size <= MaxSize
          /\ \A m \in DOMAIN stored : stored[m] <= write.now

HistoryInv ==
  /\ LogTypeOK /\ IsFiniteSet(DOMAIN archives)
  /\ \A m \in DOMAIN stored : m <= active.last /\ stored[m] <= second
  /\ FileInv(active)
  /\ \A a \in DOMAIN archives : FileInv(archives[a]) /\ archives[a].bytes > 0

LogInv == HistoryInv /\ WriterInv /\ CallInv /\ LinesKept

\* In the beginning there is no file.
LEMMA LogInitInv == LogInit => LogInv
<1> SUFFICES ASSUME LogInit PROVE LogInv
  OBVIOUS
<1>1. /\ second = 0 /\ active = Empty /\ archives = <<>> /\ writer = Opened /\ write = WriteIdle
      /\ stored = <<>> /\ DOMAIN archives = {} /\ DOMAIN stored = {}
  BY DEF LogInit
<1>2. /\ Empty \in File /\ Empty.bytes = 0 /\ Empty.lines = {} /\ Empty.last = 0
      /\ Empty.modTime = 0
  BY DEF Empty, File
<1>3. dayKey(0) \in Nat
  BY DayMonotone
<1>4. /\ writer \in [file: {"nil", "open", "broken"}, size: Nat, openedDay: Nat]
      /\ writer.size = 0 /\ writer.openedDay = dayKey(0)
  BY <1>1, <1>2, <1>3 DEF Opened
<1>5. /\ write \in [phase: {"idle", "open", "check", "close", "rename", "cleanup", "append"},
                    size: LineSizes \cup {0}, now: Nat, rotating: BOOLEAN]
      /\ write.phase = "idle" /\ write.now = 0
  BY <1>1 DEF WriteIdle
<1>6. HistoryInv
  BY <1>1, <1>2, <1>4, <1>5, FS_EmptySet, PolicyAssumption DEF HistoryInv, LogTypeOK, FileInv
<1>7. WriterInv /\ CallInv
  BY <1>1, <1>2, <1>3, <1>4, <1>5 DEF WriterInv, CallInv
<1>8. LinesKept
  BY <1>1 DEF LinesKept
<1> QED
  BY <1>6, <1>7, <1>8 DEF LogInv

\* What is too old stays so, and so is what is older.
LEMMA OlderStays ==
  ASSUME NEW t \in Nat, NEW u \in Nat, u <= t, NEW now \in Nat, NEW later \in Nat, now <= later,
         TooOld(t, now)
  PROVE  TooOld(u, later)
<1> PICK age \in Int : age = MaxAge * DaySeconds
  BY PolicyAssumption, TimeAssumption
<1> QED
  BY DEF TooOld

\* What was stored of a file stays as it is when the clock advances and more is
\* stored.
LEMMA FileKeeps ==
  ASSUME NEW f, FileInv(f), HistoryInv,
         second' \in Nat, second <= second', active'.last \in Nat, active.last <= active'.last,
         DOMAIN stored \subseteq DOMAIN stored', DOMAIN stored' \subseteq Nat,
         \A m \in DOMAIN stored : stored'[m] = stored[m],
         \A m \in DOMAIN stored' : m \in DOMAIN stored \/ m > active.last
  PROVE  FileInv(f)'
<1>1. second \in Nat /\ active.last \in Nat /\ DOMAIN stored \subseteq Nat
      /\ f.last \in Nat /\ f.modTime \in Nat
      /\ \A m \in DOMAIN stored : stored[m] \in Nat
  BY DEF HistoryInv, LogTypeOK, FileInv, File
<1>2. f.lines \subseteq DOMAIN stored
  BY DEF FileInv
<1>3. \A m \in DOMAIN stored' : m <= f.last => m \in DOMAIN stored
  BY <1>1 DEF FileInv
<1> QED
  BY <1>1, <1>2, <1>3 DEF FileInv

\* Where the call and the clock advance only, what the files have is as before.
LEMMA FilesKeep ==
  ASSUME HistoryInv, second' \in Nat, second <= second', UNCHANGED <<active, archives, stored>>,
         writer' \in [file: {"nil", "open", "broken"}, size: Nat, openedDay: Nat],
         write' \in [phase: {"idle", "open", "check", "close", "rename", "cleanup", "append"},
                     size: LineSizes \cup {0}, now: Nat, rotating: BOOLEAN]
  PROVE  HistoryInv' /\ (LinesKept => LinesKept')
<1>1. /\ second \in Nat /\ active \in File /\ active.last \in Nat
      /\ DOMAIN stored \subseteq Nat /\ \A m \in DOMAIN stored : stored[m] \in Nat
      /\ \A m \in DOMAIN stored : m <= active.last /\ stored[m] <= second
  BY DEF HistoryInv, LogTypeOK, File
<1>2. \A f : FileInv(f) => FileInv(f)'
  <2> SUFFICES ASSUME NEW f, FileInv(f) PROVE FileInv(f)'
    OBVIOUS
  <2> QED
    BY <1>1, FileKeeps
<1>3. FileInv(active)'
  <2> PICK f : f = active /\ FileInv(f)
    BY DEF HistoryInv
  <2>1. FileInv(f)' /\ f = active'
    BY <1>2
  <2> QED
    BY <2>1 DEF FileInv
<1>4. ASSUME NEW a \in DOMAIN archives PROVE FileInv(archives[a])' /\ (archives[a].bytes > 0)'
  <2> PICK f : f = archives[a] /\ FileInv(f) /\ f.bytes > 0
    BY DEF HistoryInv
  <2>1. FileInv(f)' /\ f = archives'[a]
    BY <1>2
  <2> QED
    BY <2>1 DEF FileInv
<1>5. LogTypeOK'
  BY DEF LogTypeOK, HistoryInv
<1>6. HistoryInv'
  BY <1>1, <1>3, <1>4, <1>5 DEF HistoryInv
<1>7. ASSUME LinesKept PROVE LinesKept'
  <2>1. \A t \in Nat : TooOld(t, second) => TooOld(t, second')
    BY <1>1, OlderStays
  <2> QED
    BY <1>1, <1>7, <2>1 DEF LinesKept
<1> QED
  BY <1>6, <1>7

\* A file that is found is known as it is.
LEMMA OpenedInv ==
  ASSUME HistoryInv, UNCHANGED <<active, stored, second>>, writer' = Opened
  PROVE  /\ writer' \in [file: {"nil", "open", "broken"}, size: Nat, openedDay: Nat]
         /\ writer'.file = "open" /\ WriterInv'
<1>1. /\ second \in Nat /\ active \in File /\ active.bytes \in Nat /\ active.modTime \in Nat
      /\ active.modTime <= second
  BY DEF HistoryInv, LogTypeOK, FileInv, File
<1>2. PICK t \in Nat : t = (IF active.bytes > 0 THEN active.modTime ELSE second) /\ t <= second
  BY <1>1
<1>3. /\ writer' = [file |-> "open", size |-> active.bytes, openedDay |-> dayKey(t)]
      /\ dayKey(t) \in Nat /\ dayKey(t) <= dayKey(second)
  BY <1>1, <1>2, DayMonotone DEF Opened
<1>4. ~active.late => \A m \in active.lines : dayKey(t) <= dayKey(stored[m])
  <2> SUFFICES ASSUME ~active.late, NEW m \in active.lines PROVE dayKey(t) <= dayKey(stored[m])
    OBVIOUS
  <2>1. active.bytes > 0 /\ dayKey(stored[m]) = dayKey(active.modTime)
    BY <1>1 DEF HistoryInv, FileInv
  <2> QED
    BY <1>2, <1>3, <2>1
<1> QED
  BY <1>1, <1>3, <1>4 DEF WriterInv

\* The clock, and steps that touch neither the file nor the archives.
LEMMA QuietSteps ==
  ASSUME LogInv, BeginWrite \/ OpenFile \/ Check \/ CloseFile \/ Restart \/ Second
  PROVE  LogInv'
<1>1. /\ second \in Nat /\ active \in File /\ active.bytes \in Nat
      /\ writer \in [file: {"nil", "open", "broken"}, size: Nat, openedDay: Nat]
      /\ write \in [phase: {"idle", "open", "check", "close", "rename", "cleanup", "append"},
                    size: LineSizes \cup {0}, now: Nat, rotating: BOOLEAN]
      /\ LogTypeOK /\ HistoryInv /\ LinesKept /\ WriterInv /\ CallInv
      /\ LineSizes \subseteq Nat \ {0}
  BY PolicyAssumption DEF LogInv, HistoryInv, LogTypeOK, File
<1> PICK w \in [phase: {"idle", "open", "check", "close", "rename", "cleanup", "append"},
                size: LineSizes \cup {0}, now: Nat, rotating: BOOLEAN] : w = write
  BY <1>1
<1> PICK r \in [file: {"nil", "open", "broken"}, size: Nat, openedDay: Nat] : r = writer
  BY <1>1
<1>2. /\ WriteIdle \in [phase: {"idle", "open", "check", "close", "rename", "cleanup", "append"},
                        size: LineSizes \cup {0}, now: Nat, rotating: BOOLEAN]
      /\ WriteIdle.phase = "idle" /\ WriteIdle.now = 0 /\ WriteIdle.rotating = FALSE
  BY DEF WriteIdle
<1>3. ASSUME UNCHANGED <<second, active, stored, writer>> PROVE WriterInv'
  BY <1>1, <1>3 DEF WriterInv
<1>4. ASSUME Answer, UNCHANGED <<second, active, stored>> PROVE CallInv'
  BY <1>1, <1>2, <1>4 DEF Answer, CallInv
<1>5. CASE BeginWrite
  <2>1. PICK n \in LineSizes :
          write' = [WriteIdle EXCEPT !.phase = IF writer.file = "nil" THEN "open" ELSE "check",
                                     !.size = n]
    BY <1>5 DEF BeginWrite
  <2>2. /\ write' \in [phase: {"idle", "open", "check", "close", "rename", "cleanup", "append"},
                       size: LineSizes \cup {0}, now: Nat, rotating: BOOLEAN]
        /\ write'.phase = (IF writer.file = "nil" THEN "open" ELSE "check")
        /\ write'.size = n /\ write'.now = 0 /\ write'.rotating = FALSE
    BY <1>1, <2>1 DEF WriteIdle
  <2>3. UNCHANGED <<second, active, archives, writer, stored>>
    BY <1>5 DEF BeginWrite
  <2>4. CallInv'
    BY <1>1, <2>2, <2>3 DEF CallInv
  <2> QED
    BY <1>1, <1>3, <2>2, <2>3, <2>4, FilesKeep DEF LogInv
<1>6. CASE OpenFile
  <2>1. w.phase = "open" /\ UNCHANGED <<second, active, archives, stored>>
    BY <1>6 DEF OpenFile
  <2>2. CASE writer' = Opened /\ Proceed(IF write.rotating THEN "cleanup" ELSE "check")
    <3>1. write' = [w EXCEPT !.phase = IF w.rotating THEN "cleanup" ELSE "check"]
      BY <2>2 DEF Proceed
    <3>2. /\ write' \in [phase: {"idle", "open", "check", "close", "rename", "cleanup", "append"},
                         size: LineSizes \cup {0}, now: Nat, rotating: BOOLEAN]
          /\ write'.phase = (IF w.rotating THEN "cleanup" ELSE "check")
          /\ write'.size = w.size /\ write'.now = w.now /\ write'.rotating = w.rotating
      BY <3>1
    <3>3. /\ writer' \in [file: {"nil", "open", "broken"}, size: Nat, openedDay: Nat]
          /\ writer'.file = "open" /\ WriterInv'
      BY <1>1, <2>1, <2>2, OpenedInv
    <3>4. CallInv'
      BY <1>1, <2>1, <3>2, <3>3 DEF CallInv
    <3> QED
      BY <1>1, <2>1, <3>2, <3>3, <3>4, FilesKeep DEF LogInv
  <2>3. CASE Answer /\ UNCHANGED writer
    <3>1. write' = WriteIdle
      BY <2>3 DEF Answer
    <3> QED
      BY <1>1, <1>2, <1>3, <1>4, <2>1, <2>3, <3>1, FilesKeep DEF LogInv
  <2> QED
    BY <1>6, <2>2, <2>3 DEF OpenFile, Fail
<1>7. CASE Check
  <2>1. /\ w.phase = "check" /\ UNCHANGED <<second, active, archives, writer, stored>>
        /\ write' = [w EXCEPT !.now = second, !.rotating = shouldRotate(second),
                              !.phase = IF shouldRotate(second) THEN "close" ELSE "append"]
    BY <1>7 DEF Check
  <2>2. shouldRotate(second) \in BOOLEAN
    BY DEF shouldRotate
  <2>3. /\ write' \in [phase: {"idle", "open", "check", "close", "rename", "cleanup", "append"},
                       size: LineSizes \cup {0}, now: Nat, rotating: BOOLEAN]
        /\ write'.phase = (IF shouldRotate(second) THEN "close" ELSE "append")
        /\ write'.size = w.size /\ write'.now = second /\ write'.rotating = shouldRotate(second)
    BY <1>1, <2>1, <2>2
  <2>4. writer.file # "nil" /\ writer.size = active.bytes
    BY <1>1, <2>1 DEF CallInv, WriterInv
  <2>5. CallInv'
    <3>1. ~shouldRotate(second) =>
            active.bytes = 0 \/ (writer.openedDay = dayKey(second)
                                 /\ active.bytes + w.size <= MaxSize)
      <4>1. w.size \in Nat /\ MaxSize \in Nat
        <5>1. w.size \in LineSizes \cup {0}
          OBVIOUS
        <5>2. LineSizes \cup {0} \subseteq Nat
          BY PolicyAssumption
        <5>3. MaxSize \in Nat
          BY PolicyAssumption
        <5> QED
          BY <5>1, <5>2, <5>3
      <4> QED
        BY <1>1, <2>4, <4>1 DEF shouldRotate
    <3>2. \A m \in DOMAIN stored : stored[m] <= second
      BY <1>1 DEF HistoryInv
    <3> QED
      BY <1>1, <2>1, <2>3, <2>4, <3>1, <3>2 DEF CallInv
  <2> QED
    BY <1>1, <1>3, <2>1, <2>3, <2>5, FilesKeep DEF LogInv
<1>8. CASE CloseFile
  <2>1. w.phase = "close" /\ UNCHANGED <<second, active, archives, stored>>
    BY <1>8 DEF CloseFile
  <2>2. CASE r.file = "open" /\ writer' = [r EXCEPT !.file = "nil"] /\ Proceed("rename")
    <3>1. /\ write' \in [phase: {"idle", "open", "check", "close", "rename", "cleanup", "append"},
                         size: LineSizes \cup {0}, now: Nat, rotating: BOOLEAN]
          /\ write'.phase = "rename"
          /\ write'.size = w.size /\ write'.now = w.now /\ write'.rotating = w.rotating
      BY <2>2 DEF Proceed
    <3>2. /\ writer' \in [file: {"nil", "open", "broken"}, size: Nat, openedDay: Nat]
          /\ writer'.file = "nil" /\ writer'.openedDay = r.openedDay
      BY <2>2
    <3>3. WriterInv' /\ CallInv'
      BY <1>1, <2>1, <3>1, <3>2 DEF WriterInv, CallInv
    <3> QED
      BY <1>1, <2>1, <3>1, <3>2, <3>3, FilesKeep DEF LogInv
  <2>3. CASE Answer /\ writer' = [r EXCEPT !.file = "broken"]
    <3>1. /\ writer' \in [file: {"nil", "open", "broken"}, size: Nat, openedDay: Nat]
          /\ writer'.size = r.size /\ writer'.openedDay = r.openedDay
      BY <2>3
    <3>2. r.file # "nil"
      BY <1>1, <2>1 DEF CallInv
    <3>3. WriterInv'
      BY <1>1, <2>1, <3>1, <3>2 DEF WriterInv
    <3>4. write' = WriteIdle
      BY <2>3 DEF Answer
    <3> QED
      BY <1>1, <1>2, <1>4, <2>1, <2>3, <3>1, <3>3, <3>4, FilesKeep DEF LogInv
  <2>4. CASE Answer /\ UNCHANGED writer
    <3>1. write' = WriteIdle
      BY <2>4 DEF Answer
    <3> QED
      BY <1>1, <1>2, <1>3, <1>4, <2>1, <2>4, <3>1, FilesKeep DEF LogInv
  <2> QED
    BY <1>8, <2>2, <2>3, <2>4 DEF CloseFile, Fail
<1>9. CASE Restart
  <2>1. writer' = Opened /\ write' = WriteIdle /\ UNCHANGED <<second, active, archives, stored>>
    BY <1>9 DEF Restart
  <2>2. Answer
    BY <2>1 DEF Answer
  <2> QED
    BY <1>1, <1>2, <1>4, <2>1, <2>2, OpenedInv, FilesKeep DEF LogInv
<1>10. CASE Second
  <2>1. second' = second + 1 /\ UNCHANGED <<active, archives, writer, write, stored>>
    BY <1>10 DEF Second
  <2>2. dayKey(second) <= dayKey(second') /\ dayKey(second) \in Nat /\ dayKey(second') \in Nat
        /\ second' \in Nat /\ second <= second'
    BY <1>1, <2>1, DayMonotone
  <2>3. WriterInv' /\ CallInv'
    BY <1>1, <2>1, <2>2 DEF WriterInv, CallInv
  <2> QED
    BY <1>1, <2>1, <2>2, <2>3, FilesKeep DEF LogInv
<1> QED
  BY <1>5, <1>6, <1>7, <1>8, <1>9, <1>10

\* The archives above n in one state are no fewer in the next.
LEMMA NoFewer ==
  ASSUME NEW S, NEW T, IsFiniteSet(T), S \subseteq T, NEW k \in Nat, Cardinality(S) >= k
  PROVE  Cardinality(T) >= k
<1>1. IsFiniteSet(S) /\ Cardinality(S) <= Cardinality(T)
  BY FS_Subset
<1>2. Cardinality(S) \in Nat /\ Cardinality(T) \in Nat
  BY <1>1, FS_CardinalityType
<1> QED
  BY <1>1, <1>2

\* The file is archived: under a name of its own, so that no archive is lost.
LEMMA RenameKeeps ==
  ASSUME LogInv, RenameFile
  PROVE  LogInv'
<1>1. /\ second \in Nat /\ active \in File /\ active.bytes \in Nat /\ active.last \in Nat
      /\ write \in [phase: {"idle", "open", "check", "close", "rename", "cleanup", "append"},
                    size: LineSizes \cup {0}, now: Nat, rotating: BOOLEAN]
      /\ LogTypeOK /\ HistoryInv /\ LinesKept /\ WriterInv /\ CallInv
      /\ IsFiniteSet(DOMAIN archives)
  BY DEF LogInv, HistoryInv, LogTypeOK, File
<1> PICK w \in [phase: {"idle", "open", "check", "close", "rename", "cleanup", "append"},
                size: LineSizes \cup {0}, now: Nat, rotating: BOOLEAN] : w = write
  BY <1>1
<1>2. w.phase = "rename" /\ UNCHANGED <<second, writer, stored>>
  BY DEF RenameFile
<1>3. CASE Answer /\ UNCHANGED <<active, archives>>
  <2>1. /\ write' \in [phase: {"idle", "open", "check", "close", "rename", "cleanup", "append"},
                       size: LineSizes \cup {0}, now: Nat, rotating: BOOLEAN]
        /\ write'.phase = "idle" /\ write'.now = 0
    BY <1>3 DEF Answer, WriteIdle
  <2>2. WriterInv' /\ CallInv'
    BY <1>1, <1>2, <1>3, <2>1 DEF WriterInv, CallInv
  <2> QED
    BY <1>1, <1>2, <1>3, <2>1, <2>2, FilesKeep DEF LogInv, LogTypeOK
<1>4. CASE active.bytes > 0 /\ Proceed("open")
           /\ active' = [Empty EXCEPT !.last = active.last]
           /\ archives' = [a \in DOMAIN archives \cup {archivePath(write.now)} |->
                             IF a = archivePath(write.now) THEN active ELSE archives[a]]
  <2> PICK name \in Nat \X Nat : name = archivePath(w.now) /\ name \notin DOMAIN archives
    BY <1>1, NameIsNew
  <2>1. /\ DOMAIN archives' = DOMAIN archives \cup {name} /\ archives'[name] = active
        /\ \A a \in DOMAIN archives : archives'[a] = archives[a]
    BY <1>4
  <2>2. /\ active' \in File /\ active'.bytes = 0 /\ active'.lines = {} /\ active'.last = active.last
        /\ active'.modTime = 0
    BY <1>1, <1>4 DEF Empty, File
  <2>3. /\ write' \in [phase: {"idle", "open", "check", "close", "rename", "cleanup", "append"},
                       size: LineSizes \cup {0}, now: Nat, rotating: BOOLEAN]
        /\ write'.phase = "open" /\ write'.now = w.now /\ write'.size = w.size
    BY <1>4 DEF Proceed
  <2>4. \A a \in DOMAIN archives' : a \in Nat \X Nat
    BY <1>1, <2>1 DEF LogTypeOK
  <2>5. ASSUME NEW f, FileInv(f) PROVE FileInv(f)'
    BY <1>1, <1>2, <2>2, <2>5, FileKeeps DEF LogTypeOK
  <2>6. ASSUME NEW a \in DOMAIN archives'
        PROVE  FileInv(archives[a])' /\ (archives[a].bytes > 0)' /\ archives'[a] \in File
    <3>1. CASE a = name
      <4> PICK f : f = active /\ FileInv(f) /\ f.bytes > 0
        BY <1>1, <1>4 DEF HistoryInv
      <4>1. FileInv(f)' /\ f = archives'[a]
        BY <2>1, <2>5, <3>1
      <4> QED
        BY <4>1 DEF FileInv
    <3>2. CASE a \in DOMAIN archives
      <4> PICK f : f = archives[a] /\ FileInv(f) /\ f.bytes > 0
        BY <1>1, <3>2 DEF HistoryInv
      <4>1. FileInv(f)' /\ f = archives'[a]
        BY <2>1, <2>5, <3>2
      <4> QED
        BY <4>1 DEF FileInv
    <3> QED
      BY <2>1, <3>1, <3>2
  <2>7. LogTypeOK'
    BY <1>1, <1>2, <2>2, <2>3, <2>4, <2>6 DEF LogTypeOK
  <2>8. IsFiniteSet(DOMAIN archives')
    BY <1>1, <2>1, FS_AddElement
  <2>9. FileInv(active)'
    BY <1>1, <1>2, <2>2, PolicyAssumption DEF FileInv
  <2>10. \A m \in DOMAIN stored' : m <= active'.last /\ stored'[m] <= second'
    BY <1>1, <1>2, <2>2 DEF HistoryInv
  <2>11. HistoryInv'
    BY <2>6, <2>7, <2>8, <2>9, <2>10 DEF HistoryInv
  <2>12. WriterInv' /\ CallInv'
    <3>1. writer.file = "nil" /\ writer'.file = "nil"
      BY <1>1, <1>2 DEF CallInv
    <3> QED
      BY <1>1, <1>2, <2>2, <2>3, <3>1 DEF WriterInv, CallInv
  <2>13. LinesKept'
    <3> SUFFICES ASSUME NEW n \in DOMAIN stored
                 PROVE  \/ n \in active'.lines \/ \E a \in DOMAIN archives' : n \in archives'[a].lines
                        \/ MaxBackups > 0
                           /\ Cardinality({a \in DOMAIN archives' : archives'[a].last > n}) >= MaxBackups
                        \/ TooOld(stored[n], second)
      BY <1>2 DEF LinesKept
    <3>1. CASE n \in active.lines
      BY <2>1, <3>1
    <3>2. CASE \E a \in DOMAIN archives : n \in archives[a].lines
      BY <2>1, <3>2
    <3>3. CASE MaxBackups > 0
               /\ Cardinality({a \in DOMAIN archives : archives[a].last > n}) >= MaxBackups
      <4> DEFINE S == {a \in DOMAIN archives : archives[a].last > n}
                 T == {a \in DOMAIN archives' : archives'[a].last > n}
      <4>1. S \subseteq T
        BY <2>1
      <4>2. IsFiniteSet(T)
        BY <2>8, FS_Subset
      <4> HIDE DEF S, T
      <4>3. Cardinality(T) >= MaxBackups
        BY <3>3, <4>1, <4>2, NoFewer, PolicyAssumption DEF S
      <4> QED
        BY <3>3, <4>3 DEF T
    <3> QED
      BY <1>1, <3>1, <3>2, <3>3 DEF LinesKept
  <2> QED
    BY <2>11, <2>12, <2>13 DEF LogInv
<1> QED
  BY <1>3, <1>4 DEF RenameFile, Fail

\* What is removed is over the limits: it has no line that is to be kept, nor is it
\* missed among the archives that are newer than such a line.
LEMMA RemoveKeeps ==
  ASSUME LogInv, RemoveArchive
  PROVE  LogInv'
<1>1. /\ second \in Nat /\ active \in File /\ active.bytes \in Nat /\ active.last \in Nat
      /\ write \in [phase: {"idle", "open", "check", "close", "rename", "cleanup", "append"},
                    size: LineSizes \cup {0}, now: Nat, rotating: BOOLEAN]
      /\ writer \in [file: {"nil", "open", "broken"}, size: Nat, openedDay: Nat]
      /\ LogTypeOK /\ HistoryInv /\ LinesKept /\ WriterInv /\ CallInv
      /\ IsFiniteSet(DOMAIN archives)
  BY DEF LogInv, HistoryInv, LogTypeOK, File
<1> PICK w \in [phase: {"idle", "open", "check", "close", "rename", "cleanup", "append"},
                size: LineSizes \cup {0}, now: Nat, rotating: BOOLEAN] : w = write
  BY <1>1
<1> DEFINE old == {a \in DOMAIN archives : TooMany(a) \/ TooOld(archives[a].modTime, write.now)}
<1>2. w.phase = "cleanup" /\ UNCHANGED <<second, active, writer, stored>>
  BY DEF RemoveArchive
<1>3. ASSUME UNCHANGED archives, Answer \/ Proceed("append")
      PROVE  LogInv'
  <2>1. /\ write' \in [phase: {"idle", "open", "check", "close", "rename", "cleanup", "append"},
                       size: LineSizes \cup {0}, now: Nat, rotating: BOOLEAN]
        /\ \/ write'.phase = "idle" /\ write'.now = 0
           \/ write'.phase = "append" /\ write'.now = w.now /\ write'.size = w.size
    <3>1. CASE Answer
      BY <3>1 DEF Answer, WriteIdle
    <3>2. CASE Proceed("append")
      BY <3>2 DEF Proceed
    <3> QED
      BY <1>3, <3>1, <3>2
  <2>2. WriterInv' /\ CallInv'
    BY <1>1, <1>2, <1>3, <2>1 DEF WriterInv, CallInv
  <2> QED
    BY <1>1, <1>2, <1>3, <2>1, <2>2, FilesKeep DEF LogInv, LogTypeOK
<1>4. CASE old = {} /\ Proceed("append") /\ UNCHANGED archives
  BY <1>3, <1>4
<1>5. CASE Answer /\ UNCHANGED archives
  BY <1>3, <1>5
<1>6. ASSUME NEW a \in old, \A b \in old \ {a} : archives[b].last < archives[a].last,
             archives' = Restrict(archives, DOMAIN archives \ {a}), UNCHANGED write
      PROVE  LogInv'
  <2>1. /\ a \in DOMAIN archives /\ DOMAIN archives' = DOMAIN archives \ {a}
        /\ \A b \in DOMAIN archives \ {a} : archives'[b] = archives[b]
    BY <1>6 DEF Restrict
  <2>2. ASSUME NEW f, FileInv(f) PROVE FileInv(f)'
    BY <1>1, <1>2, <2>2, FileKeeps DEF LogTypeOK
  <2>3. ASSUME NEW b \in DOMAIN archives'
        PROVE  FileInv(archives[b])' /\ (archives[b].bytes > 0)' /\ archives'[b] \in File
    <3> PICK f : f = archives[b] /\ FileInv(f) /\ f.bytes > 0
      BY <1>1, <2>1 DEF HistoryInv
    <3>1. FileInv(f)' /\ f = archives'[b]
      BY <2>1, <2>2
    <3> QED
      BY <3>1 DEF FileInv
  <2>4. LogTypeOK'
    BY <1>1, <1>2, <1>6, <2>1, <2>3 DEF LogTypeOK
  <2>5. IsFiniteSet(DOMAIN archives')
    BY <1>1, <2>1, FS_RemoveElement
  <2>6. FileInv(active)'
    <3> PICK f : f = active /\ FileInv(f)
      BY <1>1 DEF HistoryInv
    <3>1. FileInv(f)' /\ f = active'
      BY <1>2, <2>2
    <3> QED
      BY <3>1 DEF FileInv
  <2>7. HistoryInv'
    BY <1>1, <1>2, <2>3, <2>4, <2>5, <2>6 DEF HistoryInv
  <2>8. WriterInv' /\ CallInv'
    BY <1>1, <1>2, <1>6 DEF WriterInv, CallInv
  <2>9. ASSUME NEW n \in DOMAIN stored, n <= archives[a].last
        PROVE  \/ MaxBackups > 0
                  /\ Cardinality({b \in DOMAIN archives' : archives'[b].last > n}) >= MaxBackups
               \/ TooOld(stored[n], second)
    <3>1. /\ n \in Nat /\ stored[n] \in Nat /\ archives[a].last \in Nat /\ archives[a].modTime \in Nat
          /\ stored[n] <= archives[a].modTime
          /\ \A b \in DOMAIN archives : archives[b].last \in Nat
      BY <1>1, <2>1, <2>9 DEF HistoryInv, FileInv, LogTypeOK, File
    <3>2. CASE TooMany(a)
      <4> DEFINE T == {b \in DOMAIN archives' : archives'[b].last > n}
      <4>1. Newer(a) \subseteq T
        BY <2>1, <2>9, <3>1 DEF Newer
      <4>2. IsFiniteSet(T)
        BY <2>5, FS_Subset
      <4> HIDE DEF T
      <4>3. Cardinality(T) >= MaxBackups /\ MaxBackups > 0
        BY <3>2, <4>1, <4>2, NoFewer, PolicyAssumption DEF TooMany
      <4> QED
        BY <4>3 DEF T
    <3>3. CASE TooOld(archives[a].modTime, write.now)
      <4>1. w.now \in Nat /\ w.now <= second
        BY <1>1 DEF CallInv
      <4> QED
        BY <1>1, <3>1, <3>3, <4>1, OlderStays
    <3> QED
      BY <3>2, <3>3
  <2>10. LinesKept'
    <3> SUFFICES ASSUME NEW n \in DOMAIN stored
                 PROVE  \/ n \in active.lines \/ \E b \in DOMAIN archives' : n \in archives'[b].lines
                        \/ MaxBackups > 0
                           /\ Cardinality({b \in DOMAIN archives' : archives'[b].last > n}) >= MaxBackups
                        \/ TooOld(stored[n], second)
      BY <1>2 DEF LinesKept
    <3>1. CASE n <= archives[a].last
      BY <2>9, <3>1
    <3>2. CASE ~(n <= archives[a].last)
      <4>1. n \in Nat /\ archives[a].last \in Nat
            /\ \A m \in archives[a].lines : m <= archives[a].last
        BY <1>1, <2>1 DEF HistoryInv, FileInv, LogTypeOK, File
      <4>2. {b \in DOMAIN archives' : archives'[b].last > n}
              = {b \in DOMAIN archives : archives[b].last > n}
        BY <2>1, <3>2, <4>1
      <4>3. \A b \in DOMAIN archives : n \in archives[b].lines => b \in DOMAIN archives'
        BY <2>1, <3>2, <4>1
      <4> QED
        BY <1>1, <2>1, <4>2, <4>3 DEF LinesKept
    <3> QED
      BY <3>1, <3>2
  <2> QED
    BY <2>7, <2>8, <2>10 DEF LogInv
<1> QED
  BY <1>4, <1>5, <1>6 DEF RemoveArchive, Fail

\* A line is stored, or a part of one, or nothing of it.
LEMMA AppendKeeps ==
  ASSUME LogInv, AppendLine
  PROVE  LogInv'
<1>1. /\ second \in Nat /\ active \in File /\ active.bytes \in Nat /\ active.last \in Nat
      /\ active.late \in BOOLEAN /\ active.lines \subseteq Nat
      /\ write \in [phase: {"idle", "open", "check", "close", "rename", "cleanup", "append"},
                    size: LineSizes \cup {0}, now: Nat, rotating: BOOLEAN]
      /\ writer \in [file: {"nil", "open", "broken"}, size: Nat, openedDay: Nat]
      /\ DOMAIN stored \subseteq Nat /\ \A m \in DOMAIN stored : stored[m] \in Nat
      /\ LogTypeOK /\ HistoryInv /\ LinesKept /\ WriterInv /\ CallInv
  BY DEF LogInv, HistoryInv, LogTypeOK, File
<1> PICK w \in [phase: {"idle", "open", "check", "close", "rename", "cleanup", "append"},
                size: LineSizes \cup {0}, now: Nat, rotating: BOOLEAN] : w = write
  BY <1>1
<1> PICK r \in [file: {"nil", "open", "broken"}, size: Nat, openedDay: Nat] : r = writer
  BY <1>1
<1> DEFINE n == active.last + 1
<1>2. /\ w.phase = "append" /\ UNCHANGED <<second, archives>>
      /\ w.size \in Nat \ {0} /\ w.now \in Nat /\ w.now <= second /\ r.file # "nil"
      /\ n \in Nat /\ n > active.last
  <2>1. w.phase = "append" /\ UNCHANGED <<second, archives>>
    BY DEF AppendLine
  <2>2. LineSizes \cup {0} \subseteq Nat
    BY PolicyAssumption
  <2>3. w.size \in Nat /\ w.size > 0 /\ w.now <= second /\ r.file # "nil"
    BY <1>1, <2>1, <2>2 DEF CallInv
  <2> QED
    BY <1>1, <2>1, <2>3
<1>3. ASSUME Answer PROVE CallInv' /\
        write' \in [phase: {"idle", "open", "check", "close", "rename", "cleanup", "append"},
                    size: LineSizes \cup {0}, now: Nat, rotating: BOOLEAN]
  <2>1. /\ write' \in [phase: {"idle", "open", "check", "close", "rename", "cleanup", "append"},
                       size: LineSizes \cup {0}, now: Nat, rotating: BOOLEAN]
        /\ write'.phase = "idle" /\ write'.now = 0
    BY <1>3 DEF Answer, WriteIdle
  <2> QED
    BY <1>1, <1>2, <2>1 DEF CallInv
<1>4. CASE Answer /\ UNCHANGED <<active, writer, stored>>
  <2>1. WriterInv'
    BY <1>1, <1>2, <1>4 DEF WriterInv
  <2> QED
    BY <1>1, <1>2, <1>3, <1>4, <2>1, FilesKeep DEF LogInv, LogTypeOK
<1>5. ASSUME NEW bytes \in Nat \ {0}, bytes <= w.size, NEW lines \in {{}, {n}},
             r.file = "open", Answer,
             active' = [bytes |-> active.bytes + bytes, lines |-> active.lines \cup lines,
                        last |-> n, modTime |-> second,
                        late |-> active.late \/ dayKey(write.now) # dayKey(second)],
             writer' = [r EXCEPT !.size = r.size + bytes],
             IF lines = {} THEN UNCHANGED stored
             ELSE stored' = [m \in DOMAIN stored \cup {n} |-> IF m = n THEN w.now ELSE stored[m]]
      PROVE  LogInv'
  <2>1. /\ active' \in File /\ active'.bytes = active.bytes + bytes
        /\ active'.lines = active.lines \cup lines /\ active'.last = n /\ active'.modTime = second
        /\ active'.late = (active.late \/ dayKey(w.now) # dayKey(second))
    BY <1>1, <1>2, <1>5 DEF File
  <2>2. /\ writer' \in [file: {"nil", "open", "broken"}, size: Nat, openedDay: Nat]
        /\ writer'.size = r.size + bytes /\ writer'.openedDay = r.openedDay
    BY <1>5
  <2>3. /\ DOMAIN stored' = DOMAIN stored \cup lines
        /\ \A m \in DOMAIN stored : stored'[m] = stored[m]
        /\ \A m \in lines : stored'[m] = w.now
        /\ \A m \in DOMAIN stored : m <= active.last
    <3>1. \A m \in DOMAIN stored : m <= active.last
      BY <1>1 DEF HistoryInv
    <3>2. n \notin DOMAIN stored
      BY <1>1, <1>2, <3>1
    <3> HIDE DEF n
    <3>3. CASE lines = {}
      BY <1>5, <3>1, <3>3
    <3>4. CASE lines = {n}
      <4>1. stored' = [m \in DOMAIN stored \cup {n} |-> IF m = n THEN w.now ELSE stored[m]]
        BY <1>5, <3>4
      <4> QED
        BY <3>1, <3>2, <3>4, <4>1
    <3> QED
      BY <1>5, <3>3, <3>4
  <2>4. ASSUME NEW f, FileInv(f) PROVE FileInv(f)'
    BY <1>1, <1>2, <2>1, <2>3, <2>4, FileKeeps
  <2>5. ASSUME NEW a \in DOMAIN archives
        PROVE  FileInv(archives[a])' /\ (archives[a].bytes > 0)'
    <3> PICK f : f = archives[a] /\ FileInv(f) /\ f.bytes > 0
      BY <1>1 DEF HistoryInv
    <3>1. FileInv(f)' /\ f = archives'[a]
      BY <1>2, <2>4
    <3> QED
      BY <3>1 DEF FileInv
  <2>6. LogTypeOK'
    BY <1>1, <1>2, <1>3, <1>5, <2>1, <2>2, <2>3 DEF LogTypeOK
  <2>7. \A m \in DOMAIN stored' : m <= active'.last /\ stored'[m] <= second'
    BY <1>1, <1>2, <2>1, <2>3 DEF HistoryInv
  <2>8. /\ dayKey(w.now) \in Nat /\ dayKey(second) \in Nat /\ dayKey(w.now) <= dayKey(second)
        /\ r.openedDay <= dayKey(second)
        /\ \A m \in DOMAIN stored : dayKey(stored[m]) \in Nat
    BY <1>1, <1>2, DayMonotone DEF WriterInv
  <2>9. r.size = active.bytes
        /\ (~active.late => \A m \in active.lines : r.openedDay <= dayKey(stored[m]))
    BY <1>1, <1>2 DEF WriterInv
  <2>10. ASSUME ~active'.late, active.bytes # 0, NEW m \in active.lines
         PROVE  dayKey(stored[m]) = dayKey(second)
    <3>1. /\ r.openedDay = dayKey(w.now) /\ m \in DOMAIN stored /\ stored[m] <= w.now
      BY <1>1, <1>2, <2>10 DEF CallInv, HistoryInv, FileInv
    <3>2. dayKey(stored[m]) <= dayKey(w.now)
      BY <1>1, <1>2, <3>1, DayMonotone
    <3>3. r.openedDay <= dayKey(stored[m]) /\ dayKey(w.now) = dayKey(second)
      BY <2>1, <2>9, <2>10
    <3> QED
      BY <2>8, <3>1, <3>2, <3>3
  <2>11. active.bytes = 0 => active.lines = {}
    BY <1>1 DEF HistoryInv, FileInv
  <2>12. active.lines \subseteq DOMAIN stored /\ \A m \in active.lines : m <= active.last
    BY <1>1 DEF HistoryInv, FileInv
  <2>13. ~active'.late => \A m \in active'.lines : dayKey(stored'[m]) = dayKey(active'.modTime)
    BY <2>1, <2>3, <2>10, <2>11, <2>12
  <2>14. active'.bytes > MaxSize => Cardinality(active'.lines) <= 1
    <3>1. CASE active.bytes = 0
      <4>1. active'.lines = lines
        BY <2>1, <2>11, <3>1
      <4>2. Cardinality(lines) <= 1
        <5>1. lines = {} \/ lines = {n}
          BY <1>5
        <5>2. Cardinality({}) = 0 /\ Cardinality({n}) = 1
          BY FS_EmptySet, FS_Singleton
        <5> HIDE DEF n
        <5> QED
          BY <5>1, <5>2
      <4> QED
        BY <4>1, <4>2
    <3>2. CASE active.bytes # 0
      <4>1. active.bytes + w.size <= MaxSize
        BY <1>1, <1>2, <3>2 DEF CallInv
      <4> QED
        BY <1>1, <1>2, <1>5, <2>1, <4>1, PolicyAssumption
    <3> QED
      BY <3>1, <3>2
  <2>15. FileInv(active)'
    <3>1. active'.lines \subseteq DOMAIN stored' /\ \A m \in active'.lines : m <= n
      BY <1>1, <1>2, <2>1, <2>3, <2>12
    <3>2. active'.bytes # 0
      BY <1>1, <2>1
    <3>3. \A m \in DOMAIN stored' : stored'[m] <= active'.modTime
      BY <1>2, <2>1, <2>7
    <3> QED
      BY <1>1, <1>2, <2>1, <2>13, <2>14, <3>1, <3>2, <3>3 DEF FileInv
  <2>16. HistoryInv'
    BY <1>1, <1>2, <2>5, <2>6, <2>7, <2>15 DEF HistoryInv
  <2>17. WriterInv'
    <3>1. ~active'.late => \A m \in active'.lines : r.openedDay <= dayKey(stored'[m])
      BY <2>1, <2>8, <2>13
    <3> QED
      BY <1>2, <2>1, <2>2, <2>8, <2>9, <3>1 DEF WriterInv
  <2>18. LinesKept'
    <3> SUFFICES ASSUME NEW m \in DOMAIN stored'
                 PROVE  \/ m \in active'.lines \/ \E a \in DOMAIN archives : m \in archives[a].lines
                        \/ MaxBackups > 0
                           /\ Cardinality({a \in DOMAIN archives : archives[a].last > m}) >= MaxBackups
                        \/ TooOld(stored'[m], second)
      BY <1>2 DEF LinesKept
    <3>1. CASE m \in lines
      BY <2>1, <3>1
    <3>2. CASE m \in DOMAIN stored
      BY <1>1, <2>1, <2>3, <3>2 DEF LinesKept
    <3> QED
      BY <2>3, <3>1, <3>2
  <2> QED
    BY <1>3, <1>5, <2>16, <2>17, <2>18 DEF LogInv
<1>6. CASE /\ writer.file = "open" /\ Answer
           /\ active' = [bytes |-> active.bytes + write.size, lines |-> active.lines \cup {n},
                         last |-> n, modTime |-> second,
                         late |-> active.late \/ dayKey(write.now) # dayKey(second)]
           /\ writer' = [writer EXCEPT !.size = @ + write.size]
           /\ stored' = [m \in DOMAIN stored \cup {n} |-> IF m = n THEN write.now ELSE stored[m]]
  <2>1. {n} # {} /\ {n} \in {{}, {n}} /\ w.size <= w.size /\ w.size \in Nat \ {0}
    BY <1>2
  <2> HIDE DEF n
  <2> QED
    BY <1>5, <1>6, <2>1
<1>7. ASSUME NEW part \in 1 .. write.size - 1,
             /\ writer.file = "open" /\ Answer
             /\ active' = [bytes |-> active.bytes + part, lines |-> active.lines \cup {},
                           last |-> n, modTime |-> second,
                           late |-> active.late \/ dayKey(write.now) # dayKey(second)]
             /\ writer' = [writer EXCEPT !.size = @ + part] /\ UNCHANGED stored
      PROVE  LogInv'
  <2>1. part \in Nat \ {0} /\ part <= w.size /\ {} \in {{}, {n}}
    BY <1>2
  <2> HIDE DEF n
  <2> QED
    BY <1>5, <1>7, <2>1
<1> QED
  BY <1>4, <1>6, <1>7 DEF AppendLine, Fail

LEMMA LogAlways == LogSpec => []LogInv
<1>1. LogInv /\ [LogNext]_logVars => LogInv'
  <2> SUFFICES ASSUME LogInv, [LogNext]_logVars PROVE LogInv'
    OBVIOUS
  <2>1. CASE LogNext
    BY <2>1, QuietSteps, RenameKeeps, RemoveKeeps, AppendKeeps DEF LogNext
  <2>2. CASE UNCHANGED logVars
    BY <2>2, ZenonT(30) DEF logVars, LogInv, HistoryInv, WriterInv, CallInv, LinesKept, LogTypeOK, FileInv
  <2> QED
    BY <2>1, <2>2
<1> QED
  BY <1>1, LogInitInv, PTL DEF LogSpec

\* Whichever call fails and wherever the process stops, a line that was stored is
\* in a file until it is over the limits (logging.go:147-222; README.md:164).
THEOREM LinesStay == LogSpec => []LinesKept
<1>1. LogInv => LinesKept
  BY DEF LogInv
<1> QED
  BY <1>1, LogAlways, PTL

\* A file has lines of one day, and more than its limit only where they are one
\* line, after a restart and a rotation that failed too (logging.go:112-146).
THEOREM FilesStayBounded == LogSpec => []FilesBounded
<1>1. LogInv => FilesBounded
  <2> SUFFICES ASSUME LogInv PROVE FilesBounded
    OBVIOUS
  <2>1. \A f \in {active} \cup {archives[a] : a \in DOMAIN archives} : FileInv(f)
    BY DEF LogInv, HistoryInv
  <2> QED
    BY <2>1 DEF FilesBounded, FileInv
<1> QED
  BY <1>1, LogAlways, PTL

-----------------------------------------------------------------------------
(* ResponseCache.                                                           *)

LEMMA NumbersTo ==
  ASSUME NEW n \in Nat
  PROVE  IsFiniteSet(1 .. n) /\ Cardinality(1 .. n) = n
<1>1. 1 \in Int /\ n \in Int
  OBVIOUS
<1> QED
  BY <1>1, FS_Interval

\* The bytes of finitely many items are finite, and those of no item are none.
LEMMA BytesFinite ==
  ASSUME NEW cache, NEW keys, IsFiniteSet(keys), \A k \in keys : cache[k].size \in Nat
  PROVE  /\ IsFiniteSet(UNION {{k} \X (1 .. cache[k].size) : k \in keys})
         /\ BytesOf(cache, keys) \in Nat
<1> DEFINE Part(k) == {k} \X (1 .. cache[k].size)
<1>1. \A k \in keys : IsFiniteSet(Part(k))
  <2> SUFFICES ASSUME NEW k \in keys PROVE IsFiniteSet(Part(k))
    OBVIOUS
  <2>1. IsFiniteSet({k}) /\ IsFiniteSet(1 .. cache[k].size)
    BY FS_Singleton, NumbersTo
  <2> QED
    BY <2>1, FS_Product
<1> DEFINE parts == {Part(k) : k \in keys}
           f == [k \in keys |-> Part(k)]
<1>2. IsFiniteSet(parts)
  <2>1. f \in Surjection(keys, parts)
    BY DEF Surjection
  <2> HIDE DEF f, parts
  <2> QED
    BY <2>1, FS_Surjection
<1>3. IsFiniteSet(UNION parts)
  <2>1. \A T \in parts : IsFiniteSet(T)
    BY <1>1
  <2> HIDE DEF parts
  <2> QED
    BY <1>2, <2>1, FS_UNION
<1> QED
  BY <1>3, FS_CardinalityType DEF BytesOf

\* The bytes of some items are those of a part and those of the rest.
LEMMA BytesSplit ==
  ASSUME NEW cache, NEW keys, IsFiniteSet(keys), \A k \in keys : cache[k].size \in Nat,
         NEW some \in SUBSET keys, NEW rest, rest = keys \ some
  PROVE  /\ BytesOf(cache, keys) = BytesOf(cache, some) + BytesOf(cache, rest)
         /\ BytesOf(cache, some) \in Nat /\ BytesOf(cache, rest) \in Nat
<1> DEFINE U(s) == UNION {{k} \X (1 .. cache[k].size) : k \in s}
<1>1. IsFiniteSet(some) /\ IsFiniteSet(keys \ some)
  BY FS_Subset, FS_Difference
<1>2. /\ IsFiniteSet(U(some)) /\ IsFiniteSet(U(keys \ some))
      /\ BytesOf(cache, some) \in Nat /\ BytesOf(cache, keys \ some) \in Nat
      /\ BytesOf(cache, keys) \in Nat
  BY <1>1, BytesFinite
<1>3. U(keys) = U(some) \cup U(keys \ some)
  OBVIOUS
<1>4. U(some) \cap U(keys \ some) = {}
  OBVIOUS
<1>5. Cardinality(U(keys)) = Cardinality(U(some)) + Cardinality(U(keys \ some))
  <2> HIDE DEF U
  <2>1. Cardinality(U(some) \cup U(keys \ some))
          = Cardinality(U(some)) + Cardinality(U(keys \ some))
            - Cardinality(U(some) \cap U(keys \ some))
    BY <1>2, FS_Union
  <2>2. Cardinality(U(some)) \in Nat /\ Cardinality(U(keys \ some)) \in Nat
    BY <1>2, FS_CardinalityType
  <2>3. Cardinality(U(some) \cap U(keys \ some)) = 0
    BY <1>4, FS_EmptySet
  <2> QED
    BY <1>3, <2>1, <2>2, <2>3
<1> QED
  BY <1>2, <1>5 DEF BytesOf

\* The bytes of one item are its size.
LEMMA BytesOne ==
  ASSUME NEW cache, NEW k, cache[k].size \in Nat
  PROVE  BytesOf(cache, {k}) = cache[k].size
<1>1. UNION {{j} \X (1 .. cache[j].size) : j \in {k}} = {k} \X (1 .. cache[k].size)
  OBVIOUS
<1>2. IsFiniteSet(1 .. cache[k].size) /\ Cardinality(1 .. cache[k].size) = cache[k].size
  BY NumbersTo
<1>3. IsFiniteSet({k}) /\ Cardinality({k}) = 1
  BY FS_Singleton
<1>4. Cardinality({k} \X (1 .. cache[k].size)) = 1 * cache[k].size
  BY <1>2, <1>3, FS_Product, ZenonT(30)
<1> QED
  BY <1>1, <1>4 DEF BytesOf

\* Caches with the same items have the same bytes.
LEMMA BytesSame ==
  ASSUME NEW cache, NEW other, NEW keys, \A k \in keys : cache[k].size = other[k].size
  PROVE  BytesOf(cache, keys) = BytesOf(other, keys)
<1>1. {{k} \X (1 .. cache[k].size) : k \in keys} = {{k} \X (1 .. other[k].size) : k \in keys}
  OBVIOUS
<1> QED
  BY <1>1 DEF BytesOf

\* What the clock of a caller was read as is past.
CallerInv(c) ==
  /\ caller[c].phase \in {"set", "tooLarge"} => caller[c].now <= clock
  /\ caller[c].phase = "remove" => clock > caller[c].item.stale

CacheInv == CacheTypeOK /\ WithinLimits /\ DOMAIN caller = Callers
            /\ \A c \in Callers : CallerInv(c)

\* A cache that keeps some of its items, and their bytes in the count.
LEMMA FewerItems ==
  ASSUME CacheInv, NEW kept \in SUBSET DOMAIN items, items' = Restrict(items, kept),
         totalBytes' = totalBytes - BytesOf(items, DOMAIN items \ kept)
  PROVE  /\ WithinLimits' /\ totalBytes' \in Nat
         /\ DOMAIN items' = kept /\ \A k \in kept : items'[k] = items[k] /\ items'[k] \in ItemType
<1>1. /\ IsFiniteSet(DOMAIN items) /\ \A k \in DOMAIN items : items[k] \in ItemType
      /\ totalBytes = BytesOf(items, DOMAIN items) /\ totalBytes <= MaxBytes
      /\ Cardinality(DOMAIN items) <= MaxItems
  BY CacheLimitsAssumption, FS_Subset DEF CacheInv, CacheTypeOK, WithinLimits
<1>2. DOMAIN items' = kept /\ \A k \in kept : items'[k] = items[k] /\ items'[k] \in ItemType
  BY <1>1 DEF Restrict
<1>3. \A k \in DOMAIN items : items[k].size \in Nat
  BY <1>1, CacheLimitsAssumption DEF ItemType
<1>4. /\ BytesOf(items, DOMAIN items) = BytesOf(items, kept) + BytesOf(items, DOMAIN items \ kept)
      /\ BytesOf(items, kept) \in Nat /\ BytesOf(items, DOMAIN items \ kept) \in Nat
  BY <1>1, <1>3, BytesSplit
<1>5. BytesOf(items', kept) = BytesOf(items, kept)
  BY <1>2, BytesSame
<1>6. Cardinality(kept) <= MaxItems
  <2>1. Cardinality(kept) <= Cardinality(DOMAIN items) /\ IsFiniteSet(kept)
    BY <1>1, FS_Subset
  <2>2. Cardinality(kept) \in Nat /\ Cardinality(DOMAIN items) \in Nat
    BY <1>1, <2>1, FS_CardinalityType
  <2> QED
    BY <1>1, <2>1, <2>2, CacheLimitsAssumption
<1> QED
  BY <1>1, <1>2, <1>4, <1>5, <1>6, CacheLimitsAssumption DEF WithinLimits

\* What deleteLocked leaves.
LEMMA DeleteKeeps ==
  ASSUME CacheInv, NEW c \in Callers, NEW k, Delete(c, k), UNCHANGED clock
  PROVE  CacheInv' /\ DOMAIN items' = DOMAIN items \ {k}
<1> DEFINE kept == DOMAIN items \ {k}
<1>1. items' = Restrict(items, kept) /\ totalBytes' = totalBytes - SizeOf(k)
      /\ caller' = [caller EXCEPT ![c] = CallerIdle]
  BY DEF Delete, Without, Goes
<1>2. \A j \in DOMAIN items : items[j].size \in Nat
  BY CacheLimitsAssumption DEF CacheInv, CacheTypeOK, ItemType
<1>3. SizeOf(k) = BytesOf(items, DOMAIN items \ kept)
  <2>1. CASE k \in DOMAIN items
    <3>1. DOMAIN items \ kept = {k}
      BY <2>1
    <3> QED
      BY <1>2, <2>1, <3>1, BytesOne DEF SizeOf
  <2>2. CASE k \notin DOMAIN items
    <3>1. DOMAIN items \ kept = {}
      BY <2>2
    <3>2. BytesOf(items, {}) = 0
      <4>1. UNION {{j} \X (1 .. items[j].size) : j \in {}} = {}
        OBVIOUS
      <4> QED
        BY <4>1, FS_EmptySet DEF BytesOf
    <3> QED
      BY <2>2, <3>1, <3>2 DEF SizeOf
  <2> QED
    BY <2>1, <2>2
<1>4. kept \in SUBSET DOMAIN items
  OBVIOUS
<1>5. /\ WithinLimits' /\ totalBytes' \in Nat
      /\ DOMAIN items' = kept /\ \A j \in kept : items'[j] = items[j] /\ items'[j] \in ItemType
  <2> HIDE DEF kept
  <2> QED
    BY <1>1, <1>3, <1>4, FewerItems
<1>6. CallerIdle.phase = "idle"
  BY DEF CallerIdle
<1>7. \A d \in Callers : caller'[d] = IF d = c THEN CallerIdle ELSE caller[d]
  BY <1>1 DEF CacheInv
<1>8. CacheTypeOK'
  BY <1>5, <1>7 DEF CacheInv, CacheTypeOK
<1>9. \A d \in Callers : CallerInv(d)'
  BY <1>6, <1>7 DEF CacheInv, CallerInv
<1> QED
  BY <1>1, <1>5, <1>8, <1>9 DEF CacheInv

\* What pruneLocked keeps is within the limits, and it removes none that is newer
\* than what it keeps.
LEMMA EvictionFacts ==
  ASSUME NEW cache, NEW keys, IsFiniteSet(keys),
         \A k \in keys : cache[k].size \in Nat /\ cache[k].createdAt \in Nat,
         NEW end \in Evictions(cache, BytesOf(cache, keys), keys)
  PROVE  /\ end.keys \in SUBSET keys /\ end.bytes = BytesOf(cache, end.keys)
         /\ end.bytes \in Nat /\ end.bytes <= MaxBytes /\ Cardinality(end.keys) <= MaxItems
         /\ \A k \in keys \ end.keys, j \in end.keys : cache[k].createdAt <= cache[j].createdAt
<1> DEFINE Left(kept) == [keys |-> kept, bytes |-> BytesOf(cache, keys) - BytesOf(cache, keys \ kept)]
<1>1. PICK kept \in SUBSET keys :
        /\ end = Left(kept)
        /\ \A k \in keys \ kept : \A j \in kept : cache[k].createdAt <= cache[j].createdAt
        /\ kept = {} \/ (Cardinality(kept) <= MaxItems /\ Left(kept).bytes <= MaxBytes)
  BY DEF Evictions
<1>2. end.keys = kept /\ end.bytes = BytesOf(cache, keys) - BytesOf(cache, keys \ kept)
  BY <1>1
<1>3. end.bytes = BytesOf(cache, kept) /\ end.bytes \in Nat
  <2>1. /\ BytesOf(cache, keys) = BytesOf(cache, kept) + BytesOf(cache, keys \ kept)
        /\ BytesOf(cache, kept) \in Nat /\ BytesOf(cache, keys \ kept) \in Nat
    <3>1. \A k \in keys : cache[k].size \in Nat
      OBVIOUS
    <3> QED
      BY <1>1, <3>1, BytesSplit
  <2> QED
    BY <1>2, <2>1
<1>4. kept = {} => Cardinality(kept) = 0 /\ BytesOf(cache, kept) = 0
  <2>1. UNION {{j} \X (1 .. cache[j].size) : j \in {}} = {}
    OBVIOUS
  <2> QED
    BY <2>1, FS_EmptySet DEF BytesOf
<1>5. Left(kept).bytes = end.bytes
  BY <1>1
<1> HIDE DEF Left
<1>6. end.bytes <= MaxBytes /\ Cardinality(kept) <= MaxItems
  BY <1>1, <1>3, <1>4, <1>5, CacheLimitsAssumption
<1> QED
  BY <1>1, <1>2, <1>3, <1>6

\* An item that is stored in the place of another is counted in its place.
LEMMA ReplaceFacts ==
  ASSUME CacheInv, NEW k \in CacheKeys, NEW item \in ItemType
  PROVE  LET next == Replace(items, k, item)
         IN  /\ DOMAIN next.items = DOMAIN items \cup {k} /\ next.items[k] = item
             /\ \A j \in DOMAIN items \ {k} : next.items[j] = items[j]
             /\ \A j \in DOMAIN next.items : next.items[j] \in ItemType
             /\ IsFiniteSet(DOMAIN next.items)
             /\ next.bytes = BytesOf(next.items, DOMAIN next.items)
<1> DEFINE new == [j \in DOMAIN items \cup {k} |-> IF j = k THEN item ELSE items[j]]
           rest == DOMAIN items \ {k}
<1>1. /\ \A j \in DOMAIN items : items[j] \in ItemType
      /\ totalBytes = BytesOf(items, DOMAIN items)
      /\ IsFiniteSet(DOMAIN items) /\ IsFiniteSet(DOMAIN items \cup {k})
  BY CacheLimitsAssumption, FS_Subset, FS_AddElement DEF CacheInv, CacheTypeOK, WithinLimits
<1>2. /\ DOMAIN new = DOMAIN items \cup {k} /\ new[k] = item
      /\ \A j \in rest : new[j] = items[j]
      /\ \A j \in DOMAIN new : new[j] \in ItemType
  BY <1>1
<1>3. /\ \A j \in DOMAIN items : items[j].size \in Nat
      /\ \A j \in DOMAIN new : new[j].size \in Nat
      /\ item.size \in Nat
  BY <1>1, <1>2, CacheLimitsAssumption DEF ItemType
<1> HIDE DEF new
<1>4. BytesOf(new, DOMAIN new) = BytesOf(new, rest) + item.size /\ BytesOf(new, rest) \in Nat
  <2>1. IsFiniteSet(DOMAIN new) /\ rest \in SUBSET DOMAIN new /\ DOMAIN new \ rest = {k}
    BY <1>1, <1>2
  <2>2. BytesOf(new, DOMAIN new) = BytesOf(new, rest) + BytesOf(new, {k}) /\ BytesOf(new, rest) \in Nat
    <3> PICK cache, keys, some : cache = new /\ keys = DOMAIN new /\ some = rest
      OBVIOUS
    <3>1. \A j \in keys : cache[j].size \in Nat
      BY <1>3
    <3>2. IsFiniteSet(keys) /\ some \in SUBSET keys /\ {k} = keys \ some
      BY <2>1
    <3>3. BytesOf(cache, keys) = BytesOf(cache, some) + BytesOf(cache, {k})
          /\ BytesOf(cache, some) \in Nat
      BY <3>1, <3>2, BytesSplit
    <3> HIDE DEF rest
    <3> QED
      BY <3>3
  <2>3. BytesOf(new, {k}) = item.size
    BY <1>2, <1>3, BytesOne
  <2> QED
    BY <2>1, <2>2, <2>3
<1>5. BytesOf(new, rest) = BytesOf(items, rest)
  BY <1>2, BytesSame
<1>6. BytesOf(items, DOMAIN items) = BytesOf(items, rest) + SizeOf(k) /\ SizeOf(k) \in Nat
  <2>1. CASE k \in DOMAIN items
    <3>1. rest \in SUBSET DOMAIN items /\ DOMAIN items \ rest = {k}
      BY <2>1
    <3>2. BytesOf(items, DOMAIN items) = BytesOf(items, rest) + BytesOf(items, DOMAIN items \ rest)
      BY <1>1, <1>3, <3>1, BytesSplit
    <3>3. BytesOf(items, {k}) = items[k].size
      BY <1>3, <2>1, BytesOne
    <3> QED
      BY <1>3, <2>1, <3>1, <3>2, <3>3 DEF SizeOf
  <2>2. CASE k \notin DOMAIN items
    <3>1. rest = DOMAIN items /\ SizeOf(k) = 0
      BY <2>2 DEF SizeOf
    <3>2. BytesOf(items, DOMAIN items) \in Nat
      BY <1>1, <1>3, BytesFinite
    <3> QED
      BY <3>1, <3>2
  <2> QED
    BY <2>1, <2>2
<1>7. Replace(items, k, item) = [items |-> new, bytes |-> totalBytes - SizeOf(k) + item.size]
  BY DEF Replace, new
<1>8. BytesOf(items, rest) \in Nat
  BY <1>4, <1>5
<1>9. totalBytes - SizeOf(k) + item.size = BytesOf(new, DOMAIN new)
  BY <1>1, <1>3, <1>4, <1>5, <1>6, <1>8
<1> QED
  BY <1>1, <1>2, <1>7, <1>9

\* A store: what it leaves, and why an item is not there any more.
LEMMA SetKeeps ==
  ASSUME CacheInv, NEW c \in Callers, Set(c)
  PROVE  CacheInv' /\ \A k \in DOMAIN items \ DOMAIN items' : MayLeave(c, k)
<1> DEFINE h == caller[c]
           next == Replace(items, h.key, Item(h.size, h.now))
           live == {k \in DOMAIN next.items : h.now <= next.items[k].stale}
<1>1. h.phase = "set" /\ h.key \in CacheKeys /\ h.size \in Sizes /\ h.now \in Nat /\ h.now <= clock
      /\ clock \in Nat
  <2>1. h.phase = "set"
    BY DEF Set
  <2>2. h \in [phase: {"set", "tooLarge"}, key: CacheKeys, size: Sizes, now: Nat]
    BY <2>1 DEF CacheInv, CacheTypeOK, CallerIdle
  <2> QED
    BY <2>1, <2>2 DEF CacheInv, CacheTypeOK, CallerInv
<1>2. Item(h.size, h.now) \in ItemType
  BY <1>1, LifetimeAssumption DEF Item, ItemType
<1>3. PICK cache, bytes : next.items = cache /\ next.bytes = bytes
  OBVIOUS
<1>4. /\ DOMAIN cache = DOMAIN items \cup {h.key}
      /\ \A j \in DOMAIN items \ {h.key} : cache[j] = items[j]
      /\ \A j \in DOMAIN cache : cache[j] \in ItemType
      /\ IsFiniteSet(DOMAIN cache) /\ bytes = BytesOf(cache, DOMAIN cache)
  <2> PICK k \in CacheKeys, item \in ItemType : k = h.key /\ item = Item(h.size, h.now)
    BY <1>1, <1>2
  <2>1. next = Replace(items, k, item)
    OBVIOUS
  <2>2. LET n == Replace(items, k, item)
        IN  /\ DOMAIN n.items = DOMAIN items \cup {k}
            /\ \A j \in DOMAIN items \ {k} : n.items[j] = items[j]
            /\ \A j \in DOMAIN n.items : n.items[j] \in ItemType
            /\ IsFiniteSet(DOMAIN n.items) /\ n.bytes = BytesOf(n.items, DOMAIN n.items)
    BY ReplaceFacts
  <2> QED
    BY <1>3, <2>1, <2>2
<1>5. \A j \in DOMAIN cache : cache[j].size \in Nat /\ cache[j].createdAt \in Nat /\ cache[j].stale \in Nat
  BY <1>4, CacheLimitsAssumption DEF ItemType
<1>6. live = {k \in DOMAIN cache : h.now <= cache[k].stale}
  BY <1>3
<1>7. PICK end \in Evictions(cache, bytes - BytesOf(cache, DOMAIN cache \ live), live) :
        /\ items' = Restrict(cache, end.keys) /\ totalBytes' = end.bytes
        /\ caller' = [caller EXCEPT ![c] = CallerIdle] /\ clock' = clock
  BY <1>3 DEF Set, Goes
<1> HIDE DEF next, live
<1>8. /\ bytes - BytesOf(cache, DOMAIN cache \ live) = BytesOf(cache, live)
      /\ live \in SUBSET DOMAIN cache /\ IsFiniteSet(live)
  <2>1. live \in SUBSET DOMAIN cache
    BY <1>6
  <2>2. /\ BytesOf(cache, DOMAIN cache) = BytesOf(cache, live) + BytesOf(cache, DOMAIN cache \ live)
        /\ BytesOf(cache, live) \in Nat /\ BytesOf(cache, DOMAIN cache \ live) \in Nat
    <3>1. \A j \in DOMAIN cache : cache[j].size \in Nat
      BY <1>5
    <3> QED
      BY <1>4, <2>1, <3>1, BytesSplit
  <2> QED
    BY <1>4, <2>1, <2>2, FS_Subset
<1>9. /\ end.keys \in SUBSET live /\ end.bytes = BytesOf(cache, end.keys)
      /\ end.bytes \in Nat /\ end.bytes <= MaxBytes /\ Cardinality(end.keys) <= MaxItems
      /\ \A k \in live \ end.keys, j \in end.keys : cache[k].createdAt <= cache[j].createdAt
  <2>1. \A k \in live : cache[k].size \in Nat /\ cache[k].createdAt \in Nat
    BY <1>5, <1>8
  <2>2. end \in Evictions(cache, BytesOf(cache, live), live)
    BY <1>7, <1>8
  <2> QED
    BY <1>8, <2>1, <2>2, EvictionFacts
<1>10. DOMAIN items' = end.keys /\ \A j \in end.keys : items'[j] = cache[j]
  BY <1>7 DEF Restrict
<1>11. WithinLimits'
  <2>1. BytesOf(items', end.keys) = BytesOf(cache, end.keys)
    BY <1>10, BytesSame
  <2> QED
    BY <1>7, <1>9, <1>10, <2>1 DEF WithinLimits
<1>12. /\ CallerIdle.phase = "idle" /\ DOMAIN caller' = Callers
       /\ \A d \in Callers : caller'[d] = IF d = c THEN CallerIdle ELSE caller[d]
  BY <1>7 DEF CallerIdle, CacheInv
<1>13. CacheTypeOK'
  <2>1. DOMAIN items' \subseteq CacheKeys
    BY <1>1, <1>4, <1>8, <1>9, <1>10 DEF CacheInv, CacheTypeOK
  <2>2. \A k \in DOMAIN items' : items'[k] \in ItemType
    BY <1>4, <1>8, <1>9, <1>10
  <2> QED
    BY <1>7, <1>9, <1>12, <2>1, <2>2 DEF CacheInv, CacheTypeOK
<1>14. \A d \in Callers : CallerInv(d)'
  BY <1>7, <1>12 DEF CacheInv, CallerInv
<1>15. ASSUME NEW k \in DOMAIN items \ DOMAIN items' PROVE MayLeave(c, k)
  <2>1. CASE k = h.key
    BY <1>1, <2>1 DEF MayLeave
  <2>2. CASE k # h.key /\ k \notin live
    <3>1. ~(h.now <= items[k].stale) /\ items[k].stale \in Nat
      BY <1>4, <1>5, <1>6, <2>2
    <3>2. clock > items[k].stale
      BY <1>1, <3>1
    <3> QED
      BY <1>1, <3>2 DEF MayLeave
  <2>3. CASE k # h.key /\ k \in live
    <3>1. \A j \in DOMAIN items' : items[k].createdAt <= items'[j].createdAt
      BY <1>4, <1>9, <1>10, <2>3
    <3> QED
      BY <1>1, <3>1 DEF MayLeave
  <2> QED
    BY <2>1, <2>2, <2>3
<1> QED
  BY <1>11, <1>12, <1>13, <1>14, <1>15 DEF CacheInv

\* The other steps.
LEMMA CallsKeep ==
  ASSUME CacheInv, NEW c \in Callers,
         BeginSet(c) \/ SetTooLarge(c) \/ ReadItem(c) \/ CheckItem(c) \/ RemoveItem(c)
  PROVE  CacheInv' /\ \A k \in DOMAIN items \ DOMAIN items' : MayLeave(c, k)
<1> DEFINE h == caller[c]
<1>1. /\ \A k \in DOMAIN items : items[k] \in ItemType
      /\ h \in {CallerIdle} \cup [phase: {"set", "tooLarge"}, key: CacheKeys, size: Sizes, now: Nat]
                            \cup [phase: {"read", "remove"}, key: CacheKeys, item: ItemType]
      /\ clock \in Nat /\ DOMAIN caller = Callers /\ DOMAIN items \subseteq CacheKeys
  BY DEF CacheInv, CacheTypeOK
<1>2. ASSUME NEW next, caller' = [caller EXCEPT ![c] = next], UNCHANGED <<items, totalBytes, clock>>,
             next \in {CallerIdle}
               \cup [phase: {"set", "tooLarge"}, key: CacheKeys, size: Sizes, now: Nat]
               \cup [phase: {"read", "remove"}, key: CacheKeys, item: ItemType],
             next.phase \in {"set", "tooLarge"} => next.now <= clock,
             next.phase = "remove" => clock > next.item.stale
      PROVE  CacheInv' /\ DOMAIN items' = DOMAIN items
  <2>1. \A d \in Callers : caller'[d] = IF d = c THEN next ELSE caller[d]
    BY <1>1, <1>2
  <2>2. CacheTypeOK'
    BY <1>2, <2>1 DEF CacheInv, CacheTypeOK
  <2>3. \A d \in Callers : CallerInv(d)'
    BY <1>2, <2>1 DEF CacheInv, CallerInv
  <2> QED
    BY <1>1, <1>2, <2>2, <2>3 DEF CacheInv, WithinLimits
<1>3. CallerIdle.phase = "idle"
  BY DEF CallerIdle
<1>4. ASSUME Goes(c, CallerIdle), UNCHANGED <<items, totalBytes, clock>>
      PROVE  CacheInv' /\ DOMAIN items' = DOMAIN items
  BY <1>2, <1>3, <1>4 DEF Goes
<1>5. CASE BeginSet(c)
  <2>1. PICK k \in CacheKeys, n \in Sizes :
          Goes(c, [phase |-> IF n > MaxBytes THEN "tooLarge" ELSE "set",
                   key |-> k, size |-> n, now |-> clock])
    BY <1>5 DEF BeginSet
  <2>2. LET next == [phase |-> IF n > MaxBytes THEN "tooLarge" ELSE "set",
                     key |-> k, size |-> n, now |-> clock]
        IN  /\ next \in [phase: {"set", "tooLarge"}, key: CacheKeys, size: Sizes, now: Nat]
            /\ next.now = clock /\ next.phase # "remove"
    BY <1>1
  <2> DEFINE next == [phase |-> IF n > MaxBytes THEN "tooLarge" ELSE "set",
                      key |-> k, size |-> n, now |-> clock]
  <2>3. /\ next \in [phase: {"set", "tooLarge"}, key: CacheKeys, size: Sizes, now: Nat]
        /\ next.now <= clock /\ next.phase # "remove"
        /\ caller' = [caller EXCEPT ![c] = next] /\ UNCHANGED <<items, totalBytes, clock>>
    <3>1. caller' = [caller EXCEPT ![c] = next] /\ UNCHANGED <<items, totalBytes, clock>>
      BY <1>5, <2>1 DEF BeginSet, Goes
    <3>2. clock <= clock
      BY <1>1
    <3> QED
      BY <2>2, <3>1, <3>2
  <2> HIDE DEF next
  <2> QED
    BY <1>2, <2>3
<1>6. CASE SetTooLarge(c)
  <2>1. /\ h.phase = "tooLarge" /\ CacheInv' /\ DOMAIN items' = DOMAIN items \ {h.key}
    BY <1>6, DeleteKeeps DEF SetTooLarge
  <2> QED
    BY <2>1 DEF MayLeave
<1>7. CASE ReadItem(c)
  <2>1. PICK k \in DOMAIN items : Goes(c, [phase |-> "read", key |-> k, item |-> items[k]])
    BY <1>7 DEF ReadItem
  <2> DEFINE next == [phase |-> "read", key |-> k, item |-> items[k]]
  <2>2. /\ next \in [phase: {"read", "remove"}, key: CacheKeys, item: ItemType]
        /\ next.phase = "read"
        /\ caller' = [caller EXCEPT ![c] = next] /\ UNCHANGED <<items, totalBytes, clock>>
    BY <1>1, <1>7, <2>1 DEF ReadItem, Goes
  <2> HIDE DEF next
  <2> QED
    BY <1>2, <2>2
<1>8. ASSUME h.phase \in {"read", "remove"}
      PROVE  h \in [phase: {"read", "remove"}, key: CacheKeys, item: ItemType]
  BY <1>1, <1>3, <1>8
<1>9. CASE CheckItem(c)
  <2>1. /\ h.phase = "read" /\ UNCHANGED <<items, totalBytes, clock>>
        /\ \/ Goes(c, CallerIdle)
           \/ clock > h.item.stale /\ Goes(c, [h EXCEPT !.phase = "remove"])
    BY <1>9 DEF CheckItem
  <2>2. CASE clock > h.item.stale /\ Goes(c, [h EXCEPT !.phase = "remove"])
    <3> PICK g \in [phase: {"read", "remove"}, key: CacheKeys, item: ItemType] : g = h
      BY <1>8, <2>1
    <3> DEFINE next == [g EXCEPT !.phase = "remove"]
    <3>1. /\ next \in [phase: {"read", "remove"}, key: CacheKeys, item: ItemType]
          /\ next.phase = "remove" /\ next.item = g.item
          /\ caller' = [caller EXCEPT ![c] = next]
      BY <2>2 DEF Goes
    <3> HIDE DEF next
    <3> QED
      BY <1>2, <2>1, <2>2, <3>1
  <2> QED
    BY <1>4, <2>1, <2>2
<1>10. CASE RemoveItem(c)
  <2>1. h.phase = "remove" /\ UNCHANGED clock
    BY <1>10 DEF RemoveItem
  <2>2. CASE Same(c) /\ Delete(c, h.key)
    <3>1. CacheInv' /\ DOMAIN items' = DOMAIN items \ {h.key}
      BY <2>1, <2>2, DeleteKeeps
    <3>2. clock > h.item.stale /\ items[h.key].stale = h.item.stale
      BY <2>1, <2>2 DEF CacheInv, CallerInv, Same
    <3> QED
      BY <2>1, <3>1, <3>2 DEF MayLeave
  <2>3. CASE Goes(c, CallerIdle) /\ UNCHANGED <<items, totalBytes>>
    BY <1>4, <2>1, <2>3
  <2> QED
    BY <1>10, <2>2, <2>3 DEF RemoveItem
<1> QED
  BY <1>5, <1>6, <1>7, <1>9, <1>10

\* A refresh, and the clock.
LEMMA OtherKeep ==
  ASSUME CacheInv, DeletePatterns \/ Tick
  PROVE  CacheInv' /\ UNCHANGED caller
<1>1. CASE DeletePatterns
  <2>1. PICK gone \in SUBSET DOMAIN items :
          /\ items' = Restrict(items, DOMAIN items \ gone)
          /\ totalBytes' = totalBytes - BytesOf(items, gone)
    BY <1>1 DEF DeletePatterns
  <2> DEFINE kept == DOMAIN items \ gone
  <2>2. kept \in SUBSET DOMAIN items /\ DOMAIN items \ kept = gone
    BY <2>1
  <2> HIDE DEF kept
  <2>3. /\ WithinLimits' /\ totalBytes' \in Nat
        /\ DOMAIN items' = kept /\ \A k \in kept : items'[k] = items[k] /\ items'[k] \in ItemType
    BY <2>1, <2>2, FewerItems DEF kept
  <2>4. UNCHANGED <<clock, caller>>
    BY <1>1 DEF DeletePatterns
  <2>5. CacheTypeOK'
    BY <2>2, <2>3, <2>4 DEF CacheInv, CacheTypeOK
  <2> QED
    BY <2>3, <2>4, <2>5 DEF CacheInv, CallerInv
<1>2. CASE Tick
  <2>1. clock' = clock + 1 /\ UNCHANGED <<items, totalBytes, caller>> /\ clock \in Nat
    BY <1>2 DEF Tick, CacheInv, CacheTypeOK
  <2>2. CacheTypeOK'
    BY <2>1 DEF CacheInv, CacheTypeOK
  <2>3. ASSUME NEW d \in Callers PROVE CallerInv(d)'
    <3>1. /\ caller[d].phase \in {"set", "tooLarge"} => caller[d].now \in Nat
          /\ caller[d].phase = "remove" => caller[d].item.stale \in Nat
      BY DEF CacheInv, CacheTypeOK, CallerIdle, ItemType
    <3> QED
      BY <2>1, <3>1 DEF CacheInv, CallerInv
  <2> QED
    BY <2>1, <2>2, <2>3 DEF CacheInv, WithinLimits
<1> QED
  BY <1>1, <1>2

LEMMA CacheAlways == CacheSpec => []CacheInv
<1>1. CacheInit => CacheInv
  <2> SUFFICES ASSUME CacheInit PROVE CacheInv
    OBVIOUS
  <2>1. /\ items = <<>> /\ totalBytes = 0 /\ clock = 0 /\ DOMAIN items = {}
        /\ caller = [c \in Callers |-> CallerIdle] /\ CallerIdle.phase = "idle"
    BY DEF CacheInit, CallerIdle
  <2>2. BytesOf(items, {}) = 0
    <3>1. UNION {{j} \X (1 .. items[j].size) : j \in {}} = {}
      OBVIOUS
    <3> QED
      BY <3>1, FS_EmptySet DEF BytesOf
  <2>3. WithinLimits
    BY <2>1, <2>2, FS_EmptySet, CacheLimitsAssumption DEF WithinLimits
  <2> QED
    BY <2>1, <2>3 DEF CacheInv, CacheTypeOK, CallerInv
<1>2. CacheInv /\ [CacheNext]_cacheVars => CacheInv'
  <2> SUFFICES ASSUME CacheInv, [CacheNext]_cacheVars PROVE CacheInv'
    OBVIOUS
  <2>1. CASE CacheNext
    BY <2>1, SetKeeps, CallsKeep, OtherKeep DEF CacheNext
  <2>2. CASE UNCHANGED cacheVars
    BY <2>2 DEF cacheVars, CacheInv, CacheTypeOK, WithinLimits, CallerInv
  <2> QED
    BY <2>1, <2>2
<1> QED
  BY <1>1, <1>2, PTL DEF CacheSpec

\* The count of bytes does not drift, and between critical sections both limits
\* hold, however the calls interleave (r2_cache.go:79-82, 99-124).
THEOREM CacheBounded == CacheSpec => []WithinLimits
<1>1. CacheInv => WithinLimits
  BY DEF CacheInv
<1> QED
  BY <1>1, CacheAlways, PTL

\* No call removes an item that is newer than it has a reason to: what took the
\* place of a dead one, or what is newer than what a store keeps (r2_cache.go:47-51,
\* 77-82, 106-117).
THEOREM OldItemsLeave == CacheSpec => OnlyOldItemsLeave
<1>1. ASSUME CacheInv, [CacheNext]_cacheVars, NEW c \in Callers, caller'[c] # caller[c],
             NEW k \in DOMAIN items \ DOMAIN items'
      PROVE  MayLeave(c, k)
  <2>1. CASE UNCHANGED cacheVars
    BY <1>1, <2>1 DEF cacheVars
  <2>2. CASE DeletePatterns \/ Tick
    BY <1>1, <2>2, OtherKeep
  <2>3. ASSUME NEW d \in Callers, Set(d)
        PROVE  MayLeave(c, k)
    <3>1. d = c
      <4>1. caller' = [caller EXCEPT ![d] = CallerIdle]
        BY <2>3 DEF Set, Goes
      <4> QED
        BY <1>1, <4>1
    <3> QED
      BY <1>1, <2>3, <3>1, SetKeeps
  <2>4. ASSUME NEW d \in Callers,
               BeginSet(d) \/ SetTooLarge(d) \/ ReadItem(d) \/ CheckItem(d) \/ RemoveItem(d)
        PROVE  MayLeave(c, k)
    <3>1. d = c
      <4>1. \E next : caller' = [caller EXCEPT ![d] = next]
        BY <2>4 DEF BeginSet, SetTooLarge, ReadItem, CheckItem, RemoveItem, Delete, Goes
      <4> QED
        BY <1>1, <4>1
    <3> QED
      BY <1>1, <2>4, <3>1, CallsKeep
  <2> QED
    BY <1>1, <2>1, <2>2, <2>3, <2>4 DEF CacheNext
<1>2. CacheInv /\ [CacheNext]_cacheVars
        => [\A c \in Callers : caller'[c] # caller[c] =>
              \A k \in DOMAIN items \ DOMAIN items' : MayLeave(c, k)]_cacheVars
  BY <1>1
<1> QED
  BY <1>2, CacheAlways, PTL DEF CacheSpec, OnlyOldItemsLeave

=============================================================================
