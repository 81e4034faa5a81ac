--------------------------- MODULE StudioPageProofs ---------------------------
(***************************************************************************)
(* Proofs about StudioPage, for any number of handlers under way at once,  *)
(* of events of the user, of failed requests and of commits about jobs.    *)
(*                                                                         *)
(* The page is whatever the operators of the script make of it (PageIs),   *)
(* and what a handler carries is about runtimes the server has (HandlerOK).*)
(***************************************************************************)
EXTENDS StudioPage, LeastNumber

----------------------------------------------------------------------------
(* The invariant *)

\* What the page selects, lists and polls is among n runtimes, there is an interval only
\* for a selected one, and what it shows was a row.
PageOK(p, n) ==
    /\ p \in Pages
    /\ p.activeRuntime \in 0..n /\ p.list \subseteq 1..n
    /\ p.intervals = IF p.timer THEN 1 ELSE 0
    /\ p.timer => p.activeRuntime # 0
    /\ p.shown # NoView => p.activeRuntime # 0

\* What a handler waits for belongs to its kind, is about n runtimes, and a submit lists
\* them when there is one.
HandlerOK(x, n) ==
    x # Idle =>
        /\ x \in HandlerRecords
        /\ x.stage \in {"generate", "dispatching", "created"} => x.kind = "submit"
        /\ x.stage \in {"poll", "polled"} => x.kind \in {"submit", "click", "tick"}
        /\ x.stage \in {"list", "listed"} => x.kind \in {"load", "refresh", "submit"}
        /\ x.stage = "generate" => x.runtime = 0
        /\ x.stage \in {"dispatching", "created", "poll", "polled"} => x.runtime \in 1..n
        /\ x.stage = "polled" => Len(x.views) = 1
        /\ x.kind = "submit" /\ x.stage = "list" => n > 0
        /\ x.kind = "submit" /\ x.stage = "listed" => Len(x.views) > 0
        /\ \A i \in 1..Len(x.views) : x.views[i].runtime \in 1..n

StudioInv ==
    /\ TypeOK /\ LockHasReason /\ SelectionIsShown
    /\ PageOK(page, Len(server))
    /\ \A h \in Handlers : HandlerOK(handler[h], Len(server))

----------------------------------------------------------------------------
(* The operators of the script *)

\* A page with these variables.
PageIs(p, active, timer, disabled, list, shown) ==
    /\ p \in Pages
    /\ p.activeRuntime = active /\ p.list = list /\ p.shown = shown
    /\ p.timer = timer /\ p.disabled = disabled
    /\ p.intervals = IF timer THEN 1 ELSE 0

\* The page of a submit.
Submitting(p) == [p EXCEPT !.disabled = TRUE, !.shown = NoView]

\* The page of a click, and of a submit whose runtime was created.
Selecting(p, n) == [p EXCEPT !.activeRuntime = n]

\* What the small operators make of a page.
LEMMA PageSteps ==
    ASSUME NEW p, NEW a \in 0..MaxRuntimes, NEW t \in BOOLEAN, NEW d \in BOOLEAN,
           NEW l \in SUBSET (1..MaxRuntimes), NEW s \in Views \cup {NoView},
           PageIs(p, a, t, d, l, s)
    PROVE  /\ PageIs(Clear(p), a, FALSE, d, l, s)
           /\ ~t => PageIs(Start(p), a, TRUE, d, l, s)
           /\ PageIs(Enable(p), a, t, FALSE, l, s)
           /\ PageIs(ShowError(p), a, t, d, l, NoView)
           /\ \A n \in 0..MaxRuntimes : PageIs(Selecting(p, n), n, t, d, l, s)
           /\ \A n \in 0..MaxRuntimes, v \in Views \cup {NoView} :
                 PageIs([p EXCEPT !.activeRuntime = n, !.shown = v], n, t, d, l, v)
           /\ \A k \in SUBSET (1..MaxRuntimes) : PageIs(ShowRecent(p, k), a, t, d, k, s)
           /\ PageIs(Submitting(p), a, t, TRUE, l, NoView)
  <1> DEFINE actives == 0..MaxRuntimes
             numbers == 0..1
             lists == SUBSET (1..MaxRuntimes)
             views == Views \cup {NoView}
  <1>1. Pages = [activeRuntime: actives, timer: BOOLEAN, intervals: numbers,
                 disabled: BOOLEAN, list: lists, shown: views]
    BY DEF Pages
  <1>2. NoView \in views /\ 0 \in numbers /\ 1 \in numbers
    OBVIOUS
  <1> HIDE DEF actives, numbers, lists, views
  <1>3. PageIs(Clear(p), a, FALSE, d, l, s)
    <2>1. CASE t
      <3>1. Clear(p) = [p EXCEPT !.timer = FALSE, !.intervals = 0]
        BY <2>1 DEF Clear, PageIs
      <3> QED
        BY <1>1, <1>2, <3>1 DEF PageIs
    <2>2. CASE ~t
      <3>1. Clear(p) = [p EXCEPT !.timer = FALSE, !.intervals = 0]
        BY <1>1, <2>2 DEF Clear, PageIs
      <3> QED
        BY <1>1, <1>2, <3>1 DEF PageIs
    <2> QED
      BY <2>1, <2>2
  <1>4. ASSUME ~t PROVE PageIs(Start(p), a, TRUE, d, l, s)
    <2>1. Start(p) = [p EXCEPT !.timer = TRUE, !.intervals = 1]
      BY <1>4 DEF Start, PageIs
    <2> QED
      BY <1>1, <1>2, <2>1 DEF PageIs
  <1>5. PageIs(Enable(p), a, t, FALSE, l, s)
    BY <1>1 DEF PageIs, Enable
  <1>6. PageIs(ShowError(p), a, t, d, l, NoView)
    BY <1>1, <1>2 DEF PageIs, ShowError
  <1>7. ASSUME NEW n \in actives PROVE PageIs(Selecting(p, n), n, t, d, l, s)
    BY <1>1 DEF PageIs, Selecting
  <1>8. ASSUME NEW n \in actives, NEW v \in views
        PROVE  PageIs([p EXCEPT !.activeRuntime = n, !.shown = v], n, t, d, l, v)
    BY <1>1 DEF PageIs
  <1>9. ASSUME NEW k \in lists PROVE PageIs(ShowRecent(p, k), a, t, d, k, s)
    BY <1>1 DEF PageIs, ShowRecent
  <1>10. PageIs(Submitting(p), a, t, TRUE, l, NoView)
    BY <1>1, <1>2 DEF PageIs, Submitting
  <1> QED
    BY <1>3, <1>4, <1>5, <1>6, <1>7, <1>8, <1>9, <1>10 DEF actives, lists, views

\* The answer to a poll.
LEMMA PolledPage ==
    ASSUME NEW p, NEW a \in 0..MaxRuntimes, NEW t \in BOOLEAN, NEW d \in BOOLEAN,
           NEW l \in SUBSET (1..MaxRuntimes), NEW s \in Views \cup {NoView},
           PageIs(p, a, t, d, l, s), NEW v \in Views
    PROVE  PageIs(ShowPolled(p, v), v.runtime, t /\ HasActiveJobs(v),
                  d /\ (HasActiveJobs(v) \/ ~t), Merged(l, v), v)
  <1> DEFINE q == ShowRecent(Show(p, v), Merged(p.list, v))
  <1>1. v.runtime \in 0..MaxRuntimes /\ v.runtime \in 1..MaxRuntimes
    BY BoundsAreNatural DEF Views
  <1>2. Merged(l, v) \in SUBSET (1..MaxRuntimes) /\ p.list = l
    BY <1>1 DEF Merged, PageIs
  <1>3. PageIs(Show(p, v), v.runtime, t, d, l, v)
    BY <1>1, PageSteps DEF Show
  <1>4. PageIs(q, v.runtime, t, d, Merged(l, v), v)
    BY <1>1, <1>2, <1>3, PageSteps
  <1> HIDE DEF q
  <1>5. PageIs(Clear(q), v.runtime, FALSE, d, Merged(l, v), v)
    BY <1>1, <1>2, <1>4, PageSteps
  <1>6. PageIs(Enable(Clear(q)), v.runtime, FALSE, FALSE, Merged(l, v), v)
    BY <1>1, <1>2, <1>5, PageSteps
  <1>7. CASE ~HasActiveJobs(v) /\ t
    <2>1. ShowPolled(p, v) = Enable(Clear(q))
      BY <1>7 DEF ShowPolled, PageIs, q
    <2>2. (t /\ HasActiveJobs(v)) = FALSE /\ (d /\ (HasActiveJobs(v) \/ ~t)) = FALSE
      BY <1>7
    <2> QED
      BY <1>6, <2>1, <2>2
  <1>8. CASE ~(~HasActiveJobs(v) /\ t)
    <2>1. ShowPolled(p, v) = q
      BY <1>8 DEF ShowPolled, PageIs, q
    <2>2. (t /\ HasActiveJobs(v)) = t /\ (d /\ (HasActiveJobs(v) \/ ~t)) = d
      BY <1>8
    <2> QED
      BY <1>4, <2>1, <2>2
  <1> QED
    BY <1>7, <1>8

\* The rest of the click handler.
LEMMA ClickedPage ==
    ASSUME NEW p, NEW a \in 0..MaxRuntimes, NEW t \in BOOLEAN, NEW d \in BOOLEAN,
           NEW l \in SUBSET (1..MaxRuntimes), NEW s \in Views \cup {NoView},
           PageIs(p, a, t, d, l, s), NEW v
    PROVE  PageIs(AfterClick(p, v), a, HasActiveJobs(v), d, l, s)
  <1>1. PageIs(Clear(p), a, FALSE, d, l, s)
    BY PageSteps
  <1>2. PageIs(Start(Clear(p)), a, TRUE, d, l, s)
    BY <1>1, PageSteps
  <1>3. HasActiveJobs(v) \in BOOLEAN
    BY DEF HasActiveJobs
  <1> QED
    BY <1>1, <1>2, <1>3 DEF AfterClick

\* The rest of the submit handler.
LEMMA SubmittedPage ==
    ASSUME NEW p, NEW a \in 0..MaxRuntimes, NEW t \in BOOLEAN, NEW d \in BOOLEAN,
           NEW l \in SUBSET (1..MaxRuntimes), NEW s \in Views \cup {NoView},
           PageIs(p, a, t, d, l, s), NEW b \in BOOLEAN
    PROVE  \E c \in BOOLEAN : PageIs(AfterSubmit(p, b), a, b, c, l, s) /\ (c => d /\ b)
  <1>1. PageIs(Clear(p), a, FALSE, d, l, s)
    BY PageSteps
  <1>2. /\ PageIs(Start(Clear(p)), a, TRUE, d, l, s)
        /\ PageIs(Enable(Clear(p)), a, FALSE, FALSE, l, s)
    BY <1>1, PageSteps
  <1>3. CASE b
    <2>1. b = TRUE /\ AfterSubmit(p, b) = Start(Clear(p))
      BY <1>3 DEF AfterSubmit
    <2> QED
      BY <1>2, <1>3, <2>1
  <1>4. CASE ~b
    <2>1. b = FALSE /\ AfterSubmit(p, b) = Enable(Clear(p))
      BY <1>4 DEF AfterSubmit
    <2> QED
      BY <1>2, <1>4, <2>1
  <1> QED
    BY <1>3, <1>4

\* What is chosen of a list is in it.
LEMMA SelectedIsListed ==
    ASSUME NEW p, NEW views \in Seq(Views), Len(views) > 0, NEW force
    PROVE  \E i \in 1..Len(views) : SelectedView(p, views, force) = views[i]
  <1>1. DOMAIN views = 1..Len(views) /\ 1 \in 1..Len(views) /\ 1..Len(views) \subseteq Nat
    OBVIOUS
  <1> DEFINE exported == {i \in DOMAIN views : HasExport(views[i])}
             exact == {i \in DOMAIN views : views[i].runtime = p.activeRuntime}
  <1>2. exported \subseteq 1..Len(views) /\ exact \subseteq 1..Len(views)
    BY <1>1
  <1>3. exported # {} => (CHOOSE i \in exported : \A j \in exported : i <= j) \in exported
    <2> HIDE DEF exported
    <2>1. exported # {} => \E i \in exported : \A j \in exported : i <= j
      BY <1>1, <1>2, LeastNatural
    <2> QED
      BY <2>1
  <1>4. \E i \in 1..Len(views) : PreferredView(views) = views[i]
    BY <1>1, <1>2, <1>3 DEF PreferredView
  <1>5. exact # {} => (CHOOSE i \in exact : TRUE) \in exact
    OBVIOUS
  <1> QED
    BY <1>2, <1>4, <1>5 DEF SelectedView

\* The runtimes of a list.
Listed(views) == {views[i].runtime : i \in DOMAIN views}

\* A page after the answer to a list: nothing is there, or one of the listed runtimes is
\* shown; t is whether there was an interval, d whether the button was disabled.
ListedIs(q, views, t, d) ==
    /\ Len(views) = 0 => PageIs(q, 0, FALSE, FALSE, Listed(views), NoView)
    /\ Len(views) > 0 =>
          \E i \in 1..Len(views), b \in BOOLEAN, c \in BOOLEAN :
             /\ PageIs(q, views[i].runtime, b, c, Listed(views), views[i])
             /\ c => d /\ (t => b)

\* The operator of the list makes such a page.
LEMMA ListedPage ==
    ASSUME NEW p, NEW a \in 0..MaxRuntimes, NEW t \in BOOLEAN, NEW d \in BOOLEAN,
           NEW l \in SUBSET (1..MaxRuntimes), NEW s \in Views \cup {NoView},
           PageIs(p, a, t, d, l, s), NEW views \in Seq(Views), NEW force \in BOOLEAN
    PROVE  ListedIs(ShowListed(p, views, force), views, t, d)
  <1> DEFINE k == Listed(views)
             q == ShowRecent(p, k)
  <1>1. /\ DOMAIN views = 1..Len(views) /\ Len(views) \in Nat
        /\ \A i \in 1..Len(views) : views[i] \in Views
    OBVIOUS
  <1>2. \A v \in Views : v.runtime \in 1..MaxRuntimes /\ v.runtime \in 0..MaxRuntimes
    BY BoundsAreNatural DEF Views
  <1>3. k \in SUBSET (1..MaxRuntimes)
    BY <1>1, <1>2 DEF Listed
  <1> HIDE DEF k
  <1>4. PageIs(q, a, t, d, k, s)
    BY <1>3, PageSteps
  <1>5. ShowListed(p, views, force) =
           LET v == SelectedView(p, views, force)
           IN IF views = <<>>
              THEN Enable(Clear([q EXCEPT !.activeRuntime = 0, !.shown = NoView]))
              ELSE IF HasActiveJobs(v) THEN Show(q, v) ELSE Enable(Clear(Show(q, v)))
    BY DEF ShowListed, k, Listed
  <1> HIDE DEF q
  <1>6. ASSUME Len(views) = 0
        PROVE  PageIs(ShowListed(p, views, force), 0, FALSE, FALSE, k, NoView)
    <2> DEFINE q1 == [q EXCEPT !.activeRuntime = 0, !.shown = NoView]
    <2>1. 0 \in 0..MaxRuntimes /\ NoView \in Views \cup {NoView} /\ views = <<>>
      BY <1>6, BoundsAreNatural
    <2>2. PageIs(q1, 0, t, d, k, NoView)
      BY <1>3, <1>4, <2>1, PageSteps
    <2> HIDE DEF q1
    <2>3. PageIs(Clear(q1), 0, FALSE, d, k, NoView)
      BY <1>3, <2>1, <2>2, PageSteps
    <2>4. PageIs(Enable(Clear(q1)), 0, FALSE, FALSE, k, NoView)
      BY <1>3, <2>1, <2>3, PageSteps
    <2> QED
      BY <1>5, <2>1, <2>4 DEF q1
  <1>7. ASSUME Len(views) > 0
        PROVE  \E i \in 1..Len(views), b \in BOOLEAN, c \in BOOLEAN :
                  /\ PageIs(ShowListed(p, views, force), views[i].runtime, b, c, k, views[i])
                  /\ c => d /\ (t => b)
    <2>1. PICK i \in 1..Len(views) : SelectedView(p, views, force) = views[i]
      BY <1>7, SelectedIsListed
    <2> DEFINE v == views[i]
    <2>2. v \in Views /\ v.runtime \in 0..MaxRuntimes /\ views # <<>>
      BY <1>1, <1>2, <1>7
    <2>3. ShowListed(p, views, force) =
             IF HasActiveJobs(v) THEN Show(q, v) ELSE Enable(Clear(Show(q, v)))
      BY <1>5, <2>1, <2>2
    <2> HIDE DEF v
    <2>4. PageIs(Show(q, v), v.runtime, t, d, k, v)
      BY <1>3, <1>4, <2>2, PageSteps DEF Show
    <2>5. PageIs(Clear(Show(q, v)), v.runtime, FALSE, d, k, v)
      BY <1>3, <2>2, <2>4, PageSteps
    <2>6. PageIs(Enable(Clear(Show(q, v))), v.runtime, FALSE, FALSE, k, v)
      BY <1>3, <2>2, <2>5, PageSteps
    <2>7. \E b \in BOOLEAN, c \in BOOLEAN :
             /\ PageIs(ShowListed(p, views, force), v.runtime, b, c, k, v)
             /\ c => d /\ (t => b)
      <3>1. CASE HasActiveJobs(v)
        <4>1. ShowListed(p, views, force) = Show(q, v)
          BY <2>3, <3>1
        <4> QED
          BY <2>4, <4>1
      <3>2. CASE ~HasActiveJobs(v)
        <4>1. ShowListed(p, views, force) = Enable(Clear(Show(q, v)))
          BY <2>3, <3>2
        <4> QED
          BY <2>6, <4>1
      <3> QED
        BY <3>1, <3>2
    <2> QED
      BY <2>7 DEF v
  <1> QED
    BY <1>6, <1>7 DEF k, ListedIs

----------------------------------------------------------------------------
(* Pages and handlers *)

\* The variables of a page that is right.
LEMMA PageFields ==
    ASSUME NEW n \in Nat, n <= MaxRuntimes, NEW p, PageOK(p, n)
    PROVE  /\ PageIs(p, p.activeRuntime, p.timer, p.disabled, p.list, p.shown)
           /\ p.activeRuntime \in 0..MaxRuntimes /\ p.timer \in BOOLEAN
           /\ p.disabled \in BOOLEAN /\ p.list \in SUBSET (1..MaxRuntimes)
           /\ p.shown \in Views \cup {NoView}
  BY DEF PageOK, PageIs, Pages

\* A page with variables that are right is right.
LEMMA PageIsOK ==
    ASSUME NEW n \in Nat, NEW p, NEW a \in 0..n, NEW t \in BOOLEAN, NEW d,
           NEW l \in SUBSET (1..n), NEW s, PageIs(p, a, t, d, l, s),
           t => a # 0, s # NoView => a # 0
    PROVE  PageOK(p, n)
  BY DEF PageIs, PageOK

\* More runtimes make nothing wrong.
LEMMA MoreRuntimes ==
    ASSUME NEW n \in Nat, NEW m \in Nat, n <= m
    PROVE  /\ \A p : PageOK(p, n) => PageOK(p, m)
           /\ \A x : HandlerOK(x, n) => HandlerOK(x, m)
  <1>1. 0..n \subseteq 0..m /\ 1..n \subseteq 1..m /\ (n > 0 => m > 0)
    OBVIOUS
  <1>2. ASSUME NEW p, PageOK(p, n) PROVE PageOK(p, m)
    BY <1>1, <1>2 DEF PageOK
  <1>3. ASSUME NEW x, HandlerOK(x, n) PROVE HandlerOK(x, m)
    BY <1>1, <1>3 DEF HandlerOK
  <1> QED
    BY <1>2, <1>3

HandlerKinds == {"load", "submit", "refresh", "click", "tick"}

HandlerStages ==
    {"generate", "dispatching", "created", "poll", "polled", "list", "listed", "rejected"}

\* The submit handler when it asks for the list.
Listing(b) == [NewHandler("submit", "list", 0) EXCEPT !.polls = b]

\* A handler with these variables.
HandlerIs(x, kind, stage, n, views, polls) ==
    /\ x \in HandlerRecords /\ x # Idle
    /\ x.kind = kind /\ x.stage = stage /\ x.runtime = n /\ x.views = views /\ x.polls = polls

\* What is made of a handler's variables.
LEMMA HandlerSteps ==
    /\ \A kind \in HandlerKinds, stage \in HandlerStages, n \in 0..MaxRuntimes :
          HandlerIs(NewHandler(kind, stage, n), kind, stage, n, <<>>, FALSE)
    /\ \A b \in BOOLEAN : HandlerIs(Listing(b), "submit", "list", 0, <<>>, b)
    /\ \A x \in HandlerRecords, stage \in HandlerStages :
          /\ HandlerIs([x EXCEPT !.stage = stage], x.kind, stage, x.runtime, x.views, x.polls)
          /\ \A n \in 0..MaxRuntimes :
                HandlerIs([x EXCEPT !.stage = stage, !.runtime = n],
                          x.kind, stage, n, x.views, x.polls)
          /\ \A views \in Seq(Views) :
                HandlerIs([x EXCEPT !.stage = stage, !.views = views],
                          x.kind, stage, x.runtime, views, x.polls)
  <1> DEFINE numbers == 0..MaxRuntimes
             lists == Seq(Views)
  <1>1. HandlerRecords = [kind: HandlerKinds, stage: HandlerStages, runtime: numbers,
                          views: lists, polls: BOOLEAN]
    BY DEF HandlerRecords, HandlerKinds, HandlerStages
  <1>2. <<>> \in lists /\ 0 \in numbers /\ "submit" \in HandlerKinds /\ "list" \in HandlerStages
    BY BoundsAreNatural DEF HandlerKinds, HandlerStages
  <1>3. \A x : x \in HandlerRecords => x # Idle
    BY IdleIsNoHandler
  <1> HIDE DEF numbers, lists
  <1>4. ASSUME NEW kind \in HandlerKinds, NEW stage \in HandlerStages, NEW n \in numbers
        PROVE  HandlerIs(NewHandler(kind, stage, n), kind, stage, n, <<>>, FALSE)
    BY <1>1, <1>2, <1>3 DEF HandlerIs, NewHandler
  <1>5. ASSUME NEW b \in BOOLEAN
        PROVE  HandlerIs(Listing(b), "submit", "list", 0, <<>>, b)
    <2>1. Listing(b) =
             [kind |-> "submit", stage |-> "list", runtime |-> 0, views |-> <<>>, polls |-> b]
      BY DEF NewHandler, Listing
    <2> QED
      BY <1>1, <1>2, <1>3, <2>1 DEF HandlerIs
  <1>6. ASSUME NEW x \in HandlerRecords, NEW stage \in HandlerStages
        PROVE  HandlerIs([x EXCEPT !.stage = stage], x.kind, stage, x.runtime, x.views, x.polls)
    BY <1>1, <1>3 DEF HandlerIs
  <1>7. ASSUME NEW x \in HandlerRecords, NEW stage \in HandlerStages, NEW n \in numbers
        PROVE  HandlerIs([x EXCEPT !.stage = stage, !.runtime = n],
                         x.kind, stage, n, x.views, x.polls)
    BY <1>1, <1>3 DEF HandlerIs
  <1>8. ASSUME NEW x \in HandlerRecords, NEW stage \in HandlerStages, NEW views \in lists
        PROVE  HandlerIs([x EXCEPT !.stage = stage, !.views = views],
                         x.kind, stage, x.runtime, views, x.polls)
    BY <1>1, <1>3 DEF HandlerIs
  <1> QED
    BY <1>4, <1>5, <1>6, <1>7, <1>8 DEF numbers, lists

\* The updates of a handler put a record in its place.
LEMMA HandlerUpdates ==
    ASSUME TypeOK, NEW h \in Handlers, handler[h] # Idle
    PROVE  /\ handler[h] \in HandlerRecords
           /\ \A s : [handler EXCEPT ![h].stage = s] =
                        [handler EXCEPT ![h] = [handler[h] EXCEPT !.stage = s]]
           /\ \A s, n : [handler EXCEPT ![h].stage = s, ![h].runtime = n] =
                        [handler EXCEPT ![h] = [handler[h] EXCEPT !.stage = s, !.runtime = n]]
           /\ \A s, views : [handler EXCEPT ![h].stage = s, ![h].views = views] =
                        [handler EXCEPT ![h] = [handler[h] EXCEPT !.stage = s, !.views = views]]
  <1>1. handler \in [Handlers -> HandlerRecords \cup {Idle}]
    BY DEF TypeOK
  <1> QED
    BY <1>1

\* A handler that goes on is right if its new record is.
LEMMA HandlerGoesOn ==
    ASSUME StudioInv, NEW h \in Handlers, NEW x, x \in HandlerRecords \cup {Idle},
           handler' = [handler EXCEPT ![h] = x],
           Len(server') \in Nat, Len(server) \in Nat, Len(server) <= Len(server'),
           HandlerOK(x, Len(server'))
    PROVE  /\ handler' \in [Handlers -> HandlerRecords \cup {Idle}]
           /\ handler'[h] = x /\ \A g \in Handlers : g # h => handler'[g] = handler[g]
           /\ \A g \in Handlers : HandlerOK(handler'[g], Len(server'))
  <1>1. handler \in [Handlers -> HandlerRecords \cup {Idle}]
    BY DEF StudioInv, TypeOK
  <1>2. /\ handler' \in [Handlers -> HandlerRecords \cup {Idle}]
        /\ handler'[h] = x /\ \A g \in Handlers : g # h => handler'[g] = handler[g]
    BY <1>1
  <1>3. ASSUME NEW g \in Handlers PROVE HandlerOK(handler'[g], Len(server'))
    <2>1. HandlerOK(handler[g], Len(server))
      BY DEF StudioInv
    <2>2. CASE g = h
      BY <1>2, <2>2
    <2>3. CASE g # h
      <3>1. PICK n \in Nat, m \in Nat : n = Len(server) /\ m = Len(server')
        OBVIOUS
      <3>2. PICK y : y = handler[g] /\ handler'[g] = y
        BY <1>2, <2>3
      <3> QED
        BY <2>1, <3>1, <3>2, MoreRuntimes
    <2> QED
      BY <2>2, <2>3
  <1> QED
    BY <1>2, <1>3

\* A handler's step keeps the button's reason: it leaves the page no more disabled and no
\* less polled, and a submit does not end without enabling it or polling.
LEMMA ReasonIsKept ==
    ASSUME LockHasReason, NEW h \in Handlers,
           \A g \in Handlers : g # h => handler'[g] = handler[g],
           page'.disabled => page.disabled /\ (page.timer => page'.timer),
           handler[h] # Idle /\ handler[h].kind = "submit" =>
              \/ handler'[h] # Idle /\ handler'[h].kind = "submit"
              \/ page'.disabled => page'.timer
    PROVE  LockHasReason'
  BY DEF LockHasReason

\* A handler's step that leaves what is selected and shown keeps it right if it leaves a
\* click or a submit of the selected runtime there.
LEMMA SelectionIsKept ==
    ASSUME SelectionIsShown, NEW h \in Handlers,
           \A g \in Handlers : g # h => handler'[g] = handler[g],
           page'.shown = page.shown, page'.activeRuntime = page.activeRuntime,
           /\ handler[h] # Idle /\ handler[h].kind \in {"click", "submit"}
           /\ handler[h].runtime = page.activeRuntime /\ page.shown # NoView
           => /\ handler'[h] # Idle /\ handler'[h].kind = handler[h].kind
              /\ handler'[h].runtime = handler[h].runtime
    PROVE  SelectionIsShown'
  BY DEF SelectionIsShown

\* The parts of the invariant after a step of one handler.
LEMMA ScriptStep ==
    ASSUME StudioInv, NEW h \in Handlers, NEW x, x \in HandlerRecords \cup {Idle},
           handler' = [handler EXCEPT ![h] = x], HandlerOK(x, Len(server)),
           server' = server, events' \in 0..MaxEvents, commits' \in 0..MaxCommits,
           faults' \in 0..MaxFaults,
           PageOK(page', Len(server)), LockHasReason', SelectionIsShown'
    PROVE  StudioInv'
  <1>1. server \in Seq(Rows) /\ Len(server) <= MaxRuntimes /\ Len(server) \in Nat
    BY DEF StudioInv, TypeOK
  <1>2. /\ HandlerOK(x, Len(server')) /\ Len(server') \in Nat
        /\ Len(server) <= Len(server')
    BY <1>1 DEF HandlerOK
  <1>3. /\ handler' \in [Handlers -> HandlerRecords \cup {Idle}]
        /\ \A g \in Handlers : HandlerOK(handler'[g], Len(server'))
    BY <1>1, <1>2, HandlerGoesOn
  <1>4. TypeOK'
    BY <1>1, <1>3 DEF TypeOK, PageOK
  <1>5. PageOK(page, Len(server))'
    BY DEF PageOK
  <1>6. \A g \in Handlers : HandlerOK(handler[g], Len(server))'
    BY <1>3 DEF HandlerOK
  <1> QED
    BY <1>4, <1>5, <1>6 DEF StudioInv

\* What is known of the handlers, the page and the rows.
LEMMA Parts ==
    ASSUME StudioInv
    PROVE  /\ TypeOK /\ LockHasReason /\ SelectionIsShown
           /\ server \in Seq(Rows) /\ Len(server) \in Nat /\ Len(server) <= MaxRuntimes
           /\ MaxRuntimes \in Nat /\ 0 \in 0..MaxRuntimes
           /\ 0..Len(server) \subseteq 0..MaxRuntimes /\ 1..Len(server) \subseteq 0..Len(server)
           /\ \A n \in 1..Len(server) : server[n] \in Rows
           /\ PageOK(page, Len(server))
           /\ \A h \in Handlers : HandlerOK(handler[h], Len(server))
           /\ handler \in [Handlers -> HandlerRecords \cup {Idle}]
           /\ events \in 0..MaxEvents /\ commits \in 0..MaxCommits /\ faults \in 0..MaxFaults
  <1>1. server \in Seq(Rows) /\ Len(server) <= MaxRuntimes
    BY DEF StudioInv, TypeOK
  <1>2. Len(server) \in Nat /\ MaxRuntimes \in Nat
    BY <1>1, BoundsAreNatural
  <1> QED
    BY <1>1, <1>2 DEF StudioInv, TypeOK

----------------------------------------------------------------------------
(* The steps *)

\* The user and the interval start handlers.
LEMMA BeginStep ==
    ASSUME StudioInv, NEW h \in Handlers, User(h) \/ Tick(h)
    PROVE  StudioInv'
  <1>1. handler[h] = Idle /\ server' = server
    BY DEF User, Tick, Submit, Refresh, ClickRuntime, Free, UserEvent
  <1>2. events' \in 0..MaxEvents /\ commits' \in 0..MaxCommits /\ faults' \in 0..MaxFaults
    <2>1. events \in 0..MaxEvents /\ commits \in 0..MaxCommits /\ faults \in 0..MaxFaults
      BY Parts
    <2>2. CASE UserEvent
      <3>1. events < MaxEvents /\ events' = events + 1 /\ commits' = commits /\ faults' = faults
        BY <2>2 DEF UserEvent
      <3> QED
        BY <2>1, <3>1, BoundsAreNatural
    <2>3. CASE Tick(h)
      BY <2>1, <2>3 DEF Tick
    <2> QED
      BY <2>2, <2>3 DEF User, Submit, Refresh, ClickRuntime
  <1> DEFINE n == Len(server)
  <1>3. /\ PageIs(page, page.activeRuntime, page.timer, page.disabled, page.list, page.shown)
        /\ page.activeRuntime \in 0..MaxRuntimes /\ page.timer \in BOOLEAN
        /\ page.disabled \in BOOLEAN /\ page.list \in SUBSET (1..MaxRuntimes)
        /\ page.shown \in Views \cup {NoView}
        /\ PageOK(page, n) /\ LockHasReason /\ SelectionIsShown
    BY Parts, PageFields
  <1>4. CASE Submit(h)
    <2> DEFINE x == NewHandler("submit", "generate", 0)
    <2>1. HandlerIs(x, "submit", "generate", 0, <<>>, FALSE)
      BY Parts, HandlerSteps DEF HandlerKinds, HandlerStages
    <2>2. handler' = [handler EXCEPT ![h] = x]
          /\ page' = [page EXCEPT !.disabled = TRUE, !.shown = NoView]
      BY <1>4 DEF Submit, Begin
    <2> HIDE DEF x
    <2>3. HandlerOK(x, n)
      BY <2>1 DEF HandlerIs, HandlerOK
    <2>4. PageIs(page', page.activeRuntime, page.timer, TRUE, page.list, NoView)
      <3>1. PageIs(Submitting(page), page.activeRuntime, page.timer, TRUE, page.list, NoView)
        BY <1>3, PageSteps
      <3>2. page' = Submitting(page)
        BY <2>2 DEF Submitting
      <3> QED
        BY <3>1, <3>2 DEF PageIs
    <2>5. PageOK(page', n)
      BY <1>3, <2>4 DEF PageOK, PageIs
    <2>6. handler'[h] = x
      BY <2>2, Parts
    <2>7. LockHasReason'
      BY <2>1, <2>6 DEF LockHasReason, HandlerIs
    <2>8. SelectionIsShown'
      BY <2>4 DEF SelectionIsShown, PageIs
    <2> QED
      BY <1>1, <1>2, <2>1, <2>2, <2>3, <2>5, <2>7, <2>8, ScriptStep DEF HandlerIs
  <1>5. CASE Refresh(h) \/ Tick(h)
    <2> DEFINE x == IF Refresh(h) THEN NewHandler("refresh", "list", 0)
                    ELSE NewHandler("tick", "poll", page.activeRuntime)
    <2>1. handler' = [handler EXCEPT ![h] = x] /\ page' = page
      BY <1>5 DEF Refresh, Tick, Begin
    <2>2. x \in HandlerRecords /\ HandlerOK(x, n)
      <3>1. CASE Refresh(h)
        <4>1. HandlerIs(NewHandler("refresh", "list", 0), "refresh", "list", 0, <<>>, FALSE)
          BY Parts, HandlerSteps DEF HandlerKinds, HandlerStages
        <4> QED
          BY <3>1, <4>1 DEF HandlerIs, HandlerOK
      <3>2. CASE ~Refresh(h)
        <4>1. HandlerIs(NewHandler("tick", "poll", page.activeRuntime),
                        "tick", "poll", page.activeRuntime, <<>>, FALSE)
          BY <1>3, HandlerSteps DEF HandlerKinds, HandlerStages
        <4>2. page.intervals > 0
          BY <1>5, <3>2 DEF Tick
        <4>3. page.activeRuntime \in 1..n
          BY <1>3, <4>2 DEF PageOK
        <4> QED
          BY <3>2, <4>1, <4>3 DEF HandlerIs, HandlerOK
      <3> QED
        BY <3>1, <3>2
    <2> HIDE DEF x
    <2>3. \A g \in Handlers : g # h => handler'[g] = handler[g]
      BY <2>1, Parts
    <2>4. LockHasReason'
      BY <1>1, <1>3, <2>1, <2>3, ReasonIsKept
    <2>5. SelectionIsShown'
      BY <1>1, <1>3, <2>1, <2>3, SelectionIsKept
    <2>6. PageOK(page', n)
      BY <1>3, <2>1
    <2> QED
      BY <1>1, <1>2, <2>1, <2>2, <2>4, <2>5, <2>6, ScriptStep
  <1>6. CASE ClickRuntime(h)
    <2>1. PICK m \in page.list :
             /\ page' = [page EXCEPT !.activeRuntime = m]
             /\ handler' = [handler EXCEPT ![h] = NewHandler("click", "poll", m)]
      BY <1>6 DEF ClickRuntime, Begin
    <2>2. m \in 1..n /\ m \in 0..n /\ m \in 0..MaxRuntimes /\ m # 0
      BY <1>3, Parts DEF PageOK
    <2> DEFINE x == NewHandler("click", "poll", m)
    <2>3. HandlerIs(x, "click", "poll", m, <<>>, FALSE)
      BY <2>2, HandlerSteps DEF HandlerKinds, HandlerStages
    <2> HIDE DEF x
    <2>4. HandlerOK(x, n)
      BY <2>2, <2>3 DEF HandlerIs, HandlerOK
    <2>5. PageIs(page', m, page.timer, page.disabled, page.list, page.shown)
      <3>1. PageIs(Selecting(page, m),
                   m, page.timer, page.disabled, page.list, page.shown)
        BY <1>3, <2>2, PageSteps
      <3>2. page' = Selecting(page, m)
        BY <2>1 DEF Selecting
      <3> QED
        BY <3>1, <3>2 DEF PageIs
    <2>6. PageOK(page', n)
      BY <1>3, <2>2, <2>5 DEF PageOK, PageIs
    <2>7. handler'[h] = x /\ \A g \in Handlers : g # h => handler'[g] = handler[g]
      BY <2>1, Parts DEF x
    <2>8. LockHasReason'
      BY <1>1, <1>3, <2>5, <2>7, ReasonIsKept DEF PageIs
    <2>9. SelectionIsShown'
      BY <2>3, <2>5, <2>7 DEF SelectionIsShown, PageIs, HandlerIs
    <2> QED
      BY <1>1, <1>2, <2>1, <2>3, <2>4, <2>6, <2>8, <2>9, ScriptStep DEF HandlerIs, x
  <1> QED
    BY <1>4, <1>5, <1>6 DEF User

\* The server answers, or the request fails.
LEMMA ServeStep ==
    ASSUME StudioInv, NEW h \in Handlers, Serve(h)
    PROVE  StudioInv'
  <1> DEFINE n == Len(server)
             y == handler[h]
  <1>0. /\ handler[h] # Idle /\ page' = page /\ events' = events /\ commits' = commits
    BY DEF Serve, Generate, FinalCommit, GetRuntime, ListRuntimes, Reject, Waiting, Answering
  <1>1. /\ TypeOK /\ LockHasReason /\ SelectionIsShown /\ PageOK(page, n)
        /\ HandlerOK(y, n) /\ y \in HandlerRecords
        /\ events' \in 0..MaxEvents /\ commits' \in 0..MaxCommits
    BY <1>0, Parts, HandlerUpdates
  <1>2. ASSUME NEW x \in HandlerRecords, handler' = [handler EXCEPT ![h] = x],
               HandlerOK(x, n), server' = server, faults' \in 0..MaxFaults,
               x # Idle, x.kind = y.kind, x.runtime = y.runtime
        PROVE  StudioInv'
    <2>1. handler'[h] = x /\ \A g \in Handlers : g # h => handler'[g] = handler[g]
      BY <1>2, Parts
    <2>2. LockHasReason'
      BY <1>0, <1>1, <1>2, <2>1, ReasonIsKept
    <2>3. SelectionIsShown'
      BY <1>0, <1>1, <1>2, <2>1, SelectionIsKept
    <2>4. PageOK(page', n)
      BY <1>0, <1>1
    <2> QED
      BY <1>1, <1>2, <2>2, <2>3, <2>4, ScriptStep
  <1>3. CASE Generate(h)
    <2> DEFINE x == [y EXCEPT !.stage = "dispatching", !.runtime = n + 1]
    <2>1. /\ y.stage = "generate" /\ n < MaxRuntimes /\ server' = Append(server, Queued)
          /\ handler' = [handler EXCEPT ![h].stage = "dispatching", ![h].runtime = n + 1]
          /\ faults' = faults
      BY <1>3 DEF Generate, Waiting
    <2>2. n + 1 \in 0..MaxRuntimes /\ n + 1 \in 1..(n + 1) /\ n + 1 \in Nat
      BY <2>1, Parts
    <2>3. HandlerIs(x, y.kind, "dispatching", n + 1, y.views, y.polls)
      BY <1>1, <2>2, HandlerSteps DEF HandlerStages
    <2>4. handler' = [handler EXCEPT ![h] = x]
      BY <1>0, <1>1, <2>1, HandlerUpdates
    <2>5. Queued \in Rows
      BY DEF Queued, Rows
    <2>6. /\ server' \in Seq(Rows) /\ Len(server') = n + 1 /\ server'[n + 1] = Queued
          /\ \A i \in 1..n : server'[i] = server[i]
      BY <2>1, <2>5, Parts
    <2> HIDE DEF x
    <2>7. HandlerOK(y, n + 1)
      BY <1>1, <2>2, MoreRuntimes, Parts
    <2>8. HandlerOK(x, Len(server'))
      BY <1>0, <2>1, <2>2, <2>3, <2>6, <2>7 DEF HandlerIs, HandlerOK
    <2>9. /\ handler' \in [Handlers -> HandlerRecords \cup {Idle}]
          /\ handler'[h] = x /\ \A g \in Handlers : g # h => handler'[g] = handler[g]
          /\ \A g \in Handlers : HandlerOK(handler'[g], Len(server'))
      <3>1. /\ x \in HandlerRecords \cup {Idle} /\ Len(server') \in Nat
            /\ Len(server) \in Nat /\ Len(server) <= Len(server')
        BY <2>2, <2>3, <2>6, Parts DEF HandlerIs
      <3> QED
        BY <2>4, <2>8, <3>1, HandlerGoesOn
    <2>10. TypeOK'
      <3>1. Len(server') <= MaxRuntimes
        BY <2>1, <2>6, Parts
      <3> QED
        BY <1>0, <1>1, <2>1, <2>6, <2>9, <3>1 DEF TypeOK
    <2>11. LockHasReason'
      BY <1>0, <1>1, <2>3, <2>9, ReasonIsKept DEF HandlerIs
    <2>12. SelectionIsShown'
      <3>1. y.runtime = 0
        BY <1>0, <1>1, <2>1 DEF HandlerOK
      <3>2. page.shown # NoView => page.activeRuntime # 0
        BY <1>1 DEF PageOK
      <3> QED
        BY <1>0, <1>1, <2>9, <3>1, <3>2, SelectionIsKept
    <2>13. PageOK(page, Len(server))'
      <3>1. PageOK(page, n + 1)
        BY <1>1, <2>2, MoreRuntimes, Parts
      <3> QED
        BY <1>0, <2>6, <3>1 DEF PageOK
    <2>14. \A g \in Handlers : HandlerOK(handler[g], Len(server))'
      BY <2>9 DEF HandlerOK
    <2> QED
      BY <2>10, <2>11, <2>12, <2>13, <2>14 DEF StudioInv
  <1>4. CASE GetRuntime(h)
    <2> DEFINE v == ViewOf(y.runtime)
               x == [y EXCEPT !.stage = "polled", !.views = <<v>>]
    <2>1. /\ y.stage = "poll" /\ server' = server /\ faults' = faults
          /\ handler' = [handler EXCEPT ![h].stage = "polled", ![h].views = <<v>>]
      BY <1>4 DEF GetRuntime, Waiting
    <2>2. y.runtime \in 1..n
      BY <1>0, <1>1, <2>1 DEF HandlerOK
    <2>3. v \in Views /\ v.runtime = y.runtime
      <3>1. server[y.runtime] \in Rows
        BY <2>2, Parts
      <3>2. y.runtime \in 1..MaxRuntimes
        BY <2>2, Parts
      <3> QED
        BY <3>1, <3>2 DEF ViewOf, Views, Rows
    <2> HIDE DEF v
    <2>4. <<v>> \in Seq(Views) /\ Len(<<v>>) = 1 /\ <<v>>[1] = v
      BY <2>3
    <2>5. HandlerIs(x, y.kind, "polled", y.runtime, <<v>>, y.polls)
      BY <1>1, <2>4, HandlerSteps DEF HandlerStages
    <2>6. handler' = [handler EXCEPT ![h] = x]
      BY <1>0, <1>1, <2>1, HandlerUpdates
    <2> HIDE DEF x
    <2>7. HandlerOK(x, n)
      BY <1>0, <1>1, <2>1, <2>2, <2>3, <2>4, <2>5 DEF HandlerIs, HandlerOK
    <2> QED
      BY <1>2, <2>1, <2>5, <2>6, <2>7, Parts DEF HandlerIs
  <1>5. CASE ListRuntimes(h)
    <2> DEFINE rows == [i \in 1..n |-> ViewOf(i)]
               views == Reverse(rows)
               x == [y EXCEPT !.stage = "listed", !.views = views]
    <2>1. /\ y.stage = "list" /\ server' = server /\ faults' = faults
          /\ handler' = [handler EXCEPT ![h].stage = "listed", ![h].views = views]
      BY <1>5 DEF ListRuntimes, Waiting
    <2>2. ASSUME NEW i \in 1..n
          PROVE  ViewOf(i) \in Views /\ ViewOf(i).runtime = i
      <3>1. server[i] \in Rows
        BY Parts
      <3>2. i \in 1..MaxRuntimes
        BY Parts
      <3> QED
        BY <3>1, <3>2 DEF ViewOf, Views, Rows
    <2>3. rows \in Seq(Views) /\ Len(rows) = n
      BY <2>2, Parts
    <2>4. /\ views \in Seq(Views) /\ Len(views) = n
          /\ \A i \in 1..n : views[i] = rows[n - i + 1] /\ n - i + 1 \in 1..n
      BY <2>3, Parts DEF Reverse
    <2>5. \A i \in 1..Len(views) : views[i].runtime \in 1..n
      BY <2>2, <2>4
    <2> HIDE DEF views, rows
    <2>6. HandlerIs(x, y.kind, "listed", y.runtime, views, y.polls)
      BY <1>1, <2>4, HandlerSteps DEF HandlerStages
    <2>7. handler' = [handler EXCEPT ![h] = x]
      BY <1>0, <1>1, <2>1, HandlerUpdates
    <2> HIDE DEF x
    <2>8. HandlerOK(x, n)
      BY <1>0, <1>1, <2>1, <2>4, <2>5, <2>6 DEF HandlerIs, HandlerOK
    <2> QED
      BY <1>2, <2>1, <2>6, <2>7, <2>8, Parts DEF HandlerIs
  <1>6. CASE Reject(h)
    <2> DEFINE x == [y EXCEPT !.stage = "rejected"]
    <2>1. /\ server' = server /\ handler' = [handler EXCEPT ![h].stage = "rejected"]
          /\ (faults < MaxFaults /\ faults' = faults + 1) \/ faults' = faults
      BY <1>6 DEF Reject
    <2>2. faults' \in 0..MaxFaults
      BY <2>1, Parts, BoundsAreNatural
    <2>3. HandlerIs(x, y.kind, "rejected", y.runtime, y.views, y.polls)
      BY <1>1, HandlerSteps DEF HandlerStages
    <2>4. handler' = [handler EXCEPT ![h] = x]
      BY <1>0, <1>1, <2>1, HandlerUpdates
    <2> HIDE DEF x
    <2>5. HandlerOK(x, n)
      BY <1>0, <1>1, <2>3 DEF HandlerIs, HandlerOK
    <2> QED
      BY <1>2, <2>1, <2>2, <2>3, <2>4, <2>5 DEF HandlerIs
  <1>7. CASE FinalCommit(h)
    <2> DEFINE x == [y EXCEPT !.stage = "created"]
               m == y.runtime
    <2>1. /\ y.stage = "dispatching" /\ faults' = faults
          /\ handler' = [handler EXCEPT ![h].stage = "created"]
      BY <1>7 DEF FinalCommit, Waiting
    <2>2. m \in 1..n /\ server[m] \in Rows
      BY <1>0, <1>1, <2>1, Parts DEF HandlerOK
    <2>3. PICK jobs \in {{"active"}, server[m].jobs \cup {"active"}} :
             server' = [server EXCEPT ![m].jobs = jobs, ![m].blamed = @ \ {"compile_status"}]
      BY <1>7 DEF FinalCommit
    <2> DEFINE row == [server[m] EXCEPT !.jobs = jobs, !.blamed = @ \ {"compile_status"}]
    <2>4. row \in Rows /\ server' = [server EXCEPT ![m] = row]
      <3>1. jobs \in SUBSET {"active", "failed"}
        BY <2>2, <2>3 DEF Rows
      <3>2. row \in Rows
        BY <2>2, <3>1 DEF Rows
      <3>3. server' = [server EXCEPT ![m] = row]
        BY <2>2, <2>3, Parts
      <3> QED
        BY <3>2, <3>3
    <2> HIDE DEF row, m
    <2>5. server' \in Seq(Rows) /\ Len(server') = n
      BY <2>2, <2>4, Parts
    <2>6. HandlerIs(x, y.kind, "created", y.runtime, y.views, y.polls)
      BY <1>1, HandlerSteps DEF HandlerStages
    <2>7. handler' = [handler EXCEPT ![h] = x]
      BY <1>0, <1>1, <2>1, HandlerUpdates
    <2> HIDE DEF x
    <2>8. HandlerOK(x, Len(server'))
      BY <1>0, <1>1, <2>1, <2>5, <2>6 DEF HandlerIs, HandlerOK
    <2>9. /\ handler' \in [Handlers -> HandlerRecords \cup {Idle}]
          /\ handler'[h] = x /\ \A g \in Handlers : g # h => handler'[g] = handler[g]
          /\ \A g \in Handlers : HandlerOK(handler'[g], Len(server'))
      <3>1. /\ x \in HandlerRecords \cup {Idle} /\ Len(server') \in Nat
            /\ Len(server) \in Nat /\ Len(server) <= Len(server')
        BY <2>5, <2>6, Parts DEF HandlerIs
      <3> QED
        BY <2>7, <2>8, <3>1, HandlerGoesOn
    <2>10. TypeOK'
      BY <1>0, <1>1, <2>1, <2>5, <2>9, Parts DEF TypeOK
    <2>11. LockHasReason'
      BY <1>0, <1>1, <2>6, <2>9, ReasonIsKept DEF HandlerIs
    <2>12. SelectionIsShown'
      BY <1>0, <1>1, <2>6, <2>9, SelectionIsKept DEF HandlerIs
    <2>13. PageOK(page, Len(server))'
      BY <1>0, <1>1, <2>5 DEF PageOK
    <2>14. \A g \in Handlers : HandlerOK(handler[g], Len(server))'
      BY <2>9 DEF HandlerOK
    <2> QED
      BY <2>10, <2>11, <2>12, <2>13, <2>14 DEF StudioInv
  <1> QED
    BY <1>3, <1>4, <1>5, <1>6, <1>7 DEF Serve

\* What a commit about the jobs of a runtime writes.
LEMMA CommittedRow ==
    ASSUME NEW n, server[n] \in Rows, NEW jobs \in SUBSET {"active", "failed"},
           NEW assets \in {"none", "media", "export"}, Commit(n, jobs, assets)
    PROVE  \E row \in Rows : server' = [server EXCEPT ![n] = row]
  <1>1. PICK blamed \in {server[n].blamed,
                         IF "failed" \in jobs THEN {"compile_status", "last_error"} ELSE {}} :
           server' = [server EXCEPT ![n] = [jobs |-> jobs, blamed |-> blamed, assets |-> assets]]
    BY DEF Commit
  <1>2. blamed \in SUBSET {"compile_status", "last_error"}
    BY <1>1 DEF Rows
  <1>3. [jobs |-> jobs, blamed |-> blamed, assets |-> assets] \in Rows
    BY <1>2 DEF Rows
  <1> QED
    BY <1>1, <1>3

\* A commit about the jobs of a runtime.
LEMMA JobsStep ==
    ASSUME StudioInv, NEW n \in DOMAIN server,
           JobSucceeds(n) \/ JobFails(n) \/ JobRunsAgain(n) \/ AddJob(n)
    PROVE  StudioInv'
  <1>1. n \in 1..Len(server) /\ server[n] \in Rows /\ server \in Seq(Rows)
    BY Parts
  <1>2. /\ page' = page /\ handler' = handler /\ events' = events /\ faults' = faults
        /\ commits < MaxCommits /\ commits' = commits + 1
    BY DEF JobSucceeds, JobFails, JobRunsAgain, AddJob, Commit
  <1>3. commits' \in 0..MaxCommits
    BY <1>2, Parts, BoundsAreNatural
  <1>4. PICK row \in Rows : server' = [server EXCEPT ![n] = row]
    <2> DEFINE sets == SUBSET {"active", "failed"}
    <2>1. /\ server[n].jobs \in sets /\ server[n].jobs \ {"active"} \in sets
          /\ Remaining(n) \subseteq sets /\ server[n].assets \in {"none", "media", "export"}
      BY <1>1 DEF Remaining, Rows
    <2>2. \A jobs \in Remaining(n) : jobs \cup {"failed"} \in sets
      BY <2>1
    <2>3. CASE JobSucceeds(n)
      <3>1. PICK jobs \in Remaining(n), assets \in {"none", "media", "export"} :
               Commit(n, jobs, assets)
        BY <2>1, <2>3 DEF JobSucceeds
      <3> QED
        BY <1>1, <2>1, <3>1, CommittedRow
    <2>4. CASE JobFails(n)
      <3>1. PICK jobs \in Remaining(n), assets \in {"none", "media", "export"} :
               Commit(n, jobs \cup {"failed"}, assets)
        BY <2>1, <2>4 DEF JobFails
      <3> QED
        BY <1>1, <2>2, <3>1, CommittedRow
    <2>5. CASE JobRunsAgain(n)
      <3>1. PICK jobs \in {{"active"}, {"active", "failed"}} : Commit(n, jobs, server[n].assets)
        BY <2>5 DEF JobRunsAgain
      <3>2. jobs \in sets
        BY <3>1
      <3> QED
        BY <1>1, <2>1, <3>1, <3>2, CommittedRow
    <2>6. CASE AddJob(n)
      <3> DEFINE y == server[n]
                 added == [y EXCEPT !.jobs = @ \cup {"active"}]
      <3>1. added \in Rows
        BY <1>1 DEF Rows
      <3>2. server' = [server EXCEPT ![n] = added]
        BY <1>1, <2>6 DEF AddJob
      <3> QED
        BY <3>1, <3>2
    <2> QED
      BY <2>3, <2>4, <2>5, <2>6
  <1>5. server' \in Seq(Rows) /\ Len(server') = Len(server)
    BY <1>1, <1>4
  <1>6. TypeOK'
    BY <1>2, <1>3, <1>5, Parts DEF TypeOK
  <1>7. LockHasReason' /\ SelectionIsShown'
    BY <1>2, Parts DEF LockHasReason, SelectionIsShown
  <1>8. PageOK(page, Len(server))'
    BY <1>2, <1>5, Parts DEF PageOK
  <1>9. \A h \in Handlers : HandlerOK(handler[h], Len(server))'
    BY <1>2, <1>5, Parts DEF HandlerOK
  <1> QED
    BY <1>6, <1>7, <1>8, <1>9 DEF StudioInv

\* An answer arrives, or an error.
LEMMA ReceiveStep ==
    ASSUME StudioInv, NEW h \in Handlers, Receive(h)
    PROVE  StudioInv'
  <1> DEFINE n == Len(server)
             y == handler[h]
  <1>0. /\ handler[h] # Idle /\ server' = server
        /\ events' = events /\ commits' = commits /\ faults' = faults
    BY DEF Receive, ReceiveCreated, ReceiveView, ReceiveList, ReceiveError, Waiting, Receiving
  <1>1. /\ TypeOK /\ LockHasReason /\ SelectionIsShown /\ PageOK(page, n)
        /\ HandlerOK(y, n) /\ y \in HandlerRecords
        /\ events' \in 0..MaxEvents /\ commits' \in 0..MaxCommits /\ faults' \in 0..MaxFaults
    BY <1>0, Parts, HandlerUpdates
  <1>2. /\ PageIs(page, page.activeRuntime, page.timer, page.disabled, page.list, page.shown)
        /\ page.activeRuntime \in 0..MaxRuntimes /\ page.timer \in BOOLEAN
        /\ page.disabled \in BOOLEAN /\ page.list \in SUBSET (1..MaxRuntimes)
        /\ page.shown \in Views \cup {NoView}
    BY Parts, PageFields
  <1>3. /\ page.list \subseteq 1..n /\ n \in Nat
        /\ page.timer => page.activeRuntime # 0
    BY <1>1, Parts DEF PageOK
  <1>4. ASSUME NEW x \in HandlerRecords \cup {Idle}, handler' = [handler EXCEPT ![h] = x],
               HandlerOK(x, n), PageOK(page', n), SelectionIsShown',
               page'.disabled => page.disabled /\ (page.timer => page'.timer),
               y.kind = "submit" =>
                  (x # Idle /\ x.kind = "submit") \/ (page'.disabled => page'.timer)
        PROVE  StudioInv'
    <2>1. handler'[h] = x /\ \A g \in Handlers : g # h => handler'[g] = handler[g]
      BY <1>4, Parts
    <2>2. LockHasReason'
      BY <1>1, <1>4, <2>1, ReasonIsKept
    <2> QED
      BY <1>0, <1>1, <1>4, <2>2, ScriptStep
  <1>5. HandlerOK(Idle, n)
    BY DEF HandlerOK
  <1>6. CASE ReceiveCreated(h)
    <2> DEFINE x == [y EXCEPT !.stage = "poll"]
    <2>1. /\ y.stage = "created" /\ page' = Selecting(page, y.runtime)
          /\ handler' = [handler EXCEPT ![h].stage = "poll"]
      BY <1>6 DEF ReceiveCreated, Waiting, Selecting
    <2>2. /\ y.runtime \in 1..n /\ y.runtime \in 0..n /\ y.runtime \in 0..MaxRuntimes
          /\ y.runtime # 0 /\ y.kind = "submit"
      BY <1>0, <1>1, <2>1, Parts DEF HandlerOK
    <2>3. HandlerIs(x, y.kind, "poll", y.runtime, y.views, y.polls)
      BY <1>1, HandlerSteps DEF HandlerStages
    <2>4. handler' = [handler EXCEPT ![h] = x]
      BY <1>0, <1>1, <2>1, HandlerUpdates
    <2> HIDE DEF x
    <2>5. HandlerOK(x, n)
      BY <1>0, <1>1, <2>2, <2>3 DEF HandlerIs, HandlerOK
    <2>6. PageIs(page', y.runtime, page.timer, page.disabled, page.list, page.shown)
      <3>1. PageIs(Selecting(page, y.runtime), y.runtime, page.timer, page.disabled,
                   page.list, page.shown)
        BY <1>2, <2>2, PageSteps
      <3> QED
        BY <2>1, <3>1 DEF PageIs
    <2>7. PageOK(page', n)
      BY <1>1, <2>2, <2>6 DEF PageOK, PageIs
    <2>8. handler'[h] = x
      BY <2>4, Parts
    <2>9. SelectionIsShown'
      BY <2>2, <2>3, <2>6, <2>8 DEF SelectionIsShown, PageIs, HandlerIs
    <2>10. x # Idle /\ x.kind = "submit" /\ x \in HandlerRecords
      BY <2>2, <2>3 DEF HandlerIs
    <2>11. page'.disabled = page.disabled /\ page'.timer = page.timer
      BY <2>6 DEF PageIs
    <2> QED
      BY <1>4, <2>4, <2>5, <2>7, <2>9, <2>10, <2>11
  <1>7. CASE ReceiveView(h)
    <2> DEFINE v == y.views[1]
               q == ShowPolled(page, v)
               x == Listing(HasActiveJobs(v))
    <2>1. y.stage = "polled"
      BY <1>7 DEF ReceiveView, Waiting
    <2>2. y.kind \in {"submit", "click", "tick"} /\ Len(y.views) = 1
      BY <1>0, <1>1, <2>1 DEF HandlerOK
    <2>3. v \in Views /\ v.runtime \in 1..n
      <3>1. y.views \in Seq(Views) /\ 1 \in 1..Len(y.views)
        BY <1>1, <2>2 DEF HandlerRecords
      <3>2. v \in Views
        BY <3>1
      <3> QED
        BY <1>0, <1>1, <3>1, <3>2 DEF HandlerOK
    <2> DEFINE active == HasActiveJobs(v)
    <2>4. PageIs(q, v.runtime, page.timer /\ active, page.disabled /\ (active \/ ~page.timer),
                 Merged(page.list, v), v)
      BY <1>2, <2>3, PolledPage
    <2>5. /\ \/ y.kind = "tick" /\ page' = q /\ handler' = [handler EXCEPT ![h] = Idle]
             \/ y.kind = "click" /\ page' = AfterClick(q, v)
                /\ handler' = [handler EXCEPT ![h] = Idle]
             \/ y.kind = "submit" /\ page' = q /\ handler' = [handler EXCEPT ![h] = x]
      BY <1>7, <2>2 DEF ReceiveView, Listing
    <2>6. HandlerIs(x, "submit", "list", 0, <<>>, active)
      <3>0. HasActiveJobs(v) \in BOOLEAN
        BY DEF HasActiveJobs
      <3>1. PICK b \in BOOLEAN : b = HasActiveJobs(v)
        BY <3>0
      <3>2. HandlerIs(Listing(b), "submit", "list", 0, <<>>, b)
        BY HandlerSteps
      <3> QED
        BY <3>1, <3>2
    <2>7. /\ v.runtime \in 0..MaxRuntimes /\ v.runtime \in 0..n /\ v.runtime # 0 /\ n > 0
          /\ Merged(page.list, v) \in SUBSET (1..n)
          /\ Merged(page.list, v) \in SUBSET (1..MaxRuntimes)
          /\ active \in BOOLEAN
      BY <1>2, <1>3, <2>3, Parts DEF Merged, HasActiveJobs
    <2> HIDE DEF v, q, x, active
    <2>8. HandlerOK(x, n)
      BY <2>6, <2>7 DEF HandlerIs, HandlerOK
    <2>9. \E t \in BOOLEAN, d \in BOOLEAN :
             /\ PageIs(page', v.runtime, t, d, Merged(page.list, v), v)
             /\ d => page.disabled /\ (page.timer => t)
      <3>1. CASE y.kind = "click"
        <4> DEFINE d == page.disabled /\ (active \/ ~page.timer)
                   b == page.timer /\ active
        <4>1. d \in BOOLEAN /\ b \in BOOLEAN /\ (d => page.disabled /\ (page.timer => active))
          BY <1>2, <2>7
        <4>2. PageIs(q, v.runtime, b, d, Merged(page.list, v), v)
          BY <2>4
        <4> HIDE DEF d, b
        <4>3. PageIs(AfterClick(q, v), v.runtime, active, d, Merged(page.list, v), v)
          BY <2>3, <2>7, <4>1, <4>2, ClickedPage DEF active
        <4>4. page' = AfterClick(q, v)
          BY <2>5, <3>1
        <4>5. PageIs(page', v.runtime, active, d, Merged(page.list, v), v)
          BY <4>3, <4>4
        <4> QED
          BY <2>7, <4>1, <4>5
      <3>2. CASE y.kind # "click"
        <4> DEFINE d == page.disabled /\ (active \/ ~page.timer)
                   b == page.timer /\ active
        <4>1. d \in BOOLEAN /\ b \in BOOLEAN /\ (d => page.disabled /\ (page.timer => b))
          BY <1>2, <2>7
        <4>2. page' = q
          BY <2>5, <3>2
        <4>3. PageIs(page', v.runtime, b, d, Merged(page.list, v), v)
          BY <2>4, <4>2
        <4> QED
          BY <4>1, <4>3
      <3> QED
        BY <3>1, <3>2
    <2>10. PICK t \in BOOLEAN, d \in BOOLEAN :
             /\ PageIs(page', v.runtime, t, d, Merged(page.list, v), v)
             /\ d => page.disabled /\ (page.timer => t)
      BY <2>9
    <2>11. PageOK(page', n)
      BY <1>3, <2>3, <2>7, <2>10, PageIsOK
    <2>12. /\ page'.shown.runtime = page'.activeRuntime
           /\ page'.disabled => page.disabled /\ (page.timer => page'.timer)
      BY <2>10 DEF PageIs
    <2>13. SelectionIsShown'
      BY <2>12 DEF SelectionIsShown
    <2>14. CASE y.kind = "submit"
      <3>1. x \in HandlerRecords /\ x # Idle /\ x.kind = "submit"
        BY <2>6 DEF HandlerIs
      <3>2. handler' = [handler EXCEPT ![h] = x]
        BY <2>5, <2>14
      <3> QED
        BY <1>4, <2>8, <2>11, <2>12, <2>13, <3>1, <3>2
    <2>15. CASE y.kind # "submit"
      <3>1. handler' = [handler EXCEPT ![h] = Idle]
        BY <2>5, <2>15
      <3> QED
        BY <1>4, <1>5, <2>11, <2>12, <2>13, <2>15, <3>1
    <2> QED
      BY <2>14, <2>15
  <1>8. CASE ReceiveList(h)
    <2>0. PICK force \in BOOLEAN, polls \in BOOLEAN, views \in Seq(Views) :
             force = (y.kind = "refresh") /\ polls = y.polls /\ views = y.views
      BY <1>1 DEF HandlerRecords
    <2> DEFINE q == ShowListed(page, views, force)
               k == Listed(views)
    <2>1. /\ y.stage = "listed" /\ handler' = [handler EXCEPT ![h] = Idle]
          /\ page' = IF y.kind = "submit" THEN AfterSubmit(q, polls) ELSE q
      BY <1>8, <2>0 DEF ReceiveList, Waiting
    <2>3. /\ \A i \in 1..Len(views) : views[i].runtime \in 1..n
          /\ y.kind = "submit" => Len(views) > 0
      BY <1>0, <1>1, <2>0, <2>1 DEF HandlerOK
    <2>4. DOMAIN views = 1..Len(views) /\ Len(views) \in Nat
      OBVIOUS
    <2>5. k \in SUBSET (1..n) /\ k \in SUBSET (1..MaxRuntimes)
      BY <2>3, <2>4, Parts DEF Listed
    <2>6. /\ Len(views) = 0 => PageIs(q, 0, FALSE, FALSE, k, NoView)
          /\ Len(views) > 0 =>
                \E i \in 1..Len(views), b \in BOOLEAN, c \in BOOLEAN :
                   /\ PageIs(q, views[i].runtime, b, c, k, views[i])
                   /\ c => page.disabled /\ (page.timer => b)
      <3>1. PICK a0 \in 0..MaxRuntimes, t0 \in BOOLEAN, d0 \in BOOLEAN,
                 l0 \in SUBSET (1..MaxRuntimes), s0 \in Views \cup {NoView} :
               /\ PageIs(page, a0, t0, d0, l0, s0)
               /\ t0 = page.timer /\ d0 = page.disabled
        BY <1>2
      <3>2. ListedIs(ShowListed(page, views, force), views, t0, d0)
        BY <3>1, ListedPage
      <3> QED
        BY <3>1, <3>2 DEF ListedIs
    <2> HIDE DEF q, k
    <2>7. \E a \in 0..n, t \in BOOLEAN, d \in BOOLEAN, s \in Views \cup {NoView} :
             /\ PageIs(q, a, t, d, k, s)
             /\ t => a # 0
             /\ s # NoView => a # 0 /\ s.runtime = a
             /\ d => page.disabled /\ (page.timer => t)
             /\ y.kind = "submit" => a # 0
      <3>1. CASE Len(views) = 0
        <4>1. PageIs(q, 0, FALSE, FALSE, k, NoView)
          BY <2>6, <3>1
        <4>2. 0 \in 0..n
          BY <1>3
        <4>3. y.kind # "submit"
          BY <2>3, <3>1
        <4> QED
          BY <4>1, <4>2, <4>3
      <3>2. CASE Len(views) > 0
        <4>1. PICK i \in 1..Len(views), b \in BOOLEAN, c \in BOOLEAN :
                 /\ PageIs(q, views[i].runtime, b, c, k, views[i])
                 /\ c => page.disabled /\ (page.timer => b)
          BY <2>6, <3>2
        <4> DEFINE v == views[i]
        <4>2. v \in Views /\ v.runtime \in 1..n
          BY <2>3
        <4>3. v.runtime \in 0..n /\ v.runtime # 0
          BY <1>3, <4>2
        <4>4. PageIs(q, v.runtime, b, c, k, v) /\ v \in Views \cup {NoView}
          BY <4>1, <4>2
        <4> HIDE DEF v
        <4> QED
          BY <4>1, <4>2, <4>3, <4>4
      <3> QED
        BY <2>4, <3>1, <3>2
    <2>8. PICK a \in 0..n, t \in BOOLEAN, d \in BOOLEAN, s \in Views \cup {NoView} :
             /\ PageIs(q, a, t, d, k, s)
             /\ t => a # 0
             /\ s # NoView => a # 0 /\ s.runtime = a
             /\ d => page.disabled /\ (page.timer => t)
             /\ y.kind = "submit" => a # 0
      BY <2>7
    <2>9. a \in 0..MaxRuntimes
      BY Parts
    <2>10. \E b \in BOOLEAN, c \in BOOLEAN :
             /\ PageIs(page', a, b, c, k, s)
             /\ b => a # 0
             /\ c => page.disabled /\ (page.timer => b)
             /\ y.kind = "submit" => (c => b)
      <3>1. CASE y.kind = "submit"
        <4>1. page' = AfterSubmit(q, polls)
          BY <2>1, <3>1
        <4>2. PageIs(q, a, t, d, k, s) /\ k \in SUBSET (1..MaxRuntimes)
          BY <2>5, <2>8
        <4>3. PICK c \in BOOLEAN :
                 PageIs(AfterSubmit(q, polls), a, polls, c, k, s) /\ (c => d /\ polls)
          BY <2>9, <4>2, SubmittedPage
        <4>4. PageIs(page', a, polls, c, k, s)
          BY <4>1, <4>3
        <4> QED
          BY <2>8, <3>1, <4>3, <4>4
      <3>2. CASE y.kind # "submit"
        <4>1. page' = q
          BY <2>1, <3>2
        <4>2. PageIs(page', a, t, d, k, s)
          BY <2>8, <4>1
        <4> QED
          BY <2>8, <3>2, <4>2
      <3> QED
        BY <3>1, <3>2
    <2>11. PICK b \in BOOLEAN, c \in BOOLEAN :
             /\ PageIs(page', a, b, c, k, s)
             /\ b => a # 0
             /\ c => page.disabled /\ (page.timer => b)
             /\ y.kind = "submit" => (c => b)
      BY <2>10
    <2>12. PageOK(page', n)
      BY <1>3, <2>5, <2>8, <2>11, PageIsOK
    <2>13. /\ page'.shown # NoView => page'.shown.runtime = page'.activeRuntime
           /\ page'.disabled => page.disabled /\ (page.timer => page'.timer)
           /\ y.kind = "submit" => (page'.disabled => page'.timer)
      BY <2>8, <2>11 DEF PageIs
    <2>14. SelectionIsShown'
      BY <2>13 DEF SelectionIsShown
    <2> QED
      BY <1>4, <1>5, <2>1, <2>12, <2>13, <2>14
  <1>9. CASE ReceiveError(h)
    <2>1. /\ handler' = [handler EXCEPT ![h] = Idle]
          /\ \/ y.kind = "load" /\ page' = page
             \/ y.kind = "submit" /\ page' = ShowError(Enable(page))
             \/ y.kind \notin {"load", "submit"} /\ page' = ShowError(page)
      BY <1>9 DEF ReceiveError
    <2>2. PageIs(ShowError(page), page.activeRuntime, page.timer, page.disabled,
                 page.list, NoView)
      BY <1>2, PageSteps
    <2>3. PageIs(ShowError(Enable(page)), page.activeRuntime, page.timer, FALSE,
                 page.list, NoView)
      <3>1. PageIs(Enable(page), page.activeRuntime, page.timer, FALSE, page.list, page.shown)
        BY <1>2, PageSteps
      <3> QED
        BY <1>2, <3>1, PageSteps
    <2>4. CASE y.kind = "load"
      <3>1. page' = page
        BY <2>1, <2>4
      <3>2. handler'[h] = Idle /\ \A g \in Handlers : g # h => handler'[g] = handler[g]
        BY <2>1, Parts
      <3>3. SelectionIsShown'
        BY <1>1, <2>4, <3>1, <3>2, SelectionIsKept
      <3>4. PageOK(page', n)
        BY <1>1, <3>1
      <3> QED
        BY <1>4, <1>5, <2>1, <2>4, <3>1, <3>3, <3>4
    <2>5. CASE y.kind # "load"
      <3>1. PICK d \in BOOLEAN :
               /\ PageIs(page', page.activeRuntime, page.timer, d, page.list, NoView)
               /\ d => page.disabled /\ y.kind # "submit"
        <4>1. CASE y.kind = "submit"
          <5>1. page' = ShowError(Enable(page))
            BY <2>1, <4>1
          <5> QED
            BY <2>3, <5>1
        <4>2. CASE y.kind # "submit"
          <5>1. page' = ShowError(page)
            BY <2>1, <2>5, <4>2
          <5> QED
            BY <1>2, <2>2, <4>2, <5>1
        <4> QED
          BY <4>1, <4>2
      <3>2. PageOK(page', n)
        BY <1>1, <3>1 DEF PageOK, PageIs
      <3>3. SelectionIsShown'
        BY <3>1 DEF SelectionIsShown, PageIs
      <3>4. /\ page'.disabled => page.disabled /\ (page.timer => page'.timer)
            /\ y.kind = "submit" => (page'.disabled => page'.timer)
        BY <3>1 DEF PageIs
      <3> QED
        BY <1>4, <1>5, <2>1, <3>2, <3>3, <3>4
    <2> QED
      BY <2>4, <2>5
  <1> QED
    BY <1>6, <1>7, <1>8, <1>9 DEF Receive

----------------------------------------------------------------------------
(* The theorems *)

\* The page that has just been loaded satisfies the invariant.
LEMMA InitStudioInv == Init => StudioInv
  <1> SUFFICES ASSUME Init PROVE StudioInv
    OBVIOUS
  <1> DEFINE n == Len(server)
  <1>2. server \in Seq(Rows) /\ n \in 0..1
    <2>1. CASE server = <<>>
      BY <2>1
    <2>2. ASSUME NEW row \in OlderRuntimes, server = <<row>>
          PROVE  server \in Seq(Rows) /\ n \in 0..1
      <3>1. row \in Rows
        BY OlderRuntimesAreRows
      <3> QED
        BY <2>2, <3>1
    <2> QED
      BY <2>1, <2>2 DEF Init
  <1>3. /\ MaxRuntimes \in Nat /\ MaxRuntimes >= 1 /\ n <= MaxRuntimes
        /\ MaxEvents \in Nat /\ MaxCommits \in Nat /\ MaxFaults \in Nat /\ 0 \in 0..MaxRuntimes /\ 0 \in 0..n
    BY <1>2, BoundsAreNatural
  <1>4. events \in 0..MaxEvents /\ commits \in 0..MaxCommits /\ faults \in 0..MaxFaults
    BY <1>3 DEF Init
  <1>5. /\ page \in Pages /\ page.activeRuntime = 0 /\ ~page.timer /\ page.intervals = 0
        /\ ~page.disabled /\ page.list = {} /\ page.shown = NoView
    BY <1>3 DEF Init, Pages
  <1>6. PageOK(page, n)
    BY <1>3, <1>5 DEF PageOK
  <1>7. LockHasReason /\ SelectionIsShown
    BY <1>5 DEF LockHasReason, SelectionIsShown
  <1> DEFINE x == NewHandler("load", "list", 0)
  <1>8. HandlerIs(x, "load", "list", 0, <<>>, FALSE)
    BY <1>3, HandlerSteps DEF HandlerKinds, HandlerStages
  <1>9. \A h \in Handlers : handler[h] = x \/ handler[h] = Idle
    BY DEF Init
  <1>10. handler \in [Handlers -> HandlerRecords \cup {Idle}]
    <2>1. x \in HandlerRecords
      BY <1>8 DEF HandlerIs
    <2> HIDE DEF x
    <2>2. handler = [h \in Handlers |-> handler[h]]
      BY DEF Init
    <2> QED
      BY <1>9, <2>1, <2>2
  <1>11. HandlerOK(x, n)
    BY <1>8 DEF HandlerIs, HandlerOK
  <1> HIDE DEF x
  <1>12. \A h \in Handlers : HandlerOK(handler[h], n)
    BY <1>9, <1>11 DEF HandlerOK
  <1>13. TypeOK
    BY <1>2, <1>3, <1>4, <1>5, <1>10 DEF TypeOK
  <1> QED
    BY <1>6, <1>7, <1>12, <1>13 DEF StudioInv

\* Every step keeps the invariant.
LEMMA StepStudioInv == StudioInv /\ [Next]_vars => StudioInv'
  <1> SUFFICES ASSUME StudioInv, [Next]_vars PROVE StudioInv'
    OBVIOUS
  <1>1. CASE \E h \in Handlers : User(h) \/ Tick(h) \/ Serve(h) \/ Receive(h)
    BY <1>1, BeginStep, ServeStep, ReceiveStep
  <1>2. CASE \E n \in DOMAIN server :
               JobSucceeds(n) \/ JobFails(n) \/ JobRunsAgain(n) \/ AddJob(n)
    BY <1>2, JobsStep
  <1>3. CASE UNCHANGED vars
    BY <1>3 DEF vars, StudioInv, TypeOK, LockHasReason, SelectionIsShown, PageOK, HandlerOK
  <1> QED
    BY <1>1, <1>2, <1>3 DEF Next

\* The invariant holds in every state.
LEMMA StudioInvariant == Spec => []StudioInv
  BY InitStudioInv, StepStudioInv, PTL DEF Spec

\* The type invariant; in particular at most one interval runs, whatever handlers
\* overlap (web_ui.py: pollTimer is cleared before it is set).
THEOREM TypesAreKept == Spec => []TypeOK
  <1>1. StudioInv => TypeOK
    BY DEF StudioInv
  <1> QED
    BY <1>1, StudioInvariant, PTL

\* The submit button is disabled only while a submit is under way or an interval runs,
\* and both enable it.
THEOREM ButtonIsEnabledAgain == Spec => []LockHasReason
  <1>1. StudioInv => LockHasReason
    BY DEF StudioInv
  <1> QED
    BY <1>1, StudioInvariant, PTL

\* Answers that come out of order never leave the page with one runtime selected and
\* another one shown.
THEOREM SelectedRuntimeIsShown == Spec => []SelectionIsShown
  <1>1. StudioInv => SelectionIsShown
    BY DEF StudioInv
  <1> QED
    BY <1>1, StudioInvariant, PTL

\* The panels agree on this view, as PanelsAgree says of the one that is shown.
PanelsAgreeOn(v) ==
    LET tone == ResultTone(v)
    IN /\ tone = ToneOfLabel[ActivityLabel(v)]
       /\ PreviewSource(v) = "final_export" <=> tone = "ok"
       /\ RecentCopy(v) = "Final export ready" <=> tone = "ok"
       /\ ExportStageTone(v) = "ok" <=> tone = "ok"
       /\ "Blocked by failures" \in InspectionCards(v) <=> "open the failure cluster" \in ActionHints(v)
       /\ "Awaiting upstream kickoff" \in InspectionCards(v) <=> "wait or switch" \in ActionHints(v)
       /\ tone = "bad" => RecentCopy(v) = "Needs attention"
       /\ ExportStageTone(v) = "bad" => tone = "bad"
       /\ ~OnlyColumnsFail(v) =>
             /\ RecentCopy(v) = "Needs attention" <=> tone = "bad"
             /\ RecentCopy(v) = "Rendering now" <=> tone = "warn"
             /\ ExportStageTone(v) = tone

\* Whatever a row's columns report of its jobs, the panels agree on its view.
LEMMA PanelsOfView ==
    ASSUME NEW v \in Views
    PROVE  PanelsAgreeOn(v)
  <1>1. v.blamed \subseteq {"compile_status", "last_error"}
    BY DEF Views
  <1>2. /\ FailureCluster(v) # {} <=> "failed" \in v.jobs \/ v.blamed # {}
        /\ HasFailure(v) => FailureCluster(v) # {}
        /\ ~OnlyColumnsFail(v) => (FailureCluster(v) # {} <=> HasFailure(v))
        /\ "failed" \in v.jobs => HasFailure(v)
        /\ ~OnlyColumnsFail(v) => (HasFailure(v) <=> "failed" \in v.jobs)
    BY <1>1 DEF FailureCluster, HasFailure, OnlyColumnsFail
  <1>3. /\ HasExport(v) => HasMedia(v)
        /\ HasExport(v) \in BOOLEAN /\ HasFailure(v) \in BOOLEAN /\ HasActiveJobs(v) \in BOOLEAN
    BY DEF HasExport, HasMedia, HasFailure, HasActiveJobs
  <1>4. ResultTone(v) = IF HasExport(v) THEN "ok" ELSE IF HasFailure(v) THEN "bad"
                        ELSE IF HasActiveJobs(v) THEN "warn" ELSE "neutral"
    BY <1>3 DEF ResultTone
  <1>5. /\ ToneOfLabel["Ready to review"] = "ok" /\ ToneOfLabel["Needs attention"] = "bad"
        /\ ToneOfLabel["Rendering now"] = "warn"
        /\ ToneOfLabel["Intermediate outputs"] = "neutral" /\ ToneOfLabel["Awaiting output"] = "neutral"
    BY DEF ToneOfLabel
  <1>6. ResultTone(v) = ToneOfLabel[ActivityLabel(v)]
    BY <1>4, <1>5 DEF ActivityLabel
  <1>7. PreviewSource(v) = "final_export" <=> ResultTone(v) = "ok"
    BY <1>4 DEF PreviewSource
  <1>8. /\ RecentCopy(v) = "Final export ready" <=> ResultTone(v) = "ok"
        /\ ResultTone(v) = "bad" => RecentCopy(v) = "Needs attention"
    BY <1>2, <1>4 DEF RecentCopy
  <1>9. /\ ExportStageTone(v) = "ok" <=> ResultTone(v) = "ok"
        /\ ExportStageTone(v) = "bad" => ResultTone(v) = "bad"
    BY <1>2, <1>4 DEF ExportStageTone
  <1>10. "Blocked by failures" \in InspectionCards(v) <=> "open the failure cluster" \in ActionHints(v)
    BY DEF InspectionCards, ActionHints
  <1>11. "Awaiting upstream kickoff" \in InspectionCards(v) <=> "wait or switch" \in ActionHints(v)
    BY <1>3 DEF InspectionCards, ActionHints
  <1>12. ASSUME ~OnlyColumnsFail(v)
         PROVE  /\ RecentCopy(v) = "Needs attention" <=> ResultTone(v) = "bad"
                /\ RecentCopy(v) = "Rendering now" <=> ResultTone(v) = "warn"
                /\ ExportStageTone(v) = ResultTone(v)
    <2>1. (FailureCluster(v) # {} <=> HasFailure(v)) /\ (HasFailure(v) <=> "failed" \in v.jobs)
      BY <1>2, <1>12
    <2>2. /\ RecentCopy(v) = "Needs attention" <=> ResultTone(v) = "bad"
          /\ RecentCopy(v) = "Rendering now" <=> ResultTone(v) = "warn"
      BY <1>4, <2>1 DEF RecentCopy
    <2>3. ExportStageTone(v) = ResultTone(v)
      BY <1>4, <2>1 DEF ExportStageTone
    <2> QED
      BY <2>2, <2>3
  <1> QED
    BY <1>6, <1>7, <1>8, <1>9, <1>10, <1>11, <1>12 DEF PanelsAgreeOn

\* The panels that each classify the shown view on their own agree, except for the result,
\* the list's copy and the export stage of a runtime whose columns alone report a failure.
THEOREM PanelsTellTheSame == Spec => []PanelsAgree
  <1>1. StudioInv => PanelsAgree
    <2> SUFFICES ASSUME StudioInv, page.shown # NoView PROVE PanelsAgree
      BY DEF PanelsAgree
    <2>1. page.shown \in Views
      BY DEF StudioInv, TypeOK, Pages
    <2>2. PanelsAgreeOn(page.shown)
      BY <2>1, PanelsOfView
    <2> QED
      BY <2>2 DEF PanelsAgree, PanelsAgreeOn
  <1> QED
    BY <1>1, StudioInvariant, PTL

=============================================================================
