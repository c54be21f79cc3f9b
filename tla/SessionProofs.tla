---------------------------- MODULE SessionProofs ----------------------------
(***************************************************************************)
(* What holds of the browser's session for every number of tabs, addresses *)
(* and passwords, and everything users may do.                             *)
(***************************************************************************)
EXTENDS Session, TLAPS, FiniteSetTheorems

USE SessionAssumption

-----------------------------------------------------------------------------
(***************************************************************************)
(* Requests in flight.                                                     *)
(***************************************************************************)
LEMMA ImageIsFinite ==
    ASSUME NEW S, IsFiniteSet(S), NEW f
    PROVE  IsFiniteSet({f[x] : x \in S})
<1> DEFINE T == {f[x] : x \in S}
           g == [x \in S |-> f[x]]
<1>1. g \in Surjection(S, T)
    BY DEF Surjection
<1>2. QED
    BY <1>1, FS_Surjection

LEMMA UnionIsFinite ==
    ASSUME NEW S, NEW T, IsFiniteSet(S), IsFiniteSet(T)
    PROVE  IsFiniteSet(S \cup T)
BY FS_Union

(* There are more numbers than requests, so that one is free.              *)
Unused(n, t, others) == \A r \in others : r.tab = t => r.number # n

LEMMA FreeNumber ==
    ASSUME NEW others, IsFiniteSet(others), NEW t
    PROVE  \E n \in 0 .. Cardinality(others) : Unused(n, t, others)
<1> DEFINE D == 0 .. Cardinality(others)
           f == [n \in D |-> CHOOSE r \in others : r.number = n]
<1>1. IsFiniteSet(D) /\ Cardinality(others) < Cardinality(D)
    <2>1. Cardinality(others) \in Nat
        BY FS_CardinalityType
    <2>2. QED
        BY <2>1, FS_Interval
<1> HIDE DEF D
<1>2. SUFFICES ASSUME \A n \in D : \E r \in others : r.number = n
               PROVE  FALSE
    BY DEF D, Unused
<1>3. \A n \in D : f[n] \in others /\ f[n].number = n
    BY <1>2
<1>4. f \in [D -> others]
    BY <1>3
<1> HIDE DEF f
<1>5. PICK x, y \in D : x # y /\ f[x] = f[y]
    BY <1>1, <1>4, FS_PigeonHole
<1>6. QED
    BY <1>3, <1>5

(* A request carries what its handler needs: a form's has an address and a *)
(* password, the others a token, and a good answer to either a token that  *)
(* was issued.                                                             *)
Good(r) ==
    /\ r \in Request
    /\ r.op \in Forms => r.email \in Emails /\ r.password \in Passwords
    /\ r.op \in {"me", "lists"} => r.token \in 0 .. Len(issued)
    /\ (r.op \in {"me", "login"} /\ r.answer = "ok") => r.token \in 1 .. Len(issued)

(* Who still waits for r is the page that sent it.                         *)
Listens(r) ==
    (r.live /\ r.tab # None) => IF r.op \in Forms THEN page[r.tab] \in FormState
                                ELSE page[r.tab] \in DashboardState

FlightInv == IsFiniteSet(flight) /\ \A r \in flight : Good(r) /\ Listens(r)

TypeInv == TypeOK /\ FlightInv

Ops == {"signup", "login", "me", "lists"}

LEMMA SentIsGood ==
    ASSUME NEW t \in Tabs, NEW op \in Ops, NEW email \in Emails \cup {None},
           NEW password \in Passwords \cup {None}, NEW others, IsFiniteSet(others),
           op \in Forms => email \in Emails /\ password \in Passwords,
           token \in 0 .. Len(issued), issued \in Seq(Emails)
    PROVE  LET r == Sent(t, op, email, password, others)
           IN  /\ Good(r)
               /\ r.tab = t /\ r.op = op /\ r.live /\ r.token = token /\ r.answer = None
<1> DEFINE number == CHOOSE n \in 0 .. Cardinality(others) : Unused(n, t, others)
           s == Sent(t, op, email, password, others)
<1>1. number \in Nat
    <2>1. number \in 0 .. Cardinality(others)
        BY FreeNumber
    <2>2. QED
        BY <2>1
<1>2. s = [number |-> number, tab |-> t, live |-> TRUE, op |-> op, email |-> email,
           password |-> password, token |-> token, answer |-> None]
    BY DEF Sent, Unused
<1> HIDE DEF number, s
<1>3. Len(issued) \in Nat /\ token \in Nat
    OBVIOUS
<1>4. s \in Request
    BY <1>1, <1>2, <1>3 DEF Request, Ops
<1>5. QED
    BY <1>2, <1>4 DEF Good, s

(* A request that is answered, or that its page no longer waits for.       *)
AnsweredAs(r, answer, number) == [r EXCEPT !.answer = answer, !.token = number]

LEMMA AnsweredIsGood ==
    ASSUME NEW r, Good(r), NEW answer \in {"ok", "unauthorized", "failed"},
           NEW number \in Nat \cup {None},
           r.op \in {"me", "lists"} => number \in 0 .. Len(issued'),
           answer = "ok" => number \in 1 .. Len(issued')
    PROVE  LET a == AnsweredAs(r, answer, number)
           IN  /\ Good(a)'
               /\ a.tab = r.tab /\ a.live = r.live /\ a.op = r.op
               /\ a.answer = answer /\ a.token = number
<1> DEFINE b == [r EXCEPT !.answer = answer]
           a == [b EXCEPT !.token = number]
<1>1. r \in Request
    BY DEF Good
<1>2. b \in Request /\ b.tab = r.tab /\ b.live = r.live /\ b.op = r.op
      /\ b.email = r.email /\ b.password = r.password /\ b.answer = answer
    BY <1>1 DEF Request
<1> HIDE DEF b
<1>3. a \in Request /\ a.tab = b.tab /\ a.live = b.live /\ a.op = b.op
      /\ a.email = b.email /\ a.password = b.password /\ a.answer = b.answer
      /\ a.token = number
    BY <1>2 DEF Request
<1>4. a = AnsweredAs(r, answer, number)
    BY DEF b, AnsweredAs
<1> HIDE DEF a
<1>5. Good(a)'
    BY <1>2, <1>3 DEF Good
<1>6. QED
    BY <1>2, <1>3, <1>4, <1>5

Unwatched(r) == [r EXCEPT !.live = FALSE]
Orphaned(r)  == [r EXCEPT !.tab = None]

(* r is what a page that goes has made of q.                               *)
From(q, r) ==
    /\ q.op = r.op /\ q.token = r.token /\ q.answer = r.answer
    /\ r.live => q.live
    /\ r.tab # None => q.tab = r.tab

LEMMA UnwatchedIsGood ==
    ASSUME NEW r, Good(r)
    PROVE  Good(Unwatched(r)) /\ ~Unwatched(r).live /\ From(r, Unwatched(r))
<1> DEFINE d == Unwatched(r)
<1>1. /\ d \in Request /\ ~d.live /\ d.tab = r.tab
      /\ d.op = r.op /\ d.email = r.email /\ d.password = r.password
      /\ d.token = r.token /\ d.answer = r.answer
    BY DEF Unwatched, Good, Request
<1> HIDE DEF d
<1>2. Good(d) /\ From(r, d)
    BY <1>1 DEF Good, From
<1>3. QED
    BY <1>1, <1>2 DEF d

LEMMA OrphanedIsGood ==
    ASSUME NEW r, Good(r)
    PROVE  Good(Orphaned(r)) /\ Orphaned(r).tab = None /\ From(r, Orphaned(r))
<1> DEFINE d == Orphaned(r)
<1>1. /\ d \in Request /\ d.tab = None /\ d.live = r.live
      /\ d.op = r.op /\ d.email = r.email /\ d.password = r.password
      /\ d.token = r.token /\ d.answer = r.answer
    BY DEF Orphaned, Good, Request
<1> HIDE DEF d
<1>2. Good(d) /\ From(r, d)
    BY <1>1 DEF Good, From
<1>3. QED
    BY <1>1, <1>2 DEF d

(* Once the page of t is gone, the others' requests are what they were,    *)
(* and t waits for none.                                                   *)
Deserted(t, others) ==
    /\ IsFiniteSet(others)
    /\ \A r \in others : /\ Good(r)
                         /\ \E q \in flight : From(q, r)
                         /\ \/ r \in flight /\ r.tab # t
                            \/ ~r.live
                            \/ r.tab = None

LEMMA UnheardDeserts ==
    ASSUME FlightInv, NEW t \in Tabs
    PROVE  Deserted(t, Unheard(t))
<1> DEFINE S == {r \in flight : r.tab # t}
           Q == {q \in flight : q.tab = t /\ DoesMore(q)}
           g == [q \in Q |-> Unwatched(q)]
           D == {g[q] : q \in Q}
<1>1. IsFiniteSet(S) /\ IsFiniteSet(Q)
    BY FS_Subset DEF FlightInv
<1>2. Unheard(t) = S \cup {Unwatched(q) : q \in Q}
    BY DEF Unheard, Unwatched
<1>3. \A q \in Q : g[q] = Unwatched(q) /\ q \in flight
    OBVIOUS
<1>4. \A r \in S : r \in flight /\ r.tab # t /\ From(r, r)
    BY DEF From
<1> HIDE DEF S, Q, g
<1>5. Unheard(t) = S \cup D
    BY <1>2, <1>3
<1>6. IsFiniteSet(D)
    BY <1>1, ImageIsFinite
<1>7. \A r \in D : Good(r) /\ ~r.live /\ \E q \in flight : From(q, r)
    BY <1>3, UnwatchedIsGood DEF FlightInv
<1> HIDE DEF D
<1>8. IsFiniteSet(Unheard(t))
    BY <1>1, <1>5, <1>6, UnionIsFinite
<1>9. QED
    BY <1>4, <1>5, <1>7, <1>8 DEF Deserted, FlightInv

LEMMA AbandonedDeserts ==
    ASSUME FlightInv, NEW t \in Tabs
    PROVE  Deserted(t, Abandoned(t))
<1> DEFINE S == {r \in flight : r.tab # t}
           Q == {q \in flight : q.tab = t /\ q.op = "signup" /\ q.answer = None}
           g == [q \in Q |-> Orphaned(q)]
           D == {g[q] : q \in Q}
<1>1. IsFiniteSet(S) /\ IsFiniteSet(Q)
    BY FS_Subset DEF FlightInv
<1>2. Abandoned(t) = S \cup {Orphaned(q) : q \in Q}
    BY DEF Abandoned, Orphaned
<1>3. \A q \in Q : g[q] = Orphaned(q) /\ q \in flight
    OBVIOUS
<1>4. \A r \in S : r \in flight /\ r.tab # t /\ From(r, r)
    BY DEF From
<1> HIDE DEF S, Q, g
<1>5. Abandoned(t) = S \cup D
    BY <1>2, <1>3
<1>6. IsFiniteSet(D)
    BY <1>1, ImageIsFinite
<1>7. \A r \in D : Good(r) /\ r.tab = None /\ \E q \in flight : From(q, r)
    BY <1>3, OrphanedIsGood DEF FlightInv
<1> HIDE DEF D
<1>8. IsFiniteSet(Abandoned(t))
    BY <1>1, <1>5, <1>6, UnionIsFinite
<1>9. QED
    BY <1>4, <1>5, <1>7, <1>8 DEF Deserted, FlightInv

-----------------------------------------------------------------------------
(***************************************************************************)
(* Pages.                                                                  *)
(***************************************************************************)
Pages == {Home} \cup FormState \cup DashboardState

LEMMA PageKinds ==
    ASSUME TypeOK, NEW t \in Tabs
    PROVE  /\ page[t].at \in Forms <=> page[t] \in FormState
           /\ page[t].at = "dashboard" <=> page[t] \in DashboardState
           /\ page[t].at \in Places
<1>1. page[t] \in Pages
    BY DEF TypeOK, Pages
<1>2. /\ Home.at = "home"
      /\ \A p \in FormState : p.at \in Forms
      /\ \A p \in DashboardState : p.at = "dashboard"
      /\ "home" \notin Forms /\ "dashboard" \notin Forms
    BY DEF Home, FormState, DashboardState, Forms
<1>3. QED
    BY <1>1, <1>2 DEF Pages, Places

(* No page becomes one of another kind.                                    *)
KindsKept ==
    \A t \in Tabs : /\ page[t] \in FormState => page'[t] \in FormState
                    /\ page[t] \in DashboardState => page'[t] \in DashboardState

(* Nothing changes but what forms show.                                    *)
FormsOnly ==
    \A t \in Tabs : page'[t] = page[t] \/ (page[t] \in FormState /\ page'[t] \in FormState)

LEMMA KindsApart == \A p \in FormState : p \notin DashboardState
<1>1. /\ \A p \in FormState : p.at \in Forms
      /\ \A p \in DashboardState : p.at = "dashboard"
      /\ "dashboard" \notin Forms
    BY DEF FormState, DashboardState, Forms
<1>2. QED
    BY <1>1

LEMMA PageMoves ==
    ASSUME TypeOK, NEW t \in Tabs, NEW q,
           \/ page[t] \in FormState /\ q \in FormState
           \/ page[t] \in DashboardState /\ q \in DashboardState,
           page' = [page EXCEPT ![t] = q]
    PROVE  /\ page' \in [Tabs -> Pages] /\ KindsKept
           /\ page'[t] = q /\ \A u \in Tabs \ {t} : page'[u] = page[u]
<1>1. page \in [Tabs -> Pages]
    BY DEF TypeOK, Pages
<1>2. page' \in [Tabs -> Pages]
    BY <1>1 DEF Pages
<1>3. page'[t] = q /\ \A u \in Tabs \ {t} : page'[u] = page[u]
    BY <1>1
<1>4. QED
    BY <1>2, <1>3, KindsApart DEF KindsKept

LEMMA HeardMoves ==
    ASSUME TypeOK, NEW r, Good(r), Listens(r), NEW q,
           (r.live /\ r.tab # None) => IF r.op \in Forms THEN q \in FormState
                                       ELSE q \in DashboardState,
           page' = Heard(r, q)
    PROVE  /\ page' \in [Tabs -> Pages] /\ KindsKept
           /\ \A t \in Tabs : page'[t] = IF r.live /\ t = r.tab THEN q ELSE page[t]
<1>1. CASE r.live /\ r.tab # None
    <2>1. r.tab \in Tabs
        BY <1>1 DEF Good, Request
    <2>2. page' = [page EXCEPT ![r.tab] = q]
        BY <1>1 DEF Heard
    <2>3. QED
        BY <1>1, <2>1, <2>2, PageMoves DEF Listens
<1>2. CASE ~(r.live /\ r.tab # None)
    <2>1. page' = page /\ None \notin Tabs
        BY <1>2 DEF Heard
    <2>2. page' \in [Tabs -> Pages] /\ KindsKept
        BY <2>1 DEF TypeOK, Pages, KindsKept
    <2>3. \A t \in Tabs : ~(r.live /\ t = r.tab)
        BY <1>2, <2>1
    <2>4. QED
        BY <2>1, <2>2, <2>3
<1>3. QED
    BY <1>1, <1>2

-----------------------------------------------------------------------------
(***************************************************************************)
(* What keeps requests good.                                               *)
(***************************************************************************)
Grows == Len(issued) \in Nat /\ Len(issued') \in Nat /\ Len(issued) <= Len(issued')

LEMMA StaysGood ==
    ASSUME NEW r, Good(r), Listens(r), Grows, KindsKept
    PROVE  Good(r)' /\ Listens(r)'
<1>1. Good(r)'
    BY DEF Good, Grows
<1>2. r.tab # None => r.tab \in Tabs
    BY DEF Good, Request
<1>3. QED
    BY <1>1, <1>2 DEF Listens, KindsKept

(* Requests that stay, and one more.                                       *)
LEMMA FlightKept ==
    ASSUME FlightInv, Grows, KindsKept, NEW m, Good(m)', Listens(m)',
           flight' \subseteq flight \cup {m}
    PROVE  FlightInv'
<1>1. IsFiniteSet(flight \cup {m})
    BY FS_AddElement DEF FlightInv
<1>2. IsFiniteSet(flight')
    BY <1>1, FS_Subset
<1>3. QED
    BY <1>2, StaysGood DEF FlightInv

LEMMA FlightShrinks ==
    ASSUME FlightInv, Grows, KindsKept, flight' \subseteq flight
    PROVE  FlightInv'
<1>1. IsFiniteSet(flight')
    BY FS_Subset DEF FlightInv
<1>2. QED
    BY <1>1, StaysGood DEF FlightInv

LEMMA SameGrows == TypeOK /\ UNCHANGED issued => Grows
BY DEF TypeOK, Grows

LEMMA NewPages ==
    /\ \A at \in Forms : NewPage(at) \in FormState
    /\ NewPage("dashboard") \in DashboardState
    /\ NewPage("home") = Home
<1>1. \A at \in Forms : Form(at) \in FormState
    BY DEF Form, FormState
<1>2. NewDashboard \in DashboardState
    BY DEF NewDashboard, DashboardState
<1>3. QED
    BY <1>1, <1>2 DEF NewPage, FreshLayout, Forms

(* Showing a page sends its me(), if it has one.                           *)
LEMMA ShowKeeps ==
    ASSUME TypeInv, NEW t \in Tabs, NEW at \in Places, NEW others, Deserted(t, others),
           Show(t, at, others), UNCHANGED <<issued, token>>
    PROVE  /\ FlightInv'
           /\ page' \in [Tabs -> Pages]
           /\ page'[t] = NewPage(at) /\ \A u \in Tabs \ {t} : page'[u] = page[u]
           /\ going' \in [Tabs -> Places \cup {None}]
           /\ swapped' \in SUBSET Tabs
<1>1. /\ page' = [page EXCEPT ![t] = NewPage(at)]
      /\ going' = [going EXCEPT ![t] = Redirect(at)]
      /\ flight' = Asking(t, at, others)
      /\ swapped' = swapped \ {t}
    BY DEF Show
<1>2. page \in [Tabs -> Pages] /\ going \in [Tabs -> Places \cup {None}] /\ swapped \subseteq Tabs
    BY DEF TypeInv, TypeOK, Pages
<1>3. NewPage(at) \in Pages
    BY NewPages DEF Places, Pages
<1>4. Redirect(at) \in Places \cup {None}
    BY DEF Redirect, Places, Forms
<1>5. /\ page' \in [Tabs -> Pages]
      /\ page'[t] = NewPage(at) /\ \A u \in Tabs \ {t} : page'[u] = page[u]
    BY <1>1, <1>2, <1>3
<1>6. ASSUME NEW r \in others
      PROVE  Good(r)' /\ Listens(r)'
    <2>1. Good(r) /\ (r.tab # None => r.tab \in Tabs)
        BY <1>6 DEF Deserted, Good, Request
    <2>2. Good(r)'
        BY <2>1 DEF Good
    <2>3. CASE r \in flight /\ r.tab # t
        BY <1>5, <2>1, <2>2, <2>3 DEF TypeInv, FlightInv, Listens
    <2>4. CASE ~r.live \/ r.tab = None
        BY <2>2, <2>4 DEF Listens
    <2>5. QED
        BY <1>6, <2>3, <2>4 DEF Deserted
<1>7. CASE flight' = others
    BY <1>1, <1>2, <1>4, <1>5, <1>6, <1>7 DEF Deserted, FlightInv
<1>8. CASE at = "dashboard" /\ flight' = Send(t, "me", None, None, others)
    <2>0. PICK m : m = Sent(t, "me", None, None, others)
        OBVIOUS
    <2>1. /\ token \in 0 .. Len(issued) /\ issued \in Seq(Emails)
          /\ IsFiniteSet(others) /\ "me" \notin Forms
        BY DEF TypeInv, TypeOK, Deserted, Forms
    <2>2. Good(m) /\ m.tab = t /\ m.op = "me"
        BY <2>0, <2>1, SentIsGood DEF Ops
    <2>3. flight' = others \cup {m}
        BY <1>8, <2>0 DEF Send
    <2>4. Good(m)' /\ Listens(m)'
        BY <1>5, <1>8, <2>1, <2>2, NewPages DEF Good, Listens
    <2>5. IsFiniteSet(flight')
        BY <2>1, <2>3, FS_AddElement
    <2>6. FlightInv'
        BY <1>6, <2>3, <2>4, <2>5 DEF FlightInv
    <2>7. QED
        BY <1>1, <1>2, <1>4, <1>5, <2>6
<1>9. QED
    BY <1>1, <1>7, <1>8 DEF Asking

(* A page sends another request.                                           *)
LEMMA SendKeeps ==
    ASSUME TypeInv, KindsKept, UNCHANGED <<issued, token>>,
           NEW t \in Tabs, NEW op \in Ops, NEW email \in Emails \cup {None},
           NEW password \in Passwords \cup {None},
           op \in Forms => email \in Emails /\ password \in Passwords,
           IF op \in Forms THEN page[t] \in FormState ELSE page[t] \in DashboardState,
           flight' = Send(t, op, email, password, flight)
    PROVE  FlightInv'
<1>0. PICK m : m = Sent(t, op, email, password, flight)
    OBVIOUS
<1>1. token \in 0 .. Len(issued) /\ issued \in Seq(Emails) /\ IsFiniteSet(flight) /\ Grows
    BY SameGrows DEF TypeInv, TypeOK, FlightInv
<1>2. Good(m) /\ m.tab = t /\ m.op = op
    BY <1>0, <1>1, SentIsGood
<1>3. flight' = flight \cup {m}
    BY <1>0 DEF Send
<1>4. Listens(m)
    BY <1>2 DEF Listens
<1>5. Good(m)' /\ Listens(m)'
    BY <1>1, <1>2, <1>4, StaysGood
<1>6. QED
    BY <1>1, <1>3, <1>5, FlightKept DEF TypeInv

(* A request is answered.                                                  *)
LEMMA AnswerKeeps ==
    ASSUME TypeInv, Grows, UNCHANGED page, NEW r \in flight,
           NEW answer \in {"ok", "unauthorized", "failed"},
           NEW number \in Nat \cup {None},
           r.op \in {"me", "lists"} => number \in 0 .. Len(issued'),
           answer = "ok" => number \in 1 .. Len(issued'),
           Answered(r, answer, number)
    PROVE  FlightInv'
<1> DEFINE a == AnsweredAs(r, answer, number)
<1>1. Good(r) /\ Listens(r)
    BY DEF TypeInv, FlightInv
<1>2. Good(a)' /\ a.tab = r.tab /\ a.live = r.live /\ a.op = r.op
    BY <1>1, AnsweredIsGood
<1>3. flight' = (flight \ {r}) \cup {a}
    BY DEF Answered, AnsweredAs
<1> HIDE DEF a
<1>4. Listens(a)'
    BY <1>1, <1>2 DEF Listens
<1>5. KindsKept
    BY DEF KindsKept
<1>6. QED
    BY <1>2, <1>3, <1>4, <1>5, FlightKept DEF TypeInv

-----------------------------------------------------------------------------
(***************************************************************************)
(* Type correctness.                                                       *)
(***************************************************************************)
LEMMA BusyPage ==
    ASSUME NEW p \in FormState, NEW busy \in BOOLEAN
    PROVE  [p EXCEPT !.busy = busy] \in FormState
BY DEF FormState

(* What me(), the lists, and the way to another page and back make of a    *)
(* dashboard.                                                              *)
ReadyAs(p, user)           == [p EXCEPT !.ready = TRUE, !.user = user]
OverviewAs(p, shown, rows) == [p EXCEPT !.overview = shown, !.rows = rows]

LEMMA ReadyPage ==
    ASSUME NEW p \in DashboardState, NEW user \in Emails \cup {None}
    PROVE  LET q == ReadyAs(p, user)
           IN  /\ q \in DashboardState
               /\ q.user = user /\ q.overview = p.overview /\ q.rows = p.rows
<1> DEFINE a == [p EXCEPT !.ready = TRUE]
           q == [a EXCEPT !.user = user]
<1>1. a \in DashboardState /\ a.overview = p.overview /\ a.rows = p.rows
    BY DEF DashboardState
<1> HIDE DEF a
<1>2. q \in DashboardState /\ q.user = user /\ q.overview = a.overview /\ q.rows = a.rows
    BY <1>1 DEF DashboardState
<1>3. q = ReadyAs(p, user)
    BY DEF a, ReadyAs
<1> HIDE DEF q
<1>4. QED
    BY <1>1, <1>2, <1>3

OverviewOf(q, p, shown, rows) ==
    /\ q \in DashboardState
    /\ q.user = p.user /\ q.overview = shown /\ q.rows = rows

LEMMA OverviewPage ==
    ASSUME NEW p \in DashboardState, NEW shown \in {"absent", "loading", "shown", "failed"},
           NEW rows \in Emails \cup {None}
    PROVE  OverviewOf(OverviewAs(p, shown, rows), p, shown, rows)
<1> DEFINE a == [p EXCEPT !.overview = shown]
           b == [a EXCEPT !.rows = rows]
<1>1. a \in DashboardState /\ a.overview = shown /\ a.user = p.user
    BY DEF DashboardState
<1> HIDE DEF a
<1>2. /\ b \in DashboardState /\ b.rows = rows
      /\ b.user = a.user /\ b.overview = a.overview
    BY <1>1 DEF DashboardState
<1>3. b = OverviewAs(p, shown, rows)
    BY DEF a, OverviewAs
<1> HIDE DEF b
<1>4. QED
    BY <1>1, <1>2, <1>3 DEF OverviewOf

LEMMA IssuedTo ==
    ASSUME TypeOK, NEW n \in 1 .. Len(issued)
    PROVE  issued[n] \in Emails
BY DEF TypeOK

(* A request of a form is received by a form.                              *)
LEMMA FormHears ==
    ASSUME TypeInv, UNCHANGED issued, NEW r \in flight, r.op \in Forms, flight' \subseteq flight,
           page' = Heard(r, [page[r.tab] EXCEPT !.busy = FALSE])
    PROVE  page' \in [Tabs -> Pages] /\ KindsKept /\ FlightInv' /\ FormsOnly
<1>1. TypeOK /\ Good(r) /\ Listens(r) /\ Grows
    BY SameGrows DEF TypeInv, FlightInv
<1>2. PICK q : q = [page[r.tab] EXCEPT !.busy = FALSE]
    OBVIOUS
<1>3. ((r.live /\ r.tab # None) => q \in FormState) /\ page' = Heard(r, q)
    BY <1>1, <1>2, BusyPage DEF Listens
<1>4. /\ page' \in [Tabs -> Pages] /\ KindsKept
      /\ \A t \in Tabs : page'[t] = IF r.live /\ t = r.tab THEN q ELSE page[t]
    BY <1>1, <1>3, HeardMoves
<1>5. FormsOnly
    <2>1. \A t \in Tabs : (r.live /\ t = r.tab) => page[t] \in FormState /\ q \in FormState
        BY <1>1, <1>3 DEF Listens
    <2>2. QED
        BY <1>4, <2>1 DEF FormsOnly
<1>6. QED
    BY <1>1, <1>4, <1>5, FlightShrinks DEF TypeInv

LEMMA LoginReceived ==
    ASSUME TypeInv, NEW r \in flight, ReceiveLogin(r), UNCHANGED issued
    PROVE  /\ page' \in [Tabs -> Pages] /\ FlightInv'
           /\ token' \in 0 .. Len(issued)
           /\ going' \in [Tabs -> Places \cup {None}]
           /\ swapped' \in SUBSET Tabs
           /\ FormsOnly
<1>1. /\ Good(r) /\ r.op = "login" /\ r.op \in Forms
      /\ token \in 0 .. Len(issued) /\ Len(issued) \in Nat
      /\ going \in [Tabs -> Places \cup {None}] /\ swapped \subseteq Tabs
    BY DEF ReceiveLogin, TypeInv, TypeOK, FlightInv, Forms
<1>2. page' \in [Tabs -> Pages] /\ FlightInv' /\ FormsOnly
    BY <1>1, FormHears DEF ReceiveLogin
<1>3. token' \in 0 .. Len(issued)
    BY <1>1 DEF ReceiveLogin, LoggedIn, Good
<1>4. going' \in [Tabs -> Places \cup {None}] /\ swapped' \in SUBSET Tabs
    BY <1>1 DEF ReceiveLogin, Places
<1>5. QED
    BY <1>2, <1>3, <1>4

LEMMA SignupReceived ==
    ASSUME TypeInv, UNCHANGED <<issued, token>>, NEW r \in flight, r.op = "signup", NEW answer,
           ReceiveSignup(r, answer)
    PROVE  page' \in [Tabs -> Pages] /\ FlightInv' /\ FormsOnly
<1>1. Good(r) /\ Listens(r) /\ r.op \in Forms /\ Grows
    BY SameGrows DEF TypeInv, FlightInv, Forms
<1>2. CASE answer = "ok" /\ r.tab # None
    <2>1. PICK m : m = Sent(r.tab, "login", r.email, r.password, flight \ {r})
        OBVIOUS
    <2>2. /\ r.tab \in Tabs /\ r.live \in BOOLEAN
          /\ r.email \in Emails /\ r.password \in Passwords
          /\ IsFiniteSet(flight \ {r})
          /\ token \in 0 .. Len(issued) /\ issued \in Seq(Emails)
        BY <1>1, <1>2, FS_RemoveElement DEF Good, Request, TypeInv, TypeOK, FlightInv
    <2>3. Good(m) /\ m.tab = r.tab /\ m.op = "login"
        BY <2>1, <2>2, SentIsGood DEF Ops
    <2>4. PICK n : n = [m EXCEPT !.live = r.live]
        OBVIOUS
    <2>5. /\ n \in Request
          /\ n.live = r.live /\ n.tab = m.tab /\ n.op = m.op /\ n.email = m.email
          /\ n.password = m.password /\ n.token = m.token /\ n.answer = m.answer
        BY <2>2, <2>3, <2>4 DEF Good, Request
    <2>6. Good(n)
        BY <2>3, <2>5 DEF Good
    <2>7. page' = page /\ flight' = (flight \ {r}) \cup {n}
        BY <1>2, <2>1, <2>4 DEF ReceiveSignup
    <2>8. Listens(n)
        BY <1>1, <2>3, <2>5 DEF Listens, Forms
    <2>9. KindsKept
        BY <2>7 DEF KindsKept
    <2>10. Good(n)' /\ Listens(n)'
        BY <1>1, <2>6, <2>8, <2>9, StaysGood
    <2>11. FlightInv'
        BY <1>1, <2>7, <2>9, <2>10, FlightKept DEF TypeInv
    <2>12. QED
        BY <2>7, <2>11 DEF TypeInv, TypeOK, Pages, FormsOnly
<1>3. CASE ~(answer = "ok" /\ r.tab # None)
    BY <1>1, <1>3, FormHears DEF ReceiveSignup
<1>4. QED
    BY <1>2, <1>3

LEMMA MeReceived ==
    ASSUME TypeInv, NEW r \in flight, ReceiveMe(r), UNCHANGED issued
    PROVE  /\ page' \in [Tabs -> Pages] /\ FlightInv'
           /\ token' \in 0 .. Len(issued)
           /\ going' \in [Tabs -> Places \cup {None}]
           /\ \A t \in Tabs :
                 page'[t] = IF r.live /\ t = r.tab
                            THEN ReadyAs(page[t], IF r.answer = "ok" THEN issued[r.token]
                                                  ELSE page[t].user)
                            ELSE page[t]
<1>1. /\ TypeOK /\ Good(r) /\ Listens(r) /\ Grows /\ r.op = "me" /\ r.op \notin Forms
      /\ token \in 0 .. Len(issued) /\ Len(issued) \in Nat
      /\ going \in [Tabs -> Places \cup {None}]
    BY SameGrows DEF ReceiveMe, TypeInv, TypeOK, FlightInv, Forms
<1>2. PICK q : q = [page[r.tab] EXCEPT !.ready = TRUE,
                       !.user = IF r.answer = "ok" THEN issued[r.token] ELSE @]
    OBVIOUS
<1>3. ASSUME r.live, r.tab # None
      PROVE  /\ q \in DashboardState
             /\ q = ReadyAs(page[r.tab], IF r.answer = "ok" THEN issued[r.token]
                                         ELSE page[r.tab].user)
    <2>1. page[r.tab] \in DashboardState
        BY <1>1, <1>3 DEF Listens
    <2>2. PICK user : user = IF r.answer = "ok" THEN issued[r.token] ELSE page[r.tab].user
        OBVIOUS
    <2>3. user \in Emails \cup {None}
        BY <1>1, <2>1, <2>2, IssuedTo DEF Good, DashboardState
    <2>4. q = ReadyAs(page[r.tab], user)
        BY <1>2, <2>1, <2>2 DEF ReadyAs, DashboardState
    <2>5. QED
        BY <2>1, <2>2, <2>3, <2>4, ReadyPage
<1>4. /\ page' \in [Tabs -> Pages] /\ KindsKept
      /\ \A t \in Tabs : page'[t] = IF r.live /\ t = r.tab THEN q ELSE page[t]
    BY <1>1, <1>2, <1>3, HeardMoves DEF ReceiveMe
<1>5. FlightInv'
    BY <1>1, <1>4, FlightShrinks DEF TypeInv, ReceiveMe
<1>6. token' \in 0 .. Len(issued) /\ going' \in [Tabs -> Places \cup {None}]
    BY <1>1 DEF ReceiveMe, Cleared, NoToken, Places, Forms
<1>7. \A t \in Tabs : t # None
    OBVIOUS
<1>8. QED
    BY <1>3, <1>4, <1>5, <1>6, <1>7

LEMMA ListsReceived ==
    ASSUME TypeInv, UNCHANGED issued, NEW r \in flight, r.op = "lists",
           NEW answer \in {"ok", "unauthorized", "failed"},
           answer = "ok" => r.token \in 1 .. Len(issued),
           ReceiveLists(r, answer)
    PROVE  /\ page' \in [Tabs -> Pages] /\ FlightInv'
           /\ \A t \in Tabs :
                 page'[t] = IF r.live /\ t = r.tab
                            THEN OverviewAs(page[t], IF answer = "ok" THEN "shown" ELSE "failed",
                                            IF answer = "ok" THEN issued[r.token] ELSE None)
                            ELSE page[t]
<1>1. TypeOK /\ Good(r) /\ Listens(r) /\ Grows /\ r.op \notin Forms
    BY SameGrows DEF TypeInv, FlightInv, Forms
<1>2. PICK shown, rows, q :
        /\ shown = IF answer = "ok" THEN "shown" ELSE "failed"
        /\ rows = IF answer = "ok" THEN issued[r.token] ELSE None
        /\ q = OverviewAs(page[r.tab], shown, rows)
    OBVIOUS
<1>3. rows \in Emails \cup {None} /\ shown \in {"shown", "failed"}
    BY <1>1, <1>2, IssuedTo
<1>4. (r.live /\ r.tab # None) => q \in DashboardState
    BY <1>1, <1>2, <1>3, OverviewPage DEF Listens, OverviewOf
<1>5. page' = Heard(r, q) /\ flight' \subseteq flight
    BY <1>2 DEF ReceiveLists, OverviewAs
<1>6. /\ page' \in [Tabs -> Pages] /\ KindsKept
      /\ \A t \in Tabs : page'[t] = IF r.live /\ t = r.tab THEN q ELSE page[t]
    BY <1>1, <1>4, <1>5, HeardMoves
<1>7. FlightInv'
    BY <1>1, <1>5, <1>6, FlightShrinks DEF TypeInv
<1>8. QED
    BY <1>2, <1>6, <1>7

(* The part of the state that no page and no request is part of.           *)
LEMMA TypeInvFrom ==
    ASSUME FlightInv', page' \in [Tabs -> Pages],
           users' \in [Emails -> SUBSET Passwords], issued' \in Seq(Emails),
           expired' \in 0 .. Len(issued'), token' \in 0 .. Len(issued'),
           going' \in [Tabs -> Places \cup {None}], acts' \in 0 .. MaxActs,
           told' \in SUBSET [email: Emails, password: Passwords], swapped' \in SUBSET Tabs
    PROVE  TypeInv'
<1>1. flight' \in SUBSET Request
    BY DEF FlightInv, Good
<1>2. QED
    BY <1>1 DEF TypeInv, TypeOK, Pages

LEMMA Acts == TypeOK /\ Act => acts' \in 0 .. MaxActs
BY DEF TypeOK, Act

LEMMA UserType ==
    ASSUME TypeInv, UserStep
    PROVE  TypeInv'
<1>0. TypeOK /\ FlightInv
    BY DEF TypeInv
<1>1. ASSUME NEW t \in Tabs, Reload(t)
      PROVE  TypeInv'
    <2>1. Deserted(t, Abandoned(t)) /\ page[t].at \in Places
        BY <1>0, AbandonedDeserts, PageKinds
    <2>2. QED
        BY <1>0, <1>1, <2>1, ShowKeeps, Acts, TypeInvFrom DEF Reload, TypeOK
<1>2. ASSUME NEW t \in Tabs, NEW at \in Places, Follow(t, at)
      PROVE  TypeInv'
    <2>1. FlightInv' /\ page' \in [Tabs -> Pages]
        BY <1>0, <1>2, FlightShrinks, SameGrows DEF Follow, TypeOK, Pages, KindsKept
    <2>2. going' \in [Tabs -> Places \cup {None}]
        BY <1>0, <1>2 DEF Follow, TypeOK
    <2>3. QED
        BY <1>0, <1>2, <2>1, <2>2, Acts, TypeInvFrom DEF Follow, TypeOK
<1>3. ASSUME NEW t \in Tabs, NEW op \in Forms, NEW c \in Credentials,
             page[t].at \in Forms, SubmitTo(t, op, c.email, c.password)
      PROVE  TypeInv'
    <2>1. page[t] \in FormState /\ c.email \in Emails /\ c.password \in Passwords /\ op \in Ops
        BY <1>0, <1>3, PageKinds DEF Ops, Forms
    <2>2. PICK q : q = [page[t] EXCEPT !.busy = TRUE]
        OBVIOUS
    <2>3. q \in FormState
        BY <2>1, <2>2, BusyPage
    <2>4. page' \in [Tabs -> Pages] /\ KindsKept
        BY <1>0, <1>3, <2>1, <2>2, <2>3, PageMoves DEF SubmitTo
    <2>5. FlightInv'
        BY <1>3, <2>1, <2>4, SendKeeps DEF SubmitTo
    <2>6. QED
        BY <1>0, <1>3, <2>4, <2>5, Acts, TypeInvFrom DEF SubmitTo, TypeOK
<1>4. ASSUME NEW t \in Tabs, ReopenOverview(t)
      PROVE  TypeInv'
    <2>1. page[t] \in DashboardState
        BY <1>0, <1>4, PageKinds DEF ReopenOverview
    <2>2. PICK q : q = OverviewAs(page[t], "absent", None)
        OBVIOUS
    <2>3. q \in DashboardState
        BY <2>1, <2>2, OverviewPage DEF OverviewOf
    <2>4. page' = [page EXCEPT ![t] = q] /\ flight' \subseteq flight
        BY <1>4, <2>2 DEF ReopenOverview, OverviewAs
    <2>5. page' \in [Tabs -> Pages] /\ KindsKept
        BY <1>0, <2>1, <2>3, <2>4, PageMoves
    <2>6. FlightInv'
        BY <1>0, <1>4, <2>4, <2>5, FlightShrinks, SameGrows DEF ReopenOverview
    <2>7. QED
        BY <1>0, <1>4, <2>5, <2>6, Acts, TypeInvFrom DEF ReopenOverview, TypeOK
<1>5. ASSUME NEW t \in Tabs, Logout(t)
      PROVE  TypeInv'
    <2>1. FlightInv' /\ page' \in [Tabs -> Pages]
        BY <1>0, <1>5, FlightShrinks, SameGrows DEF Logout, TypeOK, Pages, KindsKept
    <2>2. going' \in [Tabs -> Places \cup {None}] /\ token' \in 0 .. Len(issued)
        BY <1>0, <1>5 DEF Logout, TypeOK, NoToken, Places
    <2>3. QED
        BY <1>0, <1>5, <2>1, <2>2, Acts, TypeInvFrom DEF Logout, TypeOK
<1>6. QED
    BY <1>1, <1>2, <1>3, <1>4, <1>5 DEF UserStep, SubmitLogin, SubmitSignup, Forms

(* A log-in that succeeds issues a token that it is the first to have.     *)
LEMMA LoginIssues ==
    ASSUME TypeInv, NEW r \in flight, r.op = "login", issued' = Append(issued, r.email)
    PROVE  /\ issued' \in Seq(Emails) /\ Grows
           /\ Len(issued') = Len(issued) + 1 /\ Len(issued') \in 1 .. Len(issued')
           /\ \A n \in 1 .. Len(issued) : issued'[n] = issued[n]
<1>1. r.email \in Emails /\ issued \in Seq(Emails)
    BY DEF TypeInv, TypeOK, FlightInv, Good, Forms
<1>2. QED
    BY <1>1 DEF Grows

LEMMA ServeType ==
    ASSUME TypeInv, NEW r \in flight, Serve(r)
    PROVE  TypeInv'
<1>0. /\ TypeOK /\ FlightInv /\ Good(r)
      /\ issued \in Seq(Emails) /\ Len(issued) \in Nat
      /\ token \in 0 .. Len(issued) /\ expired \in 0 .. Len(issued)
    BY DEF TypeInv, FlightInv, TypeOK
<1>1. UNCHANGED <<expired, token, going, acts, swapped>>
    BY DEF Serve
<1>2. CASE ServeSignup(r)
    <2>1. page' \in [Tabs -> Pages] /\ FlightInv'
        BY <1>1, <1>2, SignupReceived DEF ServeSignup
    <2>2. r.email \in Emails /\ r.password \in Passwords
        BY <1>0, <1>2 DEF ServeSignup, Good, Forms
    <2>3. users' \in [Emails -> SUBSET Passwords]
        BY <1>0, <1>2, <2>2 DEF ServeSignup, TypeOK
    <2>4. told' \in SUBSET [email: Emails, password: Passwords]
        BY <1>0, <1>2, <2>2 DEF ServeSignup, TypeOK
    <2>5. QED
        BY <1>0, <1>1, <1>2, <2>1, <2>3, <2>4, TypeInvFrom DEF ServeSignup, TypeOK
<1>3. CASE ServeLogin(r)
    <2>1. r.op = "login" /\ UNCHANGED <<users, page, told>>
        BY <1>3 DEF ServeLogin
    <2>2. CASE issued' = Append(issued, r.email) /\ Answered(r, "ok", Len(issued'))
        <3>1. PICK number : number = Len(issued')
            OBVIOUS
        <3>2. /\ issued' \in Seq(Emails) /\ Grows /\ Len(issued') = Len(issued) + 1
              /\ number \in Nat /\ number \in 1 .. Len(issued')
            BY <2>1, <2>2, <3>1, LoginIssues DEF Grows
        <3>3. FlightInv'
            BY <2>1, <2>2, <3>1, <3>2, AnswerKeeps
        <3>4. QED
            BY <1>0, <1>1, <2>1, <3>2, <3>3, TypeInvFrom DEF TypeOK, Pages
    <2>3. CASE issued' = issued /\ Answered(r, "unauthorized", None)
        <3>1. FlightInv'
            BY <1>0, <2>1, <2>3, AnswerKeeps, SameGrows
        <3>2. QED
            BY <1>0, <1>1, <2>1, <2>3, <3>1, TypeInvFrom DEF TypeOK, Pages
    <2>4. QED
        BY <1>3, <2>2, <2>3 DEF ServeLogin
<1>4. ASSUME r.op \in {"me", "lists"}
      PROVE  /\ r.token \in Nat /\ r.token \in 0 .. Len(issued)
             /\ JWTAuth(r) \in {"ok", "unauthorized"}
             /\ JWTAuth(r) = "ok" => r.token \in 1 .. Len(issued)
    BY <1>0, <1>4 DEF Good, JWTAuth, Valid, NoToken
<1>5. CASE ServeMe(r)
    <2>1. r.op = "me" /\ Answered(r, JWTAuth(r), r.token) /\ UNCHANGED <<users, issued, page, told>>
        BY <1>5 DEF ServeMe
    <2>2. PICK answer, number : answer = JWTAuth(r) /\ number = r.token
        OBVIOUS
    <2>3. FlightInv'
        BY <1>0, <1>4, <2>1, <2>2, AnswerKeeps, SameGrows
    <2>4. QED
        BY <1>0, <1>1, <2>1, <2>3, TypeInvFrom DEF TypeOK, Pages
<1>6. CASE ServeLists(r)
    <2>1. page' \in [Tabs -> Pages] /\ FlightInv'
        BY <1>4, <1>6, ListsReceived DEF ServeLists
    <2>2. QED
        BY <1>0, <1>1, <1>6, <2>1, TypeInvFrom DEF ServeLists, TypeOK
<1>7. CASE Fail(r)
    <2>1. CASE r.op = "signup" /\ ReceiveSignup(r, "failed")
        <3>1. page' \in [Tabs -> Pages] /\ FlightInv'
            BY <1>1, <1>7, <2>1, SignupReceived DEF Fail
        <3>2. QED
            BY <1>0, <1>1, <1>7, <3>1, TypeInvFrom DEF Fail, TypeOK
    <2>2. CASE r.op = "lists" /\ ReceiveLists(r, "failed")
        <3>1. page' \in [Tabs -> Pages] /\ FlightInv'
            BY <1>7, <2>2, ListsReceived DEF Fail
        <3>2. QED
            BY <1>0, <1>1, <1>7, <3>1, TypeInvFrom DEF Fail, TypeOK
    <2>3. CASE page' = page /\ \/ r.op = "me" /\ Answered(r, "failed", r.token)
                               \/ r.op = "login" /\ Answered(r, "failed", None)
        <3>1. PICK number : number = IF r.op = "me" THEN r.token ELSE None
            OBVIOUS
        <3>2. Answered(r, "failed", number) /\ number \in Nat \cup {None}
              /\ (r.op \in {"me", "lists"} => number \in 0 .. Len(issued))
            BY <1>4, <2>3, <3>1
        <3>3. FlightInv'
            BY <1>0, <1>7, <2>3, <3>2, AnswerKeeps, SameGrows DEF Fail
        <3>4. QED
            BY <1>0, <1>1, <1>7, <2>3, <3>3, TypeInvFrom DEF Fail, TypeOK, Pages
    <2>4. QED
        BY <1>7, <2>1, <2>2, <2>3 DEF Fail
<1>8. QED
    BY <1>2, <1>3, <1>5, <1>6, <1>7 DEF Serve

LEMMA TypeStep == TypeInv /\ [Next]_vars => TypeInv'
<1> SUFFICES ASSUME TypeInv, [Next]_vars
             PROVE  TypeInv'
    OBVIOUS
<1>0. TypeOK /\ FlightInv
    BY DEF TypeInv
<1>1. CASE UserStep
    BY <1>1, UserType
<1>2. ASSUME NEW t \in Tabs, Arrive(t)
      PROVE  TypeInv'
    <2>1. CASE Show(t, going[t], Unheard(t))
        <3>1. Deserted(t, Unheard(t)) /\ going[t] \in Places
            BY <1>0, <1>2, UnheardDeserts DEF Arrive, TypeOK
        <3>2. QED
            BY <1>0, <1>2, <2>1, <3>1, ShowKeeps, TypeInvFrom DEF Arrive, TypeOK
    <2>2. CASE going' = [going EXCEPT ![t] = None] /\ UNCHANGED <<page, flight, swapped>>
        <3>1. FlightInv' /\ page' \in [Tabs -> Pages]
            BY <1>0, <1>2, <2>2, FlightShrinks, SameGrows DEF Arrive, TypeOK, Pages, KindsKept
        <3>2. going' \in [Tabs -> Places \cup {None}]
            BY <1>0, <2>2 DEF TypeOK
        <3>3. QED
            BY <1>0, <1>2, <2>2, <3>1, <3>2, TypeInvFrom DEF Arrive, TypeOK
    <2>3. QED
        BY <1>2, <2>1, <2>2 DEF Arrive
<1>3. ASSUME NEW t \in Tabs, MountOverview(t)
      PROVE  TypeInv'
    <2>1. page[t] \in DashboardState
        BY <1>0, <1>3, PageKinds DEF MountOverview
    <2>2. PICK q : q = [page[t] EXCEPT !.overview = "loading"]
        OBVIOUS
    <2>3. q \in DashboardState
        BY <2>1, <2>2 DEF DashboardState
    <2>4. page' \in [Tabs -> Pages] /\ KindsKept
        BY <1>0, <1>3, <2>1, <2>2, <2>3, PageMoves DEF MountOverview
    <2>5. FlightInv'
        BY <1>3, <2>1, <2>4, SendKeeps DEF MountOverview, Ops, Forms
    <2>6. QED
        BY <1>0, <1>3, <2>4, <2>5, TypeInvFrom DEF MountOverview, TypeOK
<1>4. ASSUME NEW r \in flight, Serve(r)
      PROVE  TypeInv'
    BY <1>4, ServeType
<1>5. ASSUME NEW r \in flight, Receive(r)
      PROVE  TypeInv'
    <2>1. UNCHANGED <<users, issued, expired, acts, told>>
        BY <1>5 DEF Receive
    <2>2. CASE ReceiveLogin(r)
        BY <1>0, <2>1, <2>2, LoginReceived, TypeInvFrom DEF TypeOK
    <2>3. CASE ReceiveMe(r)
        BY <1>0, <2>1, <2>3, MeReceived, TypeInvFrom DEF ReceiveMe, TypeOK
    <2>4. QED
        BY <1>5, <2>2, <2>3 DEF Receive
<1>6. CASE Expire
    <2>1. FlightInv' /\ page' \in [Tabs -> Pages]
        BY <1>0, <1>6, FlightShrinks, SameGrows DEF Expire, TypeOK, Pages, KindsKept
    <2>2. expired' \in 0 .. Len(issued)
        BY <1>0, <1>6 DEF Expire, TypeOK
    <2>3. QED
        BY <1>0, <1>6, <2>1, <2>2, TypeInvFrom DEF Expire, TypeOK
<1>7. CASE UNCHANGED vars
    <2>1. FlightInv' /\ page' \in [Tabs -> Pages]
        BY <1>0, <1>7, FlightShrinks, SameGrows DEF vars, TypeOK, Pages, KindsKept
    <2>2. QED
        BY <1>0, <1>7, <2>1, TypeInvFrom DEF vars, TypeOK
<1>8. QED
    BY <1>1, <1>2, <1>3, <1>4, <1>5, <1>6, <1>7 DEF Next, Program

LEMMA TypeInvariant == Spec => []TypeInv
<1>1. Init => TypeInv
    <2> SUFFICES ASSUME Init PROVE TypeInv
        OBVIOUS
    <2>1. FlightInv
        BY FS_EmptySet DEF Init, FlightInv
    <2>2. issued \in Seq(Emails) /\ Len(issued) = 1
        BY DEF Init
    <2>3. going \in [Tabs -> Places \cup {None}]
        BY DEF Init, Places, Forms
    <2>4. QED
        BY <2>1, <2>2, <2>3 DEF Init, TypeInv, TypeOK, NoToken
<1>2. QED
    BY <1>1, TypeStep, PTL DEF Spec

(* The pages, their requests and the tokens keep their types: an answer    *)
(* that is received finds the kind of page that waits for it, and the      *)
(* stored token has been issued (layout.tsx:34-42, login/page.tsx:28-34).  *)
THEOREM TypeCorrect == Spec => []TypeOK
<1>1. TypeInv => TypeOK
    BY DEF TypeInv
<1>2. QED
    BY <1>1, TypeInvariant, PTL

-----------------------------------------------------------------------------
(***************************************************************************)
(* Who signed up can log in.  What makes this inductive is that an address *)
(* has one password at most (the table's UNIQUE), and keeps it.            *)
(***************************************************************************)
AccountsInv ==
    /\ \A e \in Emails : \A p, q \in users[e] : p = q
    /\ \A c \in told : c.password \in users[c.email]

LEMMA AccountsStep == TypeInv /\ AccountsInv /\ [Next]_vars => AccountsInv'
<1> SUFFICES ASSUME TypeInv, AccountsInv, [Next]_vars
             PROVE  AccountsInv'
    OBVIOUS
<1>1. ASSUME NEW r \in flight, ServeSignup(r), ~Taken(r.email)
      PROVE  AccountsInv'
    <2>1. /\ r.email \in Emails
          /\ users \in [Emails -> SUBSET Passwords]
          /\ told \in SUBSET [email: Emails, password: Passwords]
        BY <1>1 DEF ServeSignup, TypeInv, TypeOK, FlightInv, Good, Forms
    <2>2. users' = [users EXCEPT ![r.email] = @ \cup {r.password}] /\ users[r.email] = {}
        BY <1>1 DEF ServeSignup, Taken
    <2>3. /\ users'[r.email] = {r.password}
          /\ \A e \in Emails \ {r.email} : users'[e] = users[e]
        BY <2>1, <2>2
    <2>4. told' \subseteq told \cup {[email |-> r.email, password |-> r.password]}
        BY <1>1 DEF ServeSignup
    <2>5. \A c \in told : c.email \in Emails /\ c.email # r.email
        BY <2>1, <2>2 DEF AccountsInv
    <2>6. \A e \in Emails : \A p, q \in users'[e] : p = q
        BY <2>3 DEF AccountsInv
    <2>7. \A c \in told : c.password \in users'[c.email]
        BY <2>3, <2>5 DEF AccountsInv
    <2>8. QED
        BY <2>3, <2>4, <2>6, <2>7 DEF AccountsInv
<1>2. CASE UNCHANGED <<users, told>>
    BY <1>2 DEF AccountsInv
<1>3. QED
    BY <1>1, <1>2
    DEF Next, UserStep, Program, vars, Reload, Follow, SubmitLogin, SubmitSignup, SubmitTo,
        ReopenOverview, Logout, Arrive, MountOverview, Serve, ServeSignup, ServeLogin, ServeMe,
        ServeLists, Fail, Receive, Expire

(* Who was answered 201 to a sign-up can log in with that password         *)
(* (store.go:46-60), however sign-ups of one address meet and whatever     *)
(* fails after them.                                                       *)
THEOREM SignUpLasts == Spec => []SignedUpCanLogIn
<1>1. Init => AccountsInv
    BY DEF Init, AccountsInv
<1>2. TypeInv /\ AccountsInv => SignedUpCanLogIn
    <2> SUFFICES ASSUME TypeInv, AccountsInv, NEW c \in told
                 PROVE  Matches(c.email, c.password)
        BY DEF SignedUpCanLogIn
    <2>1. c.email \in Emails /\ c.password \in users[c.email]
        BY DEF TypeInv, TypeOK, AccountsInv
    <2>2. PICK found : found = CHOOSE p \in users[c.email] : TRUE
        OBVIOUS
    <2>3. found \in users[c.email]
        BY <2>1, <2>2
    <2>4. QED
        BY <2>1, <2>2, <2>3 DEF AccountsInv, Matches
<1>3. QED
    BY <1>1, <1>2, TypeInvariant, AccountsStep, PTL DEF Spec

-----------------------------------------------------------------------------
(***************************************************************************)
(* Where the requests of the next state come from: from this one, or they  *)
(* are new, or have been answered.                                         *)
(***************************************************************************)
Kept(r)     == \E q \in flight : From(q, r)
New(r)      == r.answer = None /\ r.token = token
Answers(r)  ==
    \E q \in flight :
        /\ q.op = r.op /\ q.tab = r.tab /\ q.live = r.live
        /\ r.op \in {"me", "login"}
        /\ r.op = "me" => /\ q.token = r.token
                          /\ r.answer = "unauthorized" => ~Valid(r.token)
Origin(r) == Kept(r) \/ New(r) \/ Answers(r)

LEMMA SubsetOrigins ==
    ASSUME flight' \subseteq flight
    PROVE  \A r \in flight' : Origin(r)
BY DEF Origin, Kept, From

LEMMA SentOrigin ==
    ASSUME NEW t, NEW op, NEW email, NEW password, NEW others
    PROVE  New(Sent(t, op, email, password, others))
BY DEF New, Sent

LEMMA SendOrigins ==
    ASSUME NEW t, NEW op, NEW email, NEW password,
           flight' = Send(t, op, email, password, flight)
    PROVE  \A r \in flight' : Origin(r)
BY SentOrigin DEF Send, Origin, Kept, From

(* And who waits for a request of a page just shown is that page.          *)
LEMMA ShowOrigins ==
    ASSUME NEW t \in Tabs, NEW at, NEW others, Deserted(t, others), Show(t, at, others)
    PROVE  /\ \A r \in flight' : Origin(r)
           /\ \A r \in flight' : (r.live /\ r.tab = t) => r.token = token
<1>1. flight' = others \/ flight' = Send(t, "me", None, None, others)
    BY DEF Show, Asking
<1>2. PICK m : m = Sent(t, "me", None, None, others)
    OBVIOUS
<1>3. flight' \subseteq others \cup {m} /\ New(m)
    BY <1>1, <1>2, SentOrigin DEF Send
<1>4. \A r \in others : Kept(r) /\ ~(r.live /\ r.tab = t)
    BY DEF Deserted, Kept
<1>5. QED
    BY <1>3, <1>4 DEF Origin, New

LEMMA SignupOrigins ==
    ASSUME FlightInv, NEW r \in flight, NEW answer, ReceiveSignup(r, answer)
    PROVE  \A s \in flight' : Origin(s)
<1>1. CASE answer = "ok" /\ r.tab # None
    <2>1. PICK m : m = Sent(r.tab, "login", r.email, r.password, flight \ {r})
        OBVIOUS
    <2>2. PICK n : n = [m EXCEPT !.live = r.live]
        OBVIOUS
    <2>3. New(n)
        BY <2>1, <2>2 DEF New, Sent
    <2>4. flight' = (flight \ {r}) \cup {n}
        BY <1>1, <2>1, <2>2 DEF ReceiveSignup
    <2>5. QED
        BY <2>3, <2>4 DEF Origin, Kept, From
<1>2. CASE ~(answer = "ok" /\ r.tab # None)
    BY <1>2, SubsetOrigins DEF ReceiveSignup
<1>3. QED
    BY <1>1, <1>2

LEMMA AnsweredOrigins ==
    ASSUME FlightInv, NEW r \in flight, NEW answer, NEW number, Answered(r, answer, number),
           r.op \in {"me", "login"},
           r.op = "me" => number = r.token /\ (answer = "unauthorized" => ~Valid(number))
    PROVE  \A s \in flight' : Origin(s)
<1> DEFINE b == [r EXCEPT !.answer = answer]
           a == [b EXCEPT !.token = number]
<1>1. r \in Request
    BY DEF FlightInv, Good
<1>2. /\ DOMAIN b = DOMAIN r
      /\ b.tab = r.tab /\ b.live = r.live /\ b.op = r.op /\ b.answer = answer
    BY <1>1 DEF Request
<1> HIDE DEF b
<1>3. a.tab = b.tab /\ a.live = b.live /\ a.op = b.op /\ a.answer = b.answer /\ a.token = number
    BY <1>1, <1>2 DEF Request
<1>4. flight' = (flight \ {r}) \cup {a}
    BY DEF Answered, b
<1> HIDE DEF a
<1>5. Answers(a)
    BY <1>2, <1>3 DEF Answers
<1>6. QED
    BY <1>4, <1>5 DEF Origin, Kept, From

LEMMA Origins == TypeInv /\ [Next]_vars => \A r \in flight' : Origin(r)
<1> SUFFICES ASSUME TypeInv, [Next]_vars
             PROVE  \A r \in flight' : Origin(r)
    OBVIOUS
<1>0. FlightInv
    BY DEF TypeInv
<1>1. CASE flight' \subseteq flight
    BY <1>1, SubsetOrigins
<1>2. ASSUME NEW t \in Tabs, Reload(t) \/ Arrive(t)
      PROVE  \A r \in flight' : Origin(r)
    <2>1. CASE Show(t, page[t].at, Abandoned(t))
        BY <1>0, <2>1, AbandonedDeserts, ShowOrigins
    <2>2. CASE Show(t, going[t], Unheard(t))
        BY <1>0, <2>2, UnheardDeserts, ShowOrigins
    <2>3. QED
        BY <1>1, <1>2, <2>1, <2>2 DEF Reload, Arrive
<1>3. ASSUME NEW t, NEW op, NEW email, NEW password, SubmitTo(t, op, email, password)
      PROVE  \A r \in flight' : Origin(r)
    BY <1>3, SendOrigins DEF SubmitTo
<1>4. ASSUME NEW t, MountOverview(t)
      PROVE  \A r \in flight' : Origin(r)
    BY <1>4, SendOrigins DEF MountOverview
<1>5. ASSUME NEW r \in flight, Serve(r)
      PROVE  \A s \in flight' : Origin(s)
    <2>1. CASE ServeSignup(r)
        BY <1>0, <2>1, SignupOrigins DEF ServeSignup
    <2>2. CASE ServeLogin(r)
        BY <1>0, <2>2, AnsweredOrigins DEF ServeLogin
    <2>3. CASE ServeMe(r)
        BY <1>0, <2>3, AnsweredOrigins DEF ServeMe, JWTAuth
    <2>4. CASE ServeLists(r)
        BY <1>1, <2>4 DEF ServeLists, ReceiveLists
    <2>5. CASE Fail(r)
        BY <1>0, <1>1, <2>5, SignupOrigins, AnsweredOrigins DEF Fail, ReceiveLists
    <2>6. QED
        BY <1>5, <2>1, <2>2, <2>3, <2>4, <2>5 DEF Serve
<1>6. ASSUME NEW r \in flight, Receive(r)
      PROVE  flight' \subseteq flight
    BY <1>6 DEF Receive, ReceiveLogin, ReceiveMe
<1>7. QED
    BY <1>1, <1>2, <1>3, <1>4, <1>5, <1>6
    DEF Next, UserStep, Program, vars, Follow, SubmitLogin, SubmitSignup, ReopenOverview,
        Logout, Expire

-----------------------------------------------------------------------------
(***************************************************************************)
(* A token that is still good is not thrown away by chance.  A me() that   *)
(* has been refused had a token that was no good then, and never becomes   *)
(* good: tokens expire in the order in which they were issued.             *)
(***************************************************************************)
RefusalsInv == \A r \in flight : (r.op = "me" /\ r.answer = "unauthorized") => ~Valid(r.token)

LEMMA RefusalsStep == TypeInv /\ RefusalsInv /\ [Next]_vars => RefusalsInv'
<1> SUFFICES ASSUME TypeInv, RefusalsInv, [Next]_vars,
                    NEW r \in flight', r.op = "me", r.answer = "unauthorized"
             PROVE  ~Valid(r.token)'
    BY DEF RefusalsInv
<1>1. expired \in Nat /\ expired' \in Nat /\ expired <= expired'
    <2>0. expired \in Nat
        BY DEF TypeInv, TypeOK
    <2>1. expired' = expired \/ expired' = expired + 1
        BY DEF Next, UserStep, Program, vars, Reload, Follow, SubmitLogin,
               SubmitSignup, SubmitTo, ReopenOverview, Logout, Arrive, MountOverview, Serve,
               Receive, Expire
    <2>2. QED
        BY <2>0, <2>1
<1>2. Origin(r) /\ (\A q \in flight : Good(q)) /\ Good(r)'
    BY Origins, TypeStep DEF TypeInv, FlightInv
<1>3. ~New(r)
    BY SessionAssumption DEF New
<1>4. ~Valid(r.token)
    BY <1>2, <1>3 DEF Origin, Kept, From, Answers, RefusalsInv
<1>5. r.token \in Nat
    BY <1>2, TypeStep DEF Good, TypeInv, TypeOK
<1>6. QED
    BY <1>1, <1>4, <1>5 DEF Valid

(* A token that is still good goes by a log-out, or by the refusal of an   *)
(* older one that comes late (layout.tsx:37-42); no failure and no other   *)
(* answer, in whatever order they come, logs anybody out.                  *)
THEOREM GoodTokensStay == Spec => StaysLoggedIn
<1> DEFINE Loses == Valid(token) /\ token' = NoToken
           Reason == \/ \E t \in Tabs : Logout(t)
                     \/ \E r \in flight \ flight' : r.op = "me" /\ r.token < token
<1>1. TypeInv /\ RefusalsInv /\ [Next]_vars => [Loses => Reason]_vars
    <2> SUFFICES ASSUME TypeInv, RefusalsInv, Next, Valid(token), token' = NoToken
                 PROVE  Reason
        BY DEF vars
    <2>0. token # NoToken /\ expired < token /\ token \in Nat /\ expired \in Nat
        BY DEF Valid, TypeInv, TypeOK
    <2>1. ASSUME NEW r \in flight, Receive(r)
          PROVE  Reason
        <3>1. Good(r)
            BY DEF TypeInv, FlightInv
        <3>2. CASE ReceiveLogin(r)
            <4>1. r.op = "login" /\ r.answer = "ok" /\ token' = r.token
                BY <2>0, <3>2 DEF ReceiveLogin, LoggedIn
            <4>2. r.token \in 1 .. Len(issued)
                BY <3>1, <4>1 DEF Good
            <4>3. QED
                BY <4>1, <4>2 DEF NoToken, TypeInv, TypeOK
        <3>3. CASE ReceiveMe(r)
            <4>1. r.op = "me" /\ r.answer = "unauthorized" /\ flight' = flight \ {r}
                BY <2>0, <3>3 DEF ReceiveMe, Refused
            <4>2. r.token \in Nat /\ ~Valid(r.token)
                BY <3>1, <4>1 DEF Good, RefusalsInv, TypeInv, TypeOK
            <4>3. r.token < token
                BY <2>0, <4>2 DEF Valid, NoToken
            <4>4. QED
                BY <4>1, <4>3
        <3>4. QED
            BY <2>1, <3>2, <3>3 DEF Receive
    <2>2. CASE token' = token
        BY <2>0, <2>2
    <2>3. QED
        BY <2>1, <2>2
        DEF Next, UserStep, Program, vars, Reload, Follow, SubmitLogin, SubmitSignup, SubmitTo,
            ReopenOverview, Arrive, MountOverview, Serve, Expire
<1>2. Init => RefusalsInv
    BY DEF Init, RefusalsInv
<1>3. QED
    BY <1>1, <1>2, TypeInvariant, RefusalsStep, PTL DEF Spec, StaysLoggedIn

-----------------------------------------------------------------------------
(***************************************************************************)
(* A dashboard shows one account.  Until a token is stored while it is     *)
(* open, all that it waits for and all that it shows is of one token k,    *)
(* which is also the one that its next request would carry, unless it has  *)
(* been cleared; what is asked without a token is refused.                 *)
(***************************************************************************)
Uses(t, k) ==
    \A r \in flight :
        (r.live /\ r.tab = t /\ r.op \in {"me", "lists"}) => r.token \in {NoToken, k}
Shows(p, k) ==
    /\ p.user # None => k # NoToken /\ p.user = issued[k]
    /\ p.overview = "shown" => k # NoToken /\ p.rows = issued[k]
Owned(t) ==
    \E k \in 0 .. Len(issued) : token \in {NoToken, k} /\ Uses(t, k) /\ Shows(page[t], k)

DashboardInv == \A t \in Tabs : (page[t].at = "dashboard" /\ t \notin swapped) => Owned(t)

LEMMA UsesKept ==
    ASSUME NEW t \in Tabs, NEW k, Uses(t, k), token \in {NoToken, k},
           \A r \in flight' : Origin(r)
    PROVE  Uses(t, k)'
<1> SUFFICES ASSUME NEW r \in flight', r.live, r.tab = t, r.op \in {"me", "lists"}
             PROVE  r.token \in {NoToken, k}
    BY DEF Uses
<1>1. t # None
    OBVIOUS
<1>2. QED
    BY <1>1 DEF Origin, Kept, From, New, Answers, Uses

(* Who a token was issued for stays so.                                    *)
LEMMA IssuedKept ==
    ASSUME TypeInv, [Next]_vars
    PROVE  Grows /\ \A n \in 1 .. Len(issued) : issued'[n] = issued[n]
<1>1. ASSUME NEW r \in flight, ServeLogin(r), issued' = Append(issued, r.email)
      PROVE  Grows /\ \A n \in 1 .. Len(issued) : issued'[n] = issued[n]
    BY <1>1, LoginIssues DEF ServeLogin
<1>2. CASE issued' = issued
    BY <1>2, SameGrows DEF TypeInv
<1>3. QED
    BY <1>1, <1>2
    DEF Next, UserStep, Program, vars, Reload, Follow, SubmitLogin, SubmitSignup, SubmitTo,
        ReopenOverview, Logout, Arrive, MountOverview, Serve, ServeSignup, ServeLogin, ServeMe,
        ServeLists, Fail, Receive, Expire

LEMMA OwnedKept ==
    ASSUME TypeInv, [Next]_vars, NEW t \in Tabs, Owned(t), token' \in {NoToken, token},
           \A k \in 0 .. Len(issued) :
              (Uses(t, k) /\ Shows(page[t], k)) => Shows(page'[t], k)
    PROVE  Owned(t)'
<1>1. PICK k \in 0 .. Len(issued) :
        token \in {NoToken, k} /\ Uses(t, k) /\ Shows(page[t], k)
    BY DEF Owned
<1>2. Uses(t, k)'
    BY <1>1, Origins, UsesKept
<1>3. k \in 0 .. Len(issued') /\ (k # NoToken => issued'[k] = issued[k])
    <2>1. Grows /\ \A n \in 1 .. Len(issued) : issued'[n] = issued[n]
        BY IssuedKept
    <2>2. QED
        BY <2>1 DEF Grows, NoToken
<1>4. Shows(page[t], k)'
    BY <1>1, <1>3 DEF Shows
<1>5. QED
    BY <1>1, <1>2, <1>3, <1>4 DEF Owned

LEMMA FreshShows ==
    ASSUME NEW at \in Places, NewPage(at).at = "dashboard", NEW k
    PROVE  Shows(NewPage(at), k)
<1>1. NewPage(at) = NewDashboard
    <2>1. NewPage(at).at = at
        BY DEF NewPage, Places, Forms, Form, Home, FreshLayout, NewDashboard
    <2>2. QED
        BY <2>1 DEF NewPage, FreshLayout, Forms
<1>2. QED
    BY <1>1 DEF NewDashboard, Shows

(* The dashboard of tab t is mounted.                                      *)
LEMMA ShownOwned ==
    ASSUME TypeInv, NEW t \in Tabs, NEW at \in Places, NEW others, Deserted(t, others),
           Show(t, at, others), UNCHANGED <<issued, token>>, page'[t].at = "dashboard"
    PROVE  Owned(t)'
<1>1. Uses(t, token)'
    BY ShowOrigins DEF Uses
<1>2. page'[t] = NewPage(at)
    BY ShowKeeps
<1>3. Shows(page'[t], token)
    BY <1>2, FreshShows
<1>4. token \in 0 .. Len(issued)
    BY DEF TypeInv, TypeOK
<1>5. Shows(page[t], token)'
    BY <1>3 DEF Shows
<1>6. QED
    BY <1>1, <1>4, <1>5 DEF Owned

LEMMA DashboardStep == TypeInv /\ DashboardInv /\ [Next]_vars => DashboardInv'
<1> SUFFICES ASSUME TypeInv, DashboardInv, [Next]_vars,
                    NEW t \in Tabs, page'[t].at = "dashboard", t \notin swapped'
             PROVE  Owned(t)'
    BY DEF DashboardInv
<1>0. TypeOK /\ FlightInv
    BY DEF TypeInv
<1>1. CASE page'[t] = page[t] /\ token' \in {NoToken, token} /\ t \notin swapped
    BY <1>1, OwnedKept DEF DashboardInv
<1>2. CASE FormsOnly /\ UNCHANGED <<token, swapped>>
    <2>1. page'[t] \in FormState => page'[t].at # "dashboard"
        BY DEF FormState, Forms
    <2>2. page'[t] = page[t]
        BY <1>2, <2>1 DEF FormsOnly
    <2>3. QED
        BY <1>1, <1>2, <2>2
<1>3. ASSUME NEW u \in Tabs, NEW at \in Places, NEW others, Deserted(u, others),
             Show(u, at, others), UNCHANGED <<issued, token>>
      PROVE  Owned(t)'
    <2>1. CASE u = t
        BY <1>3, <2>1, ShownOwned
    <2>2. CASE u # t
        <3>1. page'[t] = page[t] /\ t \notin swapped
            BY <1>3, <2>2, ShowKeeps DEF Show
        <3>2. QED
            BY <1>1, <1>3, <3>1
    <2>3. QED
        BY <2>1, <2>2
<1>4. ASSUME page[t] \in DashboardState, UNCHANGED swapped, token' \in {NoToken, token},
             \A k \in 0 .. Len(issued) :
                (Uses(t, k) /\ Shows(page[t], k)) => Shows(page'[t], k)
      PROVE  Owned(t)'
    <2>1. page[t].at = "dashboard" /\ t \notin swapped
        BY <1>4 DEF DashboardState
    <2>2. QED
        BY <1>4, <2>1, OwnedKept DEF DashboardInv
<1>5. ASSUME NEW u \in Tabs, Reload(u)
      PROVE  Owned(t)'
    <2>1. Deserted(u, Abandoned(u)) /\ page[u].at \in Places
        BY <1>0, AbandonedDeserts, PageKinds
    <2>2. QED
        BY <1>3, <1>5, <2>1 DEF Reload
<1>6. ASSUME NEW u \in Tabs, Arrive(u)
      PROVE  Owned(t)'
    <2>1. CASE Show(u, going[u], Unheard(u))
        <3>1. Deserted(u, Unheard(u)) /\ going[u] \in Places
            BY <1>0, <1>6, UnheardDeserts DEF Arrive, TypeOK
        <3>2. QED
            BY <1>3, <1>6, <2>1, <3>1 DEF Arrive
    <2>2. CASE UNCHANGED <<page, swapped>>
        BY <1>1, <1>6, <2>2 DEF Arrive
    <2>3. QED
        BY <1>6, <2>1, <2>2 DEF Arrive
<1>7. ASSUME NEW u \in Tabs, NEW op, NEW email, NEW password,
             page[u].at \in Forms, SubmitTo(u, op, email, password)
      PROVE  Owned(t)'
    <2>1. page[u] \in FormState
        BY <1>0, <1>7, PageKinds
    <2>2. PICK q : q = [page[u] EXCEPT !.busy = TRUE]
        OBVIOUS
    <2>3. q \in FormState /\ page' = [page EXCEPT ![u] = q]
        BY <1>7, <2>1, <2>2, BusyPage DEF SubmitTo
    <2>4. page'[u] \in FormState /\ \A v \in Tabs \ {u} : page'[v] = page[v]
        BY <1>0, <2>1, <2>3, PageMoves
    <2>5. FormsOnly
        BY <2>1, <2>4 DEF FormsOnly
    <2>6. QED
        BY <1>2, <1>7, <2>5 DEF SubmitTo
<1>8. ASSUME NEW u \in Tabs, page[u] \in DashboardState,
             NEW q \in DashboardState, page' = [page EXCEPT ![u] = q],
             q.user = page[u].user, q.overview # "shown", UNCHANGED <<token, swapped>>
      PROVE  Owned(t)'
    <2>1. page'[u] = q /\ \A v \in Tabs \ {u} : page'[v] = page[v]
        BY <1>0, <1>8, PageMoves
    <2>2. CASE u = t
        <3>1. \A k \in 0 .. Len(issued) : Shows(page[t], k) => Shows(page'[t], k)
            BY <1>8, <2>1, <2>2 DEF Shows
        <3>2. QED
            BY <1>4, <1>8, <2>2, <3>1
    <2>3. CASE u # t
        BY <1>1, <1>8, <2>1, <2>3
    <2>4. QED
        BY <2>2, <2>3
<1>9. ASSUME NEW u \in Tabs, MountOverview(u)
      PROVE  Owned(t)'
    <2>1. page[u] \in DashboardState
        BY <1>0, <1>9, PageKinds DEF MountOverview
    <2>2. PICK q : q = [page[u] EXCEPT !.overview = "loading"]
        OBVIOUS
    <2>3. q \in DashboardState /\ q.user = page[u].user /\ q.overview = "loading"
        BY <2>1, <2>2 DEF DashboardState
    <2>4. page' = [page EXCEPT ![u] = q] /\ UNCHANGED <<token, swapped>>
        BY <1>9, <2>2 DEF MountOverview
    <2>5. QED
        BY <1>8, <2>1, <2>3, <2>4
<1>10. ASSUME NEW u \in Tabs, ReopenOverview(u)
       PROVE  Owned(t)'
    <2>1. page[u] \in DashboardState
        BY <1>0, <1>10, PageKinds DEF ReopenOverview
    <2>2. PICK shown, q : shown = "absent" /\ q = OverviewAs(page[u], shown, None)
        OBVIOUS
    <2>3. q \in DashboardState /\ q.user = page[u].user /\ q.overview = shown
        <3>1. OverviewOf(OverviewAs(page[u], "absent", None), page[u], "absent", None)
            BY <2>1, OverviewPage
        <3>2. QED
            BY <2>2, <3>1 DEF OverviewOf
    <2>4. page' = [page EXCEPT ![u] = q] /\ UNCHANGED <<token, swapped>>
        BY <1>10, <2>2 DEF ReopenOverview, OverviewAs
    <2>5. QED
        BY <1>8, <2>1, <2>2, <2>3, <2>4
<1>11. ASSUME NEW r \in flight, r.op \in {"me", "lists"}, UNCHANGED swapped,
              token' \in {NoToken, token},
              NEW q, page'[t] = (IF r.live /\ t = r.tab THEN q ELSE page[t]),
              (r.live /\ t = r.tab /\ page[t] \in DashboardState) =>
                  \A k \in 0 .. Len(issued) :
                     (r.token \in {NoToken, k} /\ Shows(page[t], k)) => Shows(q, k)
       PROVE  Owned(t)'
    <2>1. CASE r.live /\ t = r.tab
        <3>1. page[t] \in DashboardState
            BY <1>0, <1>11, <2>1 DEF FlightInv, Listens, Forms
        <3>2. ASSUME NEW k \in 0 .. Len(issued), Uses(t, k), Shows(page[t], k)
              PROVE  Shows(page'[t], k)
            BY <1>11, <2>1, <3>1, <3>2 DEF Uses
        <3>3. QED
            BY <1>4, <1>11, <3>1, <3>2
    <2>2. CASE ~(r.live /\ t = r.tab)
        BY <1>1, <1>11, <2>2
    <2>3. QED
        BY <2>1, <2>2
<1>12. ASSUME NEW r \in flight, r.op = "lists", NEW answer \in {"ok", "unauthorized", "failed"},
              answer = "ok" => r.token \in 1 .. Len(issued), ReceiveLists(r, answer),
              UNCHANGED <<issued, token, swapped>>
       PROVE  Owned(t)'
    <2>1. PICK shown, rows, q :
            /\ shown = IF answer = "ok" THEN "shown" ELSE "failed"
            /\ rows = IF answer = "ok" THEN issued[r.token] ELSE None
            /\ q = OverviewAs(page[t], shown, rows)
        OBVIOUS
    <2>2. page'[t] = IF r.live /\ t = r.tab THEN q ELSE page[t]
        BY <1>12, <2>1, ListsReceived
    <2>3. ASSUME page[t] \in DashboardState, NEW k \in 0 .. Len(issued),
                 r.token \in {NoToken, k}, Shows(page[t], k)
          PROVE  Shows(q, k)
        <3>1. /\ rows \in Emails \cup {None}
              /\ shown \in {"absent", "loading", "shown", "failed"}
            BY <1>0, <1>12, <2>1, IssuedTo
        <3>2. OverviewOf(q, page[t], shown, rows)
            BY <2>1, <2>3, <3>1, OverviewPage
        <3>3. shown = "shown" => k # NoToken /\ rows = issued[k]
            BY <1>12, <2>1, <2>3 DEF NoToken
        <3>4. QED
            BY <2>3, <3>2, <3>3 DEF Shows, OverviewOf
    <2>4. QED
        BY <1>11, <1>12, <2>2, <2>3
<1>13. ASSUME NEW r \in flight, Serve(r)
       PROVE  Owned(t)'
    <2>0. UNCHANGED <<token, swapped>> /\ Good(r)
        BY <1>0, <1>13 DEF Serve, FlightInv
    <2>1. CASE ServeSignup(r)
        BY <1>2, <2>0, <2>1, SignupReceived DEF ServeSignup
    <2>2. CASE ServeLogin(r) \/ ServeMe(r)
        BY <1>1, <2>0, <2>2 DEF ServeLogin, ServeMe
    <2>3. CASE ServeLists(r)
        <3>1. r.op = "lists" /\ ReceiveLists(r, JWTAuth(r)) /\ UNCHANGED issued
            BY <2>3 DEF ServeLists
        <3>2. /\ JWTAuth(r) \in {"ok", "unauthorized"}
              /\ JWTAuth(r) = "ok" => r.token \in 1 .. Len(issued)
            BY <1>0, <2>0, <3>1 DEF Good, JWTAuth, Valid, NoToken, TypeOK
        <3>3. QED
            BY <1>12, <2>0, <3>1, <3>2
    <2>4. CASE Fail(r)
        <3>1. CASE r.op = "signup" /\ ReceiveSignup(r, "failed")
            BY <1>2, <2>0, <2>4, <3>1, SignupReceived DEF Fail
        <3>2. CASE r.op = "lists" /\ ReceiveLists(r, "failed")
            BY <1>12, <2>0, <2>4, <3>2 DEF Fail
        <3>3. CASE UNCHANGED page
            BY <1>1, <2>0, <3>3
        <3>4. QED
            BY <2>4, <3>1, <3>2, <3>3 DEF Fail
    <2>5. QED
        BY <1>13, <2>1, <2>2, <2>3, <2>4 DEF Serve
<1>14. ASSUME NEW r \in flight, Receive(r)
       PROVE  Owned(t)'
    <2>0. UNCHANGED issued /\ Good(r)
        BY <1>0, <1>14 DEF Receive, FlightInv
    <2>1. CASE ReceiveLogin(r) /\ LoggedIn(r)
        <3>1. FormsOnly /\ swapped' = swapped \cup {u \in Tabs : page[u].at = "dashboard"}
            BY <2>0, <2>1, LoginReceived DEF ReceiveLogin
        <3>2. page'[t] \notin FormState
            BY DEF FormState, Forms
        <3>3. QED
            BY <3>1, <3>2 DEF FormsOnly
    <2>2. CASE ReceiveLogin(r) /\ ~LoggedIn(r)
        BY <1>2, <2>0, <2>2, LoginReceived DEF ReceiveLogin
    <2>3. CASE ReceiveMe(r)
        <3>1. PICK user, q :
                /\ user = IF r.answer = "ok" THEN issued[r.token] ELSE page[t].user
                /\ q = ReadyAs(page[t], user)
            OBVIOUS
        <3>2. page'[t] = IF r.live /\ t = r.tab THEN q ELSE page[t]
            BY <2>0, <2>3, <3>1, MeReceived
        <3>3. r.op = "me" /\ token' \in {NoToken, token} /\ UNCHANGED swapped
            BY <2>3 DEF ReceiveMe, Cleared
        <3>4. r.answer = "ok" => r.token \in 1 .. Len(issued)
            BY <2>0, <3>3 DEF Good
        <3>5. ASSUME page[t] \in DashboardState, NEW k \in 0 .. Len(issued),
                     r.token \in {NoToken, k}, Shows(page[t], k)
              PROVE  Shows(q, k)
            <4>1. user \in Emails \cup {None}
                BY <1>0, <3>1, <3>4, <3>5, IssuedTo DEF DashboardState
            <4>2. q.user = user /\ q.overview = page[t].overview /\ q.rows = page[t].rows
                BY <3>1, <3>5, <4>1, ReadyPage
            <4>3. r.answer = "ok" => k # NoToken /\ user = issued[k]
                BY <3>1, <3>4, <3>5 DEF NoToken
            <4>4. QED
                BY <3>1, <3>5, <4>2, <4>3 DEF Shows
        <3>6. QED
            BY <1>11, <3>2, <3>3, <3>5
    <2>4. QED
        BY <1>14, <2>1, <2>2, <2>3 DEF Receive
<1>15. CASE UNCHANGED <<page, swapped>> /\ token' \in {NoToken, token}
    BY <1>1, <1>15
<1>16. QED
    BY <1>5, <1>6, <1>7, <1>9, <1>10, <1>13, <1>14, <1>15
    DEF Next, UserStep, Program, vars, Follow, SubmitLogin, SubmitSignup, Logout, Expire, Forms

(* A dashboard never shows one account's address over another account's    *)
(* configurations (layout.tsx:34-36 and 100-104, page.tsx:44-52) unless a  *)
(* token was stored while it was open, whatever the other tabs do, however *)
(* late the answers come and whichever of them fail.                       *)
THEOREM OneAccountAtATime == Spec => []OneIdentity
<1>1. Init => DashboardInv
    BY DEF Init, DashboardInv, Home
<1>2. TypeInv /\ DashboardInv => OneIdentity
    <2> SUFFICES ASSUME TypeInv, DashboardInv, NEW t \in Tabs,
                        page[t].at = "dashboard", t \notin swapped,
                        LayoutScreen(page[t]).user # None,
                        OverviewScreen(page[t]).limits # "unknown",
                        ~OverviewScreen(page[t]).error
                 PROVE  OverviewScreen(page[t]).limits =
                            IF LayoutScreen(page[t]).user \in Configured THEN "some" ELSE "none"
        BY DEF OneIdentity
    <2>1. page[t] \in DashboardState
        BY PageKinds DEF TypeInv
    <2>2. page[t].user # None /\ LayoutScreen(page[t]).user = page[t].user
        BY DEF LayoutScreen
    <2>3. page[t].overview = "shown"
        <3>1. page[t].overview \in {"absent", "loading", "shown", "failed"}
            BY <2>1 DEF DashboardState
        <3>2. page[t].overview \notin {"absent", "loading"}
            <4>1. CASE page[t].overview \in {"absent", "loading"}
                BY <4>1 DEF OverviewScreen
            <4>2. QED
                BY <4>1
        <3>3. page[t].overview # "failed"
            BY DEF OverviewScreen
        <3>4. QED
            BY <3>1, <3>2, <3>3
    <2>4. page[t].rows = page[t].user
        BY <2>2, <2>3 DEF DashboardInv, Owned, Shows
    <2>5. QED
        BY <2>2, <2>3, <2>4 DEF OverviewScreen
<1>3. QED
    BY <1>1, <1>2, TypeInvariant, DashboardStep, PTL DEF Spec
=============================================================================
