------------------------------ MODULE Session ------------------------------
(***************************************************************************)
(* Who is signed in: the token that the tabs of one browser share in       *)
(* localStorage (auth.ts), the pages that store, use and clear it (login,  *)
(* signup, the dashboard's layout and its overview), and the server that   *)
(* issues and checks it (handlers/auth.go, middleware/jwt_auth.go).        *)
(*                                                                         *)
(* A page sends with the token that is stored when it sends, and acts on   *)
(* the answer when it comes: also after the user has gone to another page, *)
(* and after another tab has stored another token.  Navigation within the  *)
(* application takes a step of its own (router.push and router.replace);   *)
(* a reload ends whatever the tab was waiting for.                         *)
(***************************************************************************)
EXTENDS Naturals, Sequences, FiniteSets

CONSTANTS
    Tabs,         \* tabs of one browser
    Emails,       \* addresses
    Passwords,
    Credentials,  \* what users type into the forms
    Members,      \* per address: the password it is registered with at first
    Returning,    \* the member whose token is stored at first, if any is
    Configured,   \* addresses whose account has limit configurations
    Openings,     \* which page each tab opens first
    None,         \* no address, no tab, no page, no answer
    MaxActs,      \* bound: things users do
    MaxExpired    \* bound: tokens that expire

ASSUME SessionAssumption ==
    /\ Credentials \subseteq [email: Emails, password: Passwords]
    /\ Members \in [Emails -> SUBSET Passwords]
    /\ \A e \in Emails : \A p, q \in Members[e] : p = q
    /\ Returning \in Emails /\ Members[Returning] # {}
    /\ Configured \subseteq Emails
    /\ Openings \subseteq [Tabs -> {"login", "signup", "dashboard"}]
    /\ MaxActs \in Nat /\ MaxExpired \in Nat
    /\ None \notin Tabs \cup Emails \cup Passwords \cup Nat
    /\ None \notin {"ok", "unauthorized", "failed", "login", "signup", "home", "dashboard"}

VARIABLES
    users,    \* the table users: the passwords registered for an address
    issued,   \* the tokens issued so far: for which address
    expired,  \* how many of them, the oldest first, have expired
    token,    \* localStorage: the number of a token
    page,     \* per tab: the page it shows and its React state
    going,    \* per tab: where the router is about to go
    flight,   \* requests not yet answered, or answered and not yet received
    acts,     \* things users have done
    told,     \* history: sign-ups that were answered 201
    swapped   \* history: tabs whose dashboard was open when a token was stored

vars == <<users, issued, expired, token, page, going, flight, acts, told, swapped>>

NoToken == 0
Valid(n) == n # NoToken /\ n > expired

Forms  == {"login", "signup"}
Places == Forms \cup {"home", "dashboard"}

Request ==
    [number: Nat, tab: Tabs \cup {None}, live: BOOLEAN,
     op: {"signup", "login", "me", "lists"}, email: Emails \cup {None},
     password: Passwords \cup {None}, token: Nat \cup {None},
     answer: {None, "ok", "unauthorized", "failed"}]

-----------------------------------------------------------------------------
(***************************************************************************)
(* What the pages keep and show.                                           *)
(***************************************************************************)
Home == [at |-> "home"]

FormState == [at: Forms, busy: BOOLEAN]
Form(at)  == [at |-> at, busy |-> FALSE]

(* What the form offers: its button, its links.                            *)
LoginScreen(p)  == [submit |-> ~p.busy, links |-> {"home", "signup"}]
SignupScreen(p) == [submit |-> ~p.busy, links |-> {"home", "login"}]
FormScreen(p) == IF p.at = "login" THEN LoginScreen(p) ELSE SignupScreen(p)

(* The layout's state, and that of the overview inside it.                 *)
DashboardState ==
    [at: {"dashboard"}, user: Emails \cup {None}, ready: BOOLEAN,
     overview: {"absent", "loading", "shown", "failed"}, rows: Emails \cup {None}]
NewDashboard ==
    [at |-> "dashboard", user |-> None, ready |-> FALSE,
     overview |-> "absent", rows |-> None]

(* Mutant of FreshLayout: the account is kept in the module once known.    *)
KeptLayout  == [NewDashboard EXCEPT !.user = issued[1]]
FreshLayout == NewDashboard

(* Nothing but LOADING until the account is known, or is not to be had.    *)
LayoutScreen(p) ==
    [user   |-> IF p.ready THEN p.user ELSE None,
     logout |-> p.ready,
     links  |-> IF p.ready THEN {"home"} ELSE {}]

(* How many configurations the overview says there are, and whether under  *)
(* an error; a list that failed is shown as an empty one.                  *)
OverviewScreen(p) ==
    [limits |-> IF p.overview \in {"absent", "loading"} THEN "unknown"
                ELSE IF p.rows \in Configured THEN "some" ELSE "none",
     error  |-> p.overview = "failed"]

Links(t) ==
    CASE page[t].at \in Forms -> FormScreen(page[t]).links
      [] page[t].at = "home" -> Forms
      [] page[t].at = "dashboard" -> LayoutScreen(page[t]).links

-----------------------------------------------------------------------------
(***************************************************************************)
(* Requests.                                                               *)
(***************************************************************************)
(* A number no request of the tab has; the token is read when it is sent.  *)
Sent(t, op, email, password, others) ==
    [number |-> CHOOSE n \in 0 .. Cardinality(others) :
                    \A r \in others : r.tab = t => r.number # n,
     tab |-> t, live |-> TRUE, op |-> op, email |-> email, password |-> password,
     token |-> token, answer |-> None]
Send(t, op, email, password, others) ==
    others \cup {Sent(t, op, email, password, others)}

(* The page of tab t goes: its requests stay, and their continuations run, *)
(* but the state they would set is gone.  The lists' do nothing else, and  *)
(* me()'s only if it is refused.                                           *)
DoesMore(r) == r.op # "lists" /\ (r.op = "me" => r.answer \notin {"ok", "failed"})
Unheard(t) ==
    {r \in flight : r.tab # t} \cup
    {[r EXCEPT !.live = FALSE] : r \in {q \in flight : q.tab = t /\ DoesMore(q)}}

(* The tab itself goes, or loads a page from the server: nothing of it is  *)
(* left but a sign-up the server has not seen yet.                         *)
Abandoned(t) ==
    {r \in flight : r.tab # t} \cup
    {[r EXCEPT !.tab = None] :
        r \in {q \in flight : q.tab = t /\ q.op = "signup" /\ q.answer = None}}

(***************************************************************************)
(* Navigation.  A form sends away who has a token, the layout who has not. *)
(***************************************************************************)
Redirect(at) ==
    IF at \in Forms /\ token # NoToken THEN "dashboard"
    ELSE IF at = "dashboard" /\ token = NoToken THEN "login"
    ELSE None

Asking(t, at, others) ==
    IF at = "dashboard" /\ token # NoToken
    THEN Send(t, "me", None, None, others) ELSE others

NewPage(at) ==
    CASE at \in Forms -> Form(at)
      [] at = "dashboard" -> FreshLayout
      [] at = "home" -> Home

(* A page is mounted, and its effect runs.                                 *)
Show(t, at, others) ==
    /\ page' = [page EXCEPT ![t] = NewPage(at)]
    /\ going' = [going EXCEPT ![t] = Redirect(at)]
    /\ flight' = Asking(t, at, others)
    /\ swapped' = swapped \ {t}

Act ==
    /\ acts < MaxActs
    /\ acts' = acts + 1

Reload(t) ==
    /\ Act
    /\ Show(t, page[t].at, Abandoned(t))
    /\ UNCHANGED <<users, issued, expired, token, told>>

(* A link.                                                                 *)
Follow(t, at) ==
    /\ Act
    /\ at \in Links(t)
    /\ going' = [going EXCEPT ![t] = at]
    /\ UNCHANGED <<users, issued, expired, token, page, flight, told, swapped>>

(* The router gets there; a page it is on already stays as it is.          *)
Arrive(t) ==
    /\ going[t] # None
    /\ \/ page[t].at # going[t] /\ Show(t, going[t], Unheard(t))
       \/ /\ page[t].at = going[t]
          /\ going' = [going EXCEPT ![t] = None]
          /\ UNCHANGED <<page, flight, swapped>>
    /\ UNCHANGED <<users, issued, expired, token, acts, told>>

-----------------------------------------------------------------------------
(***************************************************************************)
(* The forms.                                                              *)
(***************************************************************************)
SubmitTo(t, op, email, password) ==
    /\ Act
    /\ page' = [page EXCEPT ![t].busy = TRUE]
    /\ flight' = Send(t, op, email, password, flight)
    /\ UNCHANGED <<users, issued, expired, token, going, told, swapped>>

SubmitLogin(t, email, password) ==
    /\ page[t].at = "login" /\ LoginScreen(page[t]).submit
    /\ SubmitTo(t, "login", email, password)

SubmitSignup(t, email, password) ==
    /\ page[t].at = "signup" /\ SignupScreen(page[t]).submit
    /\ SubmitTo(t, "signup", email, password)

(* The page that sent r, with its state changed, if it is still there.     *)
Heard(r, p) == IF r.live /\ r.tab # None THEN [page EXCEPT ![r.tab] = p] ELSE page

(* Mutant: whatever the body of the answer holds is stored.                *)
LoggedInAnyway(r) == r.answer # None
LoggedIn(r)       == r.answer = "ok"

(* The second half of either form's submit: store the token and go.        *)
ReceiveLogin(r) ==
    /\ r.op = "login"
    /\ page' = Heard(r, [page[r.tab] EXCEPT !.busy = FALSE])
    /\ IF LoggedIn(r)
       THEN /\ token' = r.token
            /\ going' = [going EXCEPT ![r.tab] = "dashboard"]
            /\ swapped' = swapped \cup {t \in Tabs : page[t].at = "dashboard"}
       ELSE UNCHANGED <<token, going, swapped>>
    /\ flight' = flight \ {r}

(* The first half of the sign-up's: go on with the log-in, or say why not. *)
ReceiveSignup(r, answer) ==
    IF answer = "ok" /\ r.tab # None
    THEN /\ flight' = (flight \ {r}) \cup
               {[Sent(r.tab, "login", r.email, r.password, flight \ {r})
                   EXCEPT !.live = r.live]}
         /\ UNCHANGED page
    ELSE /\ page' = Heard(r, [page[r.tab] EXCEPT !.busy = FALSE])
         /\ flight' = flight \ {r}

-----------------------------------------------------------------------------
(***************************************************************************)
(* The dashboard.                                                          *)
(***************************************************************************)
(* Mutants: every error is taken for a refusal; a refused token is kept.   *)
RefusedAnyError(r) == r.answer # "ok"
ClearedNever(n)    == n

Refused(r) == r.answer = "unauthorized"
Cleared(n) == NoToken

(* The layout's me(): the account, or back to the log-in.                  *)
ReceiveMe(r) ==
    /\ r.op = "me"
    /\ page' = Heard(r, [page[r.tab] EXCEPT !.ready = TRUE,
                            !.user = IF r.answer = "ok" THEN issued[r.token] ELSE @])
    /\ IF Refused(r)
       THEN /\ token' = Cleared(token)
            /\ going' = [going EXCEPT ![r.tab] = "login"]
       ELSE UNCHANGED <<token, going>>
    /\ flight' = flight \ {r}
    /\ UNCHANGED swapped

(* What is inside the layout is mounted when it is ready.                  *)
MountOverview(t) ==
    /\ page[t].at = "dashboard"
    /\ page[t].ready
    /\ page[t].overview = "absent"
    /\ page' = [page EXCEPT ![t].overview = "loading"]
    /\ flight' = Send(t, "lists", None, None, flight)
    /\ UNCHANGED <<users, issued, expired, token, going, acts, told, swapped>>

(* Promise.all of two lists, which carry the same token: one request here. *)
ReceiveLists(r, answer) ==
    /\ page' = Heard(r, [page[r.tab] EXCEPT
                            !.overview = IF answer = "ok" THEN "shown" ELSE "failed",
                            !.rows = IF answer = "ok" THEN issued[r.token] ELSE None])
    /\ flight' = flight \ {r}

(* To another page of the dashboard and back: the layout stays.            *)
ReopenOverview(t) ==
    /\ Act
    /\ page[t].at = "dashboard"
    /\ page[t].overview # "absent"
    /\ page' = [page EXCEPT ![t] = [@ EXCEPT !.overview = "absent", !.rows = None]]
    /\ flight' = {r \in flight : ~(r.tab = t /\ r.op = "lists")}
    /\ UNCHANGED <<users, issued, expired, token, going, told, swapped>>

Logout(t) ==
    /\ Act
    /\ page[t].at = "dashboard"
    /\ LayoutScreen(page[t]).logout
    /\ token' = NoToken
    /\ going' = [going EXCEPT ![t] = "home"]
    /\ UNCHANGED <<users, issued, expired, page, flight, told, swapped>>

Receive(r) ==
    /\ r.answer # None
    /\ ReceiveLogin(r) \/ ReceiveMe(r)
    /\ UNCHANGED <<users, issued, expired, acts, told>>

-----------------------------------------------------------------------------
(***************************************************************************)
(* The server.  What a log-in and me() are answered may wait for long; a   *)
(* sign-up and the lists are received as they are answered, since nothing  *)
(* but the page that waits could tell.                                     *)
(***************************************************************************)
(* UNIQUE on users.email; its mutant goes without.                         *)
TakenNever(email) == FALSE
Taken(email)      == users[email] # {}

(* CreateUser's INSERT.  The answer may be lost once it has run.           *)
ServeSignup(r) ==
    /\ r.op = "signup"
    /\ IF Taken(r.email)
       THEN /\ ReceiveSignup(r, "conflict")
            /\ UNCHANGED <<users, told>>
       ELSE /\ users' = [users EXCEPT ![r.email] = @ \cup {r.password}]
            /\ \/ /\ ReceiveSignup(r, "ok")
                  /\ told' = told \cup {[email |-> r.email, password |-> r.password]}
               \/ /\ ReceiveSignup(r, "failed")
                  /\ UNCHANGED told
    /\ UNCHANGED issued

(* The row that GetUserByEmail finds has this password.                    *)
Matches(email, password) ==
    users[email] # {} /\ password = CHOOSE p \in users[email] : TRUE

Answered(r, answer, number) ==
    flight' = (flight \ {r}) \cup {[r EXCEPT !.answer = answer, !.token = number]}

(* Anything but the right password, also a lookup that fails, is a 401.    *)
ServeLogin(r) ==
    /\ r.op = "login"
    /\ \/ /\ Matches(r.email, r.password)
          /\ issued' = Append(issued, r.email)
          /\ Answered(r, "ok", Len(issued'))
       \/ /\ Answered(r, "unauthorized", None)
          /\ UNCHANGED issued
    /\ UNCHANGED <<users, page, told>>

(* Behind JWTAuth: who am I, and the two lists.                            *)
JWTAuth(r) == IF Valid(r.token) THEN "ok" ELSE "unauthorized"

ServeMe(r) ==
    /\ r.op = "me"
    /\ Answered(r, JWTAuth(r), r.token)
    /\ UNCHANGED <<users, issued, page, told>>

ServeLists(r) ==
    /\ r.op = "lists"
    /\ ReceiveLists(r, JWTAuth(r))
    /\ UNCHANGED <<users, issued, told>>

(* A 500, an answer that is no JSON, a fetch that rejects.                 *)
Fail(r) ==
    /\ \/ r.op = "signup" /\ ReceiveSignup(r, "failed")
       \/ r.op = "lists" /\ ReceiveLists(r, "failed")
       \/ r.op = "me" /\ Answered(r, "failed", r.token) /\ UNCHANGED page
       \/ r.op = "login" /\ Answered(r, "failed", None) /\ UNCHANGED page
    /\ UNCHANGED <<users, issued, told>>

Serve(r) ==
    /\ r.answer = None
    /\ ServeSignup(r) \/ ServeLogin(r) \/ ServeMe(r) \/ ServeLists(r) \/ Fail(r)
    /\ UNCHANGED <<expired, token, going, acts, swapped>>

(* 24 hours after it was issued.                                           *)
Expire ==
    /\ expired < Len(issued) /\ expired < MaxExpired
    /\ expired' = expired + 1
    /\ UNCHANGED <<users, issued, token, page, going, flight, acts, told, swapped>>

-----------------------------------------------------------------------------
(* The tabs are about to open a page each.                                 *)
Init ==
    /\ users = Members
    /\ issued = <<Returning>>
    /\ expired = 0
    /\ token \in {NoToken, 1}
    /\ page = [t \in Tabs |-> Home]
    /\ going \in Openings
    /\ flight = {}
    /\ acts = 0
    /\ told = {}
    /\ swapped = {}

UserStep ==
    \E t \in Tabs :
        \/ Reload(t)
        \/ \E at \in Places : Follow(t, at)
        \/ \E c \in Credentials : \/ SubmitLogin(t, c.email, c.password)
                                  \/ SubmitSignup(t, c.email, c.password)
        \/ ReopenOverview(t)
        \/ Logout(t)

(* What the pages and the server do by themselves.                         *)
Program ==
    \/ \E t \in Tabs : Arrive(t) \/ MountOverview(t)
    \/ \E r \in flight : Serve(r) \/ Receive(r)

(* The layout found no token, and while its redirect was under way an      *)
(* earlier log-in of the tab was answered: the router is told to go where  *)
(* it is, and the layout, which asks once, says LOADING until a reload.    *)
Stranded(t) == page[t].at = "dashboard" /\ ~page[t].ready /\ t \in swapped

AtRest ==
    /\ flight = {}
    /\ \A t \in Tabs :
        /\ going[t] = None
        /\ page[t].at \in Forms => ~page[t].busy
        /\ page[t].at = "dashboard" =>
              \/ page[t].overview \in {"shown", "failed"}
              \/ Stranded(t)

Next ==
    \/ UserStep
    \/ Program
    \/ Expire
    \/ AtRest /\ UNCHANGED vars

Spec == Init /\ [][Next]_vars

(* Answers come or fetch rejects, continuations run, the router arrives,   *)
(* React renders.  Nobody has to click, and no token has to expire.        *)
FairSpec == Spec /\ WF_vars(Program)

-----------------------------------------------------------------------------
(***************************************************************************)
(* Properties.                                                             *)
(***************************************************************************)

TypeOK ==
    /\ users \in [Emails -> SUBSET Passwords]
    /\ issued \in Seq(Emails)
    /\ expired \in 0 .. Len(issued)
    /\ token \in 0 .. Len(issued)
    /\ page \in [Tabs -> {Home} \cup FormState \cup DashboardState]
    /\ going \in [Tabs -> Places \cup {None}]
    /\ flight \in SUBSET Request
    /\ acts \in 0 .. MaxActs
    /\ told \in SUBSET [email: Emails, password: Passwords]
    /\ swapped \in SUBSET Tabs

(* Who was answered 201 to a sign-up can log in with that password, though *)
(* two sign-ups of one address run at a time (store.go:46-60), or the      *)
(* log-in that follows the sign-up fails (signup/page.tsx:34-35).          *)
SignedUpCanLogIn == \A c \in told : Matches(c.email, c.password)

(* A dashboard never shows one account's address over another account's    *)
(* configurations (layout.tsx:34-36 and 100-104, page.tsx:44-52), unless a *)
(* token was stored while it was open, which the layout, asking once, does *)
(* not learn of.                                                           *)
OneIdentity ==
    \A t \in Tabs :
        LET layout   == LayoutScreen(page[t])
            overview == OverviewScreen(page[t])
        IN  (/\ page[t].at = "dashboard" /\ t \notin swapped
             /\ layout.user # None
             /\ overview.limits # "unknown" /\ ~overview.error)
            => overview.limits = IF layout.user \in Configured THEN "some" ELSE "none"

(* A token that is still good is thrown away by a log-out only, whatever   *)
(* fails (layout.tsx:37-42), or by the refusal of another, older token     *)
(* that comes late: clearToken does not ask which token was refused.       *)
StaysLoggedIn ==
    [][(Valid(token) /\ token' = NoToken) =>
          \/ \E t \in Tabs : Logout(t)
          \/ \E r \in flight \ flight' : r.op = "me" /\ r.token < token]_vars

(* Once users leave it alone every tab comes to rest on some page: the     *)
(* forms and the layout do not send it to and fro (login/page.tsx:17-21,   *)
(* layout.tsx:27-44), and no spinner stays, but a stranded layout's.       *)
ComesToRest == <>[]AtRest
=============================================================================
