---------------------------- MODULE Management -----------------------------
(***************************************************************************)
(* How one account's limit configurations and API keys are managed: the    *)
(* tables (store.go), the handlers (limits.go, apikeys.go), the client     *)
(* (api.ts), the dashboard pages that list them (limits/page.tsx,          *)
(* api-keys/page.tsx) and the playground, which sends checks with the keys *)
(* (playground/page.tsx), open in several tabs.                            *)
(*                                                                         *)
(* Each handler runs one SQL statement.  A list page asks for it once,     *)
(* when it is mounted, and from then on edits its copy as the answers to   *)
(* its own requests come in, in whatever order they do.                    *)
(*                                                                         *)
(* Configurations are known by their identifier, one each; keys by an id   *)
(* the table hands out.  Deleting a configuration removes its row, and     *)
(* revoking a key marks it.  Whether a check is allowed is CheckPath's     *)
(* question: here it is decided, refused for its key, or fails.            *)
(***************************************************************************)
EXTENDS Naturals, Sequences, FiniteSets

CONSTANTS
    Tabs,         \* browser tabs of the account's users
    Identifiers,  \* identifiers of limit configurations
    None,         \* no identifier, no id, no tab
    Existing,     \* keys there are to begin with
    LogSize,      \* decisions the playground's log holds: 50
    Visits,       \* bound: which pages each tab shows, in one of these ways
    MaxRequests   \* bound: requests sent

ASSUME ManagementAssumption ==
    /\ Existing \in Nat
    /\ LogSize \in Nat \ {0}
    /\ Visits \subseteq [Tabs -> SUBSET {"limits", "keys", "playground"}]
    /\ MaxRequests \in Nat
    /\ None \notin Tabs \cup Identifiers \cup Nat
    /\ None \notin {"input", "ok", "conflict", "missing", "invalid", "failed"}

VARIABLES
    table,   \* per kind: the rows as GET lists them, the newest first
    page,    \* per tab: the React state of the page it shows
    flight,  \* the requests sent and not yet received
    sent,    \* requests sent
    made,    \* rows inserted
    known,   \* the keys whose plaintext a user has seen
    visits,  \* the pages each tab shows, for the bound
    raced,   \* history: tabs whose page was mounted in one of the races below
    crowded  \* history: tabs that removed two rows at a time

vars == <<table, page, flight, sent, made, known, visits, raced, crowded>>

Kinds == {"limits", "keys"}
Ids   == Identifiers \cup Nat
Row   == [id: Ids, version: Nat, revoked: BOOLEAN]

Closed == [kind |-> "none"]
Page   == [kind: Kinds, rows: Seq(Row), loading: BOOLEAN, failed: BOOLEAN,
           creating: BOOLEAN, removing: Ids \cup {None}, newKey: Nat \cup {None}]

(* The playground.  A decision is known by its request's number.           *)
Playground == [kind: {"playground"}, loading: BOOLEAN,
               error: {None, "input", "invalid", "failed"},
               lastResult: Nat \cup {None}, history: Seq(Nat)]

Mounted(t) == page[t] # Closed

(* A request, on its way to the server or back.  The answer "failed"       *)
(* stands for a 500 and for a fetch that rejects.  Late is a history       *)
(* variable of a check: some page showed its key as revoked when it was    *)
(* sent.                                                                   *)
Request == [number: Nat, tab: Tabs \cup {None}, kind: Kinds \cup {"playground"},
            op: {"list", "create", "remove", "check"}, id: Ids \cup {None},
            answer: {None, "ok", "conflict", "missing", "invalid", "failed"},
            rows: Seq(Row), late: BOOLEAN]

Listed(rows) == {rows[n] : n \in DOMAIN rows}
AtMost(x, y) == IF x <= y THEN x ELSE y

-----------------------------------------------------------------------------
(***************************************************************************)
(* The pages.                                                              *)
(***************************************************************************)
Shown(p) == p # Closed /\ p.kind \in Kinds /\ ~p.loading

ShownRevoked(key) ==
    \E t \in Tabs : /\ Shown(page[t]) /\ page[t].kind = "keys"
                    /\ \E row \in Listed(page[t].rows) : row.id = key /\ row.revoked

Send(t, kind, op, id) ==
    /\ sent < MaxRequests
    /\ sent' = sent + 1
    /\ flight' = flight \cup
         {[number |-> sent, tab |-> t, kind |-> kind, op |-> op, id |-> id,
           answer |-> None, rows |-> << >>, late |-> op = "check" /\ ShownRevoked(id)]}
    /\ UNCHANGED <<table, made, known, visits>>

Own(t, op) == {r \in flight : r.tab = t /\ r.op = op}

(* useEffect: load() runs once.                                            *)
Mount(t, kind) ==
    /\ ~Mounted(t)
    /\ Send(t, kind, "list", None)
    /\ kind \in visits[t]
    /\ page' = [page EXCEPT ![t] =
         [kind |-> kind, rows |-> << >>, loading |-> TRUE, failed |-> FALSE,
          creating |-> FALSE, removing |-> None, newKey |-> None]]
    /\ UNCHANGED <<raced, crowded>>

MountPlayground(t) ==
    /\ ~Mounted(t)
    /\ "playground" \in visits[t]
    /\ page' = [page EXCEPT ![t] = [kind |-> "playground", loading |-> FALSE, error |-> None,
                                    lastResult |-> None, history |-> << >>]]
    /\ UNCHANGED <<table, flight, sent, made, known, visits, raced, crowded>>

(* What a page that is gone has sent goes on, and nobody hears the answer: *)
(* lists and checks, which only that page would notice, are dropped.       *)
Leave(t) ==
    /\ Mounted(t)
    /\ page' = [page EXCEPT ![t] = Closed]
    /\ flight' = {r \in flight : r.tab # t} \cup
                 {[r EXCEPT !.tab = None] :
                    r \in {q \in flight : /\ q.tab = t /\ q.answer = None
                                          /\ q.op \in {"create", "remove"}}}
    /\ raced' = raced \ {t}
    /\ crowded' = crowded \ {t}
    /\ UNCHANGED <<table, sent, made, known, visits>>

(* The create button is disabled while a creation is under way, and not    *)
(* while the list is loading; the Enter key, which creates a key as well,  *)
(* is never disabled.                                                      *)
ClickCreate(t, id) ==
    /\ Mounted(t) /\ page[t].kind \in Kinds
    /\ page[t].kind = "keys" \/ ~page[t].creating
    /\ (page[t].kind = "keys") = (id = None)
    /\ Send(t, page[t].kind, "create", id)
    /\ page' = [page EXCEPT ![t].creating = TRUE]
    /\ raced' = IF \/ page[t].loading
                   \/ Own(t, "create") # {}
                   \/ \E r \in Own(t, "remove") : r.id = id
                THEN raced \cup {t} ELSE raced
    /\ UNCHANGED crowded

(* Mutant of CanRemove: the button is never disabled.                      *)
CanRemoveAgain(p, id) ==
    \E row \in Listed(p.rows) : row.id = id /\ ~row.revoked

(* Rows are shown once the list has loaded.  The page remembers one        *)
(* removal under way, and disables that row's button.                      *)
CanRemove(p, id) ==
    /\ p.removing # id
    /\ \E row \in Listed(p.rows) : row.id = id /\ ~row.revoked

ClickRemove(t, id) ==
    /\ Shown(page[t])
    /\ CanRemove(page[t], id)
    /\ Send(t, page[t].kind, "remove", id)
    /\ page' = [page EXCEPT ![t].removing = id]
    /\ raced' = IF \E r \in Own(t, "create") : r.id = id THEN raced \cup {t} ELSE raced
    /\ crowded' = IF \E r \in Own(t, "remove") : r.id # id
                  THEN crowded \cup {t} ELSE crowded

(* The plaintext of a new key, until it is dismissed.                      *)
Dismiss(t) ==
    /\ Mounted(t) /\ page[t].kind = "keys"
    /\ page[t].newKey # None
    /\ page' = [page EXCEPT ![t].newKey = None]
    /\ UNCHANGED <<table, flight, sent, made, known, visits, raced, crowded>>

(* Mutant of CanCheck: the button is never disabled.                       *)
CanCheckAgain(p) == TRUE
CanCheck(p)      == ~p.loading

(* handleCheck, up to the await, and what it does without a key or an      *)
(* identifier.                                                             *)
ClickCheck(t, key) ==
    /\ Mounted(t) /\ page[t].kind = "playground"
    /\ CanCheck(page[t])
    /\ Send(t, "playground", "check", key)
    /\ page' = [page EXCEPT ![t] = [@ EXCEPT !.error = None, !.loading = TRUE]]
    /\ UNCHANGED <<raced, crowded>>

ClickCheckUnfilled(t) ==
    /\ Mounted(t) /\ page[t].kind = "playground"
    /\ CanCheck(page[t])
    /\ page' = [page EXCEPT ![t].error = "input"]
    /\ UNCHANGED <<table, flight, sent, made, known, visits, raced, crowded>>

ClearHistory(t) ==
    /\ Mounted(t) /\ page[t].kind = "playground"
    /\ page[t].history # << >>
    /\ page' = [page EXCEPT ![t].history = << >>]
    /\ UNCHANGED <<table, flight, sent, made, known, visits, raced, crowded>>

(* Mutants: the new row goes to the end; the old rows are not spread; a    *)
(* failed creation leaves the button disabled.                             *)
WithNewLast(rows, row) == Append(rows, row)
WithNewNested(rows, row) == <<row, rows>>
DoneCreatingIfOk(answer) == answer = "ok"

WithNew(rows, row) == <<row>> \o rows
DoneCreating(answer) == TRUE

(* What filter keeps of the first n rows.  (SelectSeq says the same, and   *)
(* nothing can be proved of it.)                                           *)
Kept(rows, gone) ==
    LET kept[n \in 0 .. Len(rows)] ==
            IF n = 0 THEN << >>
            ELSE IF rows[n].id \in gone THEN kept[n - 1]
            ELSE Append(kept[n - 1], rows[n])
    IN  kept

Marked(row) == [row EXCEPT !.revoked = TRUE]

(* Rows are filtered out, or marked; the page and the table do the same.   *)
Without(rows, kind, gone) ==
    IF kind = "limits" THEN Kept(rows, gone)[Len(rows)]
    ELSE [n \in DOMAIN rows |-> IF rows[n].id \in gone THEN Marked(rows[n]) ELSE rows[n]]

ReceiveList(r, p) ==
    [p EXCEPT !.loading = FALSE,
              !.failed = r.answer # "ok",
              !.rows = IF r.answer = "ok" THEN r.rows ELSE @]
ReceiveCreate(r, p) ==
    [p EXCEPT !.creating = IF DoneCreating(r.answer) THEN FALSE ELSE @,
              !.newKey = IF r.answer = "ok" /\ r.kind = "keys" THEN r.rows[1].id ELSE @,
              !.rows = IF r.answer = "ok" THEN WithNew(@, r.rows[1]) ELSE @]
ReceiveRemove(r, p) ==
    [p EXCEPT !.removing = None,
              !.rows = IF r.answer = "ok" THEN Without(@, r.kind, {r.id}) ELSE @]

ReceiveCheck(r, p) ==
    IF r.answer = "ok"
    THEN [p EXCEPT !.loading = FALSE, !.lastResult = r.number,
                   !.history = SubSeq(<<r.number>> \o @, 1, AtMost(LogSize, Len(@) + 1))]
    ELSE [p EXCEPT !.loading = FALSE, !.error = r.answer]

(* The continuation of the await: the answer's effect on the page, and the *)
(* finally clause.                                                         *)
Receive(r) ==
    /\ r \in flight
    /\ r.answer # None
    /\ flight' = flight \ {r}
    /\ page' = [page EXCEPT ![r.tab] =
                  CASE r.op = "list"   -> ReceiveList(r, @)
                    [] r.op = "create" -> ReceiveCreate(r, @)
                    [] r.op = "remove" -> ReceiveRemove(r, @)
                    [] r.op = "check"  -> ReceiveCheck(r, @)]
    /\ known' = IF r.op = "create" /\ r.kind = "keys" /\ r.answer = "ok"
                THEN known \cup {r.rows[1].id} ELSE known
    /\ UNCHANGED <<table, sent, made, visits, raced, crowded>>

(* What a list page shows: the error of a failed list, a new key's         *)
(* plaintext, the creation's button, and rows with the buttons that can be *)
(* clicked.                                                                *)
Screen(p) ==
    [error  |-> p.failed,
     newKey |-> p.newKey,
     create |-> ~p.creating,
     list   |-> IF p.loading THEN "loading"
                ELSE IF p.rows = << >> THEN "none yet"
                ELSE [n \in DOMAIN p.rows |->
                        [row |-> p.rows[n], button |-> CanRemove(p, p.rows[n].id)]]]

(* What the playground shows: an error, the button, the last decision and  *)
(* the log.                                                                *)
PlaygroundScreen(p) ==
    [error |-> p.error, check |-> CanCheck(p), result |-> p.lastResult, log |-> p.history]

-----------------------------------------------------------------------------
(***************************************************************************)
(* The server.                                                             *)
(***************************************************************************)
Present(kind, id) == \E row \in Listed(table[kind]) : row.id = id /\ ~row.revoked

(* UNIQUE (user_id, identifier); its mutant goes without.                  *)
UniqueNever(kind) == FALSE
Unique(kind)      == kind = "limits"

(* APIKeyAuth, of a key it could look up; its mutant accepts revoked keys. *)
AcceptedOnceMade(key) == \E row \in Listed(table["keys"]) : row.id = key
Accepted(key)         == Present("keys", key)

(* What the answer to r would be, once its statement has run.              *)
Outcome(r) ==
    CASE r.op = "list"   -> "ok"
      [] r.op = "create" -> IF Unique(r.kind) /\ Present(r.kind, r.id)
                            THEN "conflict" ELSE "ok"
      [] r.op = "remove" -> IF Present(r.kind, r.id) THEN "ok" ELSE "missing"
      [] r.op = "check"  -> IF Accepted(r.id) THEN "ok" ELSE "invalid"

Inserted(r) ==
    [id |-> IF r.kind = "limits" THEN r.id ELSE made, version |-> made, revoked |-> FALSE]

(* ORDER BY created_at DESC: the new row comes first.                      *)
Listing(row, rows) == <<row>> \o rows

(* The tabs whose copy a change of the table passes by: their list has     *)
(* been read already, and the answer will not tell them.                   *)
PassedBy(r, told) ==
    {t \in Tabs : /\ Mounted(t) /\ page[t].kind = r.kind
                  /\ ~(t = r.tab /\ told)
                  /\ ~\E l \in Own(t, "list") : l.answer = None}

Answered(r, answer, rows) ==
    flight' = (flight \ {r}) \cup
              IF r.tab = None THEN {} ELSE {[r EXCEPT !.answer = answer, !.rows = rows]}

(* A statement has run.  Its answer may be lost all the same: the          *)
(* connection breaks, or the request has timed out meanwhile.              *)
Serves(r, op, rows, told) ==
    /\ r.op = op
    /\ r.answer = None
    /\ Answered(r, IF told THEN Outcome(r) ELSE "failed", rows)
    /\ UNCHANGED <<page, sent, known, visits, crowded>>

ServeList(r, told) ==
    /\ Serves(r, "list", table[r.kind], told)
    /\ raced' = IF told THEN raced ELSE raced \cup ({r.tab} \cap Tabs)
    /\ UNCHANGED <<table, made>>

ServeCreate(r, told) ==
    /\ Serves(r, "create", <<Inserted(r)>>, told)
    /\ Outcome(r) = "ok"
    /\ table' = [table EXCEPT ![r.kind] = Listing(Inserted(r), @)]
    /\ made' = made + 1
    /\ raced' = raced \cup PassedBy(r, told)

ServeRemove(r, told) ==
    /\ Serves(r, "remove", << >>, told)
    /\ Outcome(r) = "ok"
    /\ table' = [table EXCEPT ![r.kind] = Without(@, r.kind, {r.id})]
    /\ raced' = raced \cup PassedBy(r, told)
    /\ UNCHANGED made

ServeCheck(r, told) ==
    /\ Serves(r, "check", << >>, told)
    /\ Outcome(r) = "ok"
    /\ UNCHANGED <<table, made, raced>>

(* 409, 404 and 401: a conflict, a statement that affected no row, and a   *)
(* key that is not in force.                                               *)
Refuse(r, told) ==
    /\ Serves(r, r.op, << >>, told)
    /\ Outcome(r) \in {"conflict", "missing", "invalid"}
    /\ UNCHANGED <<table, made, raced>>

(* APIKeyAuth answers every error of the lookup, PostgreSQL being down     *)
(* included, as it answers an unknown key: with 401.                       *)
FailLookup(r, told) ==
    /\ r.op = "check"
    /\ r.answer = None
    /\ Answered(r, IF told THEN "invalid" ELSE "failed", << >>)
    /\ UNCHANGED <<table, page, sent, made, known, visits, raced, crowded>>

Serve(r) ==
    \E told \in BOOLEAN :
        \/ ServeList(r, told)
        \/ ServeCreate(r, told)
        \/ ServeRemove(r, told)
        \/ ServeCheck(r, told)
        \/ Refuse(r, told)
        \/ FailLookup(r, told)

(* The request never arrives, or what follows in the server fails: the     *)
(* statement of a list page, or the decision on a check whose key was      *)
(* accepted (CheckPath).                                                   *)
Fail(r) ==
    /\ r \in flight
    /\ r.answer = None
    /\ Answered(r, "failed", << >>)
    /\ raced' = IF r.op = "list" THEN raced \cup ({r.tab} \cap Tabs) ELSE raced
    /\ UNCHANGED <<table, page, sent, made, known, visits, crowded>>

Init ==
    /\ table = [k \in Kinds |->
                  IF k = "limits" THEN << >>
                  ELSE [n \in 1 .. Existing |->
                          [id |-> Existing - n, version |-> Existing - n, revoked |-> FALSE]]]
    /\ page = [t \in Tabs |-> Closed]
    /\ flight = {}
    /\ sent = 0
    /\ made = Existing
    /\ known = 0 .. Existing - 1
    /\ visits \in Visits
    /\ raced = {}
    /\ crowded = {}

(* The bound on requests is used up and every page is closed.              *)
Settled ==
    /\ sent = MaxRequests
    /\ flight = {}
    /\ \A t \in Tabs : ~Mounted(t)
    /\ UNCHANGED vars

Next ==
    \/ \E t \in Tabs, kind \in Kinds : Mount(t, kind)
    \/ \E t \in Tabs : \/ MountPlayground(t)
                       \/ Leave(t)
                       \/ Dismiss(t)
                       \/ ClickCheckUnfilled(t)
                       \/ ClearHistory(t)
    \/ \E t \in Tabs, key \in known : ClickCheck(t, key)
    \/ \E t \in Tabs, id \in Identifiers \cup {None} : ClickCreate(t, id)
    \/ \E t \in Tabs, id \in Identifiers \cup 0 .. made : ClickRemove(t, id)
    \/ \E r \in flight : Serve(r) \/ Fail(r) \/ Receive(r)
    \/ Settled

Spec == Init /\ [][Next]_vars

(* The server answers, or the connection breaks and fetch rejects; then    *)
(* the continuation runs.  Users need not do anything.                     *)
FairSpec == Spec /\ WF_vars(\E r \in flight : Serve(r) \/ Fail(r))
                 /\ WF_vars(\E r \in flight : Receive(r))

-----------------------------------------------------------------------------
(***************************************************************************)
(* Properties.                                                             *)
(***************************************************************************)

TypeOK ==
    /\ table \in [Kinds -> Seq(Row)]
    /\ page \in [Tabs -> Page \cup Playground \cup {Closed}]
    /\ flight \in SUBSET Request
    /\ sent \in Nat
    /\ made \in Nat
    /\ known \in SUBSET Nat
    /\ visits \in Visits
    /\ raced \in SUBSET Tabs
    /\ crowded \in SUBSET Tabs

Quiet(t) == Mounted(t) /\ \A r \in flight : r.tab # t

(* A page with nothing under way shows what a reload would show, row by    *)
(* row, although it never asks again: the edits it makes of its copy       *)
(* (limits/page.tsx:83 and 106, api-keys/page.tsx:74 and 93) are those the *)
(* table saw.  It does not after one of these races: its list failed; it   *)
(* created while the list was loading; it created two keys at a time (by   *)
(* Enter, api-keys/page.tsx:191); it created and deleted the same          *)
(* identifier at a time; or the table was changed, after its list was      *)
(* read, by another tab or by a request of its own that it was told had    *)
(* failed.                                                                 *)
PageShowsTable ==
    \A t \in Tabs :
        (Quiet(t) /\ page[t].kind \in Kinds /\ t \notin raced) =>
            Screen(page[t]) = Screen([page[t] EXCEPT !.loading = FALSE, !.failed = FALSE,
                                                     !.removing = None,
                                                     !.rows = table[page[t].kind]])

(* Who removes a row is not told that it is missing (the alert of          *)
(* limits/page.tsx:108), unless somebody else changed the table, or the    *)
(* user had two removals under way: the page remembers one only (line 43), *)
(* so the end of either enables both rows' buttons again.                  *)
MissingMeansForeign ==
    \A r \in flight :
        r.answer = "missing" => r.tab \in raced \cup crowded

(* No page shows an identifier or a key twice, however creations meet in   *)
(* the table (store.go:185-200), apart from the races above.               *)
OneConfigEach ==
    \A t \in Tabs :
        (Mounted(t) /\ page[t].kind \in Kinds /\ t \notin raced) =>
            \A m, n \in DOMAIN page[t].rows :
                page[t].rows[m].id = page[t].rows[n].id => m = n

(* Once some page shows a key as revoked (api-keys/page.tsx:93), no check  *)
(* that is sent with it from then on is decided, in this tab or another,   *)
(* whatever order the answers come in (apikey_auth.go:27).  A refusal says *)
(* less: keys in force are refused as well, when they cannot be looked up. *)
RevokedIsRefused ==
    \A r \in flight : (r.op = "check" /\ r.answer = "ok") => ~r.late

(* The playground's log lists decisions in the order they were asked for,  *)
(* each once, and the panel shows the newest of them, although handleCheck *)
(* takes answers as they come (playground/page.tsx:101-113): what keeps    *)
(* them in order is the disabled button.                                   *)
LogInOrder ==
    \A t \in Tabs :
        (Mounted(t) /\ page[t].kind = "playground") =>
            LET shown == PlaygroundScreen(page[t])
            IN  /\ \A m, n \in DOMAIN shown.log : m < n => shown.log[m] > shown.log[n]
                /\ shown.log # << >> => shown.result = shown.log[1]

(* The pages' "...", "Creating..." and "CHECKING..." end, whatever fails.  *)
SpinnersStop ==
    \A t \in Tabs :
        LET busy == /\ Mounted(t)
                    /\ \/ page[t].loading
                       \/ page[t].kind \in Kinds /\ (page[t].creating \/ page[t].removing # None)
        IN  busy ~> ~busy
=============================================================================
