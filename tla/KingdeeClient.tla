--------------------------- MODULE KingdeeClient ---------------------------
(***************************************************************************)
(* The process-wide client of the Kingdee API (internal/kind/client.go)    *)
(* with the retry loop and the circuit breaker every request goes through. *)
(* Callers share one session: whoever finds it missing logs in behind the  *)
(* login gate, whoever is told that it is lost gives it up and logs in     *)
(* again, and the keep-alive goroutine renews it at every tick.            *)
(*                                                                         *)
(* The breaker is the library gobreaker, modelled from how circuit.go sets *)
(* it up. Time is not modelled: a back-off, a wait for the rate limiter    *)
(* and the breaker's time-out end at any moment, and a deadline is a       *)
(* cancelled context.                                                      *)
(***************************************************************************)
EXTENDS Naturals, Sequences

CONSTANTS
    Callers,        \* goroutines that call the client
    KeepAlive,      \* the keep-alive goroutine
    Nobody,         \* nobody holds the gate
    Mixes,          \* what the callers may ask for, see Ops
    Rows,           \* rows in Kingdee of the form each caller asks for
    Months,         \* months of the balance report asked for
    PageSize,       \* rows of a full page
    MaxPages,       \* cap of pages of a query
    Attempts,       \* attempts of a request
    Threshold,      \* failures that trip the breaker
    MaxFaults,      \* bound on failing requests
    MaxExpiries,    \* bound on the expiries of sessions in Kingdee
    MaxTicks        \* bound on the ticks of the keep-alive

\* A query of a form, a single page of it, the balance report month by month
\* (QueryAccountBalanceContext), a test of the connection (TestConnection).
Ops == {"query", "single", "balance", "test"}

Actors == Callers \cup {KeepAlive}

ASSUME ClientAssumption ==
    /\ KeepAlive \notin Callers
    /\ Nobody \notin Actors
    /\ Mixes \subseteq [Callers -> Ops]
    /\ Rows \in [Callers -> Nat]
    /\ {Months, MaxFaults, MaxExpiries, MaxTicks} \subseteq Nat
    /\ {PageSize, MaxPages, Attempts, Threshold} \subseteq Nat \ {0}

VARIABLES
    \* the client, under c.mu
    loggedIn,       \* c.loggedIn
    session,        \* c.sessionID, 0 when empty
    gate,           \* the actor whose token is in loginGate: it is logging in
    \* the circuit breaker
    breaker,
    \* each actor
    op,             \* what a caller asks for
    pc,             \* where it is
    stopped,        \* its context is cancelled
    req,            \* its request: the breaker's generation that let it through,
                    \* attempts made, session cookie the last was sent with
    res,            \* a caller's currentRow (or months done), pageIndex, rows
    \* Kingdee
    cookie,         \* the latest session, which the cookie jar holds
    expired,        \* the sessions up to this one are refused
    \* bounds, and a history of the logins
    faults, expiries, ticks,
    logins,         \* logins Kingdee granted
    lost,           \* times a usable session was given up
    blank           \* logins granted without a session id

client == <<loggedIn, session, gate>>
kingdee == <<cookie, expired>>
bounds == <<faults, expiries, ticks>>
history == <<logins, lost, blank>>
vars == <<client, breaker, op, pc, stopped, req, res, kingdee, bounds, history>>

Ended == {"done", "failed", "idle"}

NoRequest == [gen |-> 0, tries |-> 0, sent |-> 0]
NoResult == [row |-> 0, page |-> 0, rows |-> <<>>]

Init ==
    /\ loggedIn = FALSE /\ session = 0 /\ gate = Nobody
    /\ \E n \in 0 .. Threshold - 1 :    \* earlier calls may have failed
          breaker = [state |-> "closed", failures |-> n, probing |-> FALSE, gen |-> 0]
    /\ op \in Mixes
    /\ pc = [a \in Actors |-> IF a = KeepAlive THEN "idle" ELSE "new"]
    /\ stopped = [a \in Actors |-> FALSE]
    /\ req = [a \in Actors |-> NoRequest]
    /\ res = [c \in Callers |-> NoResult]
    /\ cookie = 0 /\ expired = 0
    /\ faults = 0 /\ expiries = 0 /\ ticks = 0
    /\ logins = 0 /\ lost = 0 /\ blank = 0

\* The actor moves on; a call that ends gives its context back.
Goes(a, where) ==
    /\ pc' = [pc EXCEPT ![a] = where]
    /\ stopped' = [stopped EXCEPT ![a] = @ /\ where \notin Ended]

-----------------------------------------------------------------------------
\* The breaker

Turned(b, state) ==
    [state |-> state, failures |-> 0, probing |-> FALSE, gen |-> b.gen + 1]

\* Mutant: half-open is as good as closed.
AdmitsUnlessOpen(b) == b.state # "open"

\* Half-open, one call at a time is let through (MaxRequests).
Admits(b) == b.state = "closed" \/ (b.state = "half-open" /\ ~b.probing)

Admitted(b) == [b EXCEPT !.probing = (b.state = "half-open")]

\* Failures are counted in total since the last change of state (ReadyToTrip).
Trips(b) == b.state = "half-open" \/ b.failures + 1 >= Threshold

\* A call that was let through in an earlier state is not counted.
Counted(b, g, success) ==
    CASE g # b.gen -> b
      [] g = b.gen /\ success ->
            IF b.state = "half-open" THEN Turned(b, "closed") ELSE b
      [] g = b.gen /\ ~success ->
            IF Trips(b) THEN Turned(b, "open") ELSE [b EXCEPT !.failures = @ + 1]

CoolDown ==
    /\ breaker.state = "open"
    /\ breaker' = Turned(breaker, "half-open")
    /\ UNCHANGED <<client, op, pc, stopped, req, res, kingdee, bounds, history>>

-----------------------------------------------------------------------------
\* LoginContext

\* Where a call of LoginContext gets at once: it looks at its context first.
AtGate(a) == IF stopped[a] THEN "failed" ELSE "gate"

\* The session LoginContext takes for good.
Usable == loggedIn /\ session # 0

\* Where the caller goes on after LoginContext.
Onward(a) ==
    CASE a = KeepAlive -> "idle"
      [] a \in Callers /\ op[a] = "test" -> "done"
      [] a \in Callers /\ op[a] # "test" -> "turn"

\* Mutant: the token stays in the gate.
GateKept(a) == gate

GateWithout(a) == IF gate = a THEN Nobody ELSE gate

\* The caller's operation ends with an error; a deferred call frees the gate.
Fail(a) ==
    /\ Goes(a, IF a = KeepAlive THEN "idle" ELSE "failed")
    /\ gate' = GateWithout(a)
    /\ req' = [req EXCEPT ![a] = NoRequest]
    /\ res' = [c \in Callers |-> IF c = a THEN NoResult ELSE res[c]]
    /\ UNCHANGED <<loggedIn, session, op, kingdee, history>>

Start(a) ==
    /\ pc[a] = "new"
    /\ Goes(a, AtGate(a))
    /\ UNCHANGED <<client, breaker, op, req, res, kingdee, bounds, history>>

\* Mutant: the session is looked at before the gate only.
AcquireUnchecked(a) ==
    /\ pc[a] = "gate" /\ gate = Nobody
    /\ Goes(a, "post") /\ gate' = a
    /\ UNCHANGED <<loggedIn, session, breaker, op, req, res, kingdee, bounds, history>>

Acquire(a) ==
    /\ pc[a] = "gate" /\ gate = Nobody
    /\ IF Usable
          THEN Goes(a, Onward(a)) /\ UNCHANGED gate
          ELSE Goes(a, "post") /\ gate' = a
    /\ UNCHANGED <<loggedIn, session, breaker, op, req, res, kingdee, bounds, history>>

\* Mutant: the context is looked at when the gate is free.
AcquireFirst(a) ==
    /\ pc[a] = "gate" /\ stopped[a] /\ gate = Nobody
    /\ Fail(a)
    /\ UNCHANGED <<breaker, bounds>>

AcquireCancelled(a) ==
    /\ pc[a] = "gate" /\ stopped[a]
    /\ Fail(a)
    /\ UNCHANGED <<breaker, bounds>>

-----------------------------------------------------------------------------
\* doPostWithRetryContext: the breaker around the retry loop

Admit(a) ==
    /\ pc[a] = "post" /\ ~stopped[a] /\ Admits(breaker)
    /\ breaker' = Admitted(breaker)
    /\ req' = [req EXCEPT ![a] = [gen |-> breaker.gen, tries |-> 0, sent |-> 0]]
    /\ Goes(a, "attempt")
    /\ UNCHANGED <<client, op, res, kingdee, bounds, history>>

Refuse(a) ==
    /\ pc[a] = "post" /\ (stopped[a] \/ ~Admits(breaker))
    /\ Fail(a)
    /\ UNCHANGED <<breaker, bounds>>

Send(a) ==
    /\ pc[a] = "attempt" /\ ~stopped[a]
    /\ req' = [req EXCEPT ![a] = [gen |-> @.gen, tries |-> @.tries + 1, sent |-> cookie]]
    /\ Goes(a, "sent")
    /\ UNCHANGED <<client, breaker, op, res, kingdee, bounds, history>>

\* A cancelled context ends the retry loop wherever it is, and the breaker
\* counts that as a failure.
Abort(a) ==
    /\ pc[a] \in {"attempt", "sent"} /\ stopped[a]
    /\ breaker' = Counted(breaker, req[a].gen, FALSE)
    /\ Fail(a)
    /\ UNCHANGED bounds

Fault == faults < MaxFaults /\ faults' = faults + 1 /\ UNCHANGED <<expiries, ticks>>

\* A network error or an HTTP 5xx that is tried again.
TryAgain(a) ==
    /\ pc[a] = "sent" /\ req[a].tries < Attempts
    /\ Fault
    /\ Goes(a, "attempt")
    /\ UNCHANGED <<client, breaker, op, req, res, kingdee, history>>

\* The last attempt fails, or one fails in a way that is not tried again (an
\* HTTP 429 does: its response is gone when shouldRetry looks at it).
PostFails(a) ==
    /\ pc[a] = "sent"
    /\ Fault
    /\ breaker' = Counted(breaker, req[a].gen, FALSE)
    /\ Fail(a)

\* Kingdee answers, but with another HTTP status than 200, a body that cannot
\* be read or decoded, a refused login or an API error: the breaker is content.
BadAnswer(a) ==
    /\ pc[a] = "sent"
    /\ Fault \/ (stopped[a] /\ UNCHANGED bounds)
    /\ breaker' = Counted(breaker, req[a].gen, TRUE)
    /\ Fail(a)

\* Kingdee grants the login, nearly always with a session id.
LoginGranted(a) ==
    /\ pc[a] = "sent" /\ gate = a
    /\ breaker' = Counted(breaker, req[a].gen, TRUE)
    /\ cookie' = cookie + 1
    /\ \/ session' = cookie' /\ UNCHANGED <<bounds, blank>>
       \/ session' = 0 /\ Fault /\ blank' = blank + 1
    /\ loggedIn' = TRUE
    /\ gate' = GateWithout(a)
    /\ logins' = logins + 1
    /\ req' = [req EXCEPT ![a] = NoRequest]
    /\ Goes(a, Onward(a))
    /\ UNCHANGED <<op, res, expired, lost>>

-----------------------------------------------------------------------------
\* QueryDataContext and QueryAccountBalanceContext

\* The head of the loop over pages, or over months.
Turn(a) ==
    /\ pc[a] = "turn"
    /\ IF op[a] = "balance"
          THEN /\ Goes(a, IF res[a].row = Months THEN "done"
                          ELSE IF stopped[a] THEN "failed" ELSE "post")
               /\ UNCHANGED res
          ELSE /\ res' = [res EXCEPT ![a].page = @ + 1]
               /\ Goes(a, IF res[a].page + 1 > MaxPages THEN "done" ELSE "post")
    /\ UNCHANGED <<client, breaker, op, req, kingdee, bounds, history>>

Smaller(x, y) == IF x < y THEN x ELSE y

\* How many rows (or months) Kingdee has from the caller's place.
PageLength(a) ==
    IF op[a] = "balance" THEN 1 ELSE Smaller(PageSize, Rows[a] - res[a].row)

\* The loop ends on an empty page, on a single one and on a short one.
AfterPage(a) ==
    IF op[a] # "balance" /\ (op[a] = "single" \/ PageLength(a) < PageSize)
    THEN "done" ELSE "turn"

PageAnswer(a) ==
    /\ pc[a] = "sent" /\ gate # a /\ req[a].sent > expired
    /\ breaker' = Counted(breaker, req[a].gen, TRUE)
    /\ res' = [res EXCEPT ![a] =
                  [row  |-> @.row + PageLength(a),
                   page |-> @.page,
                   rows |-> @.rows \o [i \in 1 .. PageLength(a) |-> @.row + i]]]
    /\ req' = [req EXCEPT ![a] = NoRequest]
    /\ Goes(a, AfterPage(a))
    /\ UNCHANGED <<client, op, kingdee, bounds, history>>

\* Mutant: a page that is asked for again counts.
PageCounted(a) == res[a].page

\* Mutant: a month that is asked for again counts less as well.
PageDropped(a) == res[a].page - 1

\* The page a query asks for again after a lost session is not counted twice.
PageAgain(a) == IF op[a] = "balance" THEN res[a].page ELSE res[a].page - 1

GiveUpSession ==
    /\ loggedIn' = FALSE
    /\ lost' = IF Usable THEN lost + 1 ELSE lost
    /\ UNCHANGED <<session, logins, blank>>

\* Kingdee refuses the session the request was sent with, which need not be
\* the one the client has by now.
SessionError(a) ==
    /\ pc[a] = "sent" /\ gate # a /\ req[a].sent <= expired
    /\ breaker' = Counted(breaker, req[a].gen, TRUE)
    /\ GiveUpSession
    /\ res' = [res EXCEPT ![a].page = PageAgain(a)]
    /\ req' = [req EXCEPT ![a] = NoRequest]
    /\ Goes(a, AtGate(a))
    /\ UNCHANGED <<gate, op, kingdee, bounds>>

-----------------------------------------------------------------------------
\* The keep-alive, the callers' contexts and Kingdee's sessions

\* Every tick gives the session up and logs in under a context of its own.
Tick ==
    /\ pc[KeepAlive] = "idle" /\ ticks < MaxTicks
    /\ ticks' = ticks + 1
    /\ IF Usable THEN GiveUpSession ELSE UNCHANGED <<loggedIn, session, history>>
    /\ Goes(KeepAlive, "gate")
    /\ UNCHANGED <<gate, breaker, op, req, res, kingdee, faults, expiries>>

\* A run is stopped or a deadline passes; a test has no context of a caller.
Cancel(a) ==
    /\ pc[a] \notin Ended \cup {"new"} /\ ~stopped[a]
    /\ a \in Callers => op[a] # "test"
    /\ stopped' = [stopped EXCEPT ![a] = TRUE]
    /\ UNCHANGED <<client, breaker, op, pc, req, res, kingdee, bounds, history>>

Expire ==
    /\ expiries < MaxExpiries
    /\ \E last \in expired + 1 .. cookie : expired' = last
    /\ expiries' = expiries + 1
    /\ UNCHANGED <<client, breaker, op, pc, stopped, req, res, cookie, faults, ticks,
                   history>>

-----------------------------------------------------------------------------
\* What the goroutine does by itself, and what Kingdee answers it.
Step(a) ==
    \/ Acquire(a) \/ AcquireCancelled(a)
    \/ Admit(a) \/ Refuse(a) \/ Send(a) \/ Abort(a)
    \/ a \in Callers /\ Turn(a)

Answer(a) ==
    \/ TryAgain(a) \/ PostFails(a) \/ BadAnswer(a) \/ LoginGranted(a)
    \/ a \in Callers /\ (PageAnswer(a) \/ SessionError(a))

Next ==
    \/ \E a \in Actors : Step(a) \/ Answer(a) \/ Cancel(a)
    \/ \E c \in Callers : Start(c)
    \/ Tick \/ CoolDown \/ Expire

Spec == Init /\ [][Next]_vars

\* Goroutines run; Kingdee need not answer.
FairSpec == Spec /\ \A a \in Actors : WF_vars(Step(a))

-----------------------------------------------------------------------------
\* Properties

TypeOK ==
    /\ loggedIn \in BOOLEAN
    /\ session \in Nat
    /\ gate \in Actors \cup {Nobody}
    /\ breaker \in [state : {"closed", "open", "half-open"}, failures : Nat,
                    probing : BOOLEAN, gen : Nat]
    /\ op \in [Callers -> Ops]
    /\ pc \in [Actors -> Ended \cup {"new", "gate", "post", "attempt", "sent", "turn"}]
    /\ stopped \in [Actors -> BOOLEAN]
    /\ req \in [Actors -> [gen : Nat, tries : 0 .. Attempts, sent : Nat]]
    /\ res \in [Callers -> [row : Nat, page : 0 .. MaxPages + 1, rows : Seq(Nat)]]
    /\ {cookie, expired, faults, expiries, ticks, logins, lost, blank} \subseteq Nat

Promised(c) ==
    CASE op[c] = "query" -> Smaller(Rows[c], MaxPages * PageSize)
      [] op[c] = "single" -> Smaller(Rows[c], PageSize)
      [] op[c] = "balance" -> Months
      [] op[c] = "test" -> 0

\* Whatever sessions are lost on the way, a call that succeeds returns every
\* row it is meant to, once and in order: a page that is asked for again after
\* a new login is neither skipped nor added twice, nor does it cost a page of
\* the cap (client.go:517-527, 745-757).
ResultExact ==
    \A c \in Callers :
        /\ res[c].rows = [i \in 1 .. res[c].row |-> i]
        /\ pc[c] = "done" => Len(res[c].rows) = Promised(c)

\* The shared client logs in once, then only for a session that was given up
\* or that came without an id: callers that wait at the gate while one of them
\* logs in all use its session (client.go:127-132, 149-156).
LoginEconomy ==
    logins = lost + blank + (IF Usable THEN 1 ELSE 0)

\* Half-open, the breaker lets a single call through until that call has ended
\* with all its attempts (client.go:254, circuit.go:37-45).
InBreaker(a) == pc[a] \in {"attempt", "sent"} /\ req[a].gen = breaker.gen

OneProbe ==
    breaker.state = "half-open" =>
        \A a, b \in Actors : InBreaker(a) /\ InBreaker(b) => a = b

\* The token in the gate is that of a goroutine with a login in hand: no way out
\* of LoginContext leaves the callers behind it waiting (client.go:149).
GateHeld ==
    gate # Nobody => pc[gate] \in {"post", "attempt", "sent"}

\* A cancelled call comes back even if Kingdee never answers, also while
\* another caller's login keeps the gate (client.go:218-223).
CancelEnds ==
    \A c \in Callers : stopped[c] ~> pc[c] \in Ended
=============================================================================
