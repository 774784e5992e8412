----------------------- MODULE KingdeeClient_proofs -----------------------
(***************************************************************************)
(* Type correctness and the safety properties of KingdeeClient for every   *)
(* set of callers, every form, cap, threshold and number of faults.        *)
(***************************************************************************)
EXTENDS KingdeeClient, TLAPS

Pcs == Ended \cup {"new", "gate", "post", "attempt", "sent", "turn"}

Posting == {"post", "attempt", "sent"}

Breakers == [state : {"closed", "open", "half-open"}, failures : Nat,
             probing : BOOLEAN, gen : Nat]

Requests == [gen : Nat, tries : 0 .. Attempts, sent : Nat]

Results == [row : Nat, page : 0 .. MaxPages + 1, rows : Seq(Nat)]

\* Attempts are counted before they are made.
TriesInv ==
    \A a \in Actors :
        /\ pc[a] \in {"attempt"} => req[a].tries < Attempts
        /\ pc[a] \notin {"attempt", "sent"} => req[a].tries = 0

\* Whoever has its token in the gate is in a request.
GateInv == \A a \in Actors : gate = a => pc[a] \in Posting

\* Nobody logs in while there is a usable session.
SessionInv ==
    /\ gate # Nobody => ~Usable
    /\ LoginEconomy

\* No call is of a later state of the breaker, and half-open the breaker knows
\* of the one call it has let through.
BreakerInv ==
    /\ \A a \in Actors : pc[a] \in {"attempt", "sent"} => req[a].gen <= breaker.gen
    /\ breaker.state = "half-open" => \A a \in Actors : InBreaker(a) => breaker.probing
    /\ OneProbe

\* A caller that asks for a page, and one that does not.
Asking(c) == pc[c] \in Posting /\ gate # c
Waiting(c) == pc[c] \in {"new", "gate", "turn"} \/ (pc[c] \in Posting /\ gate = c)

\* How far a caller is: every page before the current one was a full one.
QueryInv(c) ==
    op[c] = "query" =>
        /\ pc[c] # "done" => res[c].page <= MaxPages
        /\ Waiting(c) => res[c].row = res[c].page * PageSize /\ res[c].row <= Rows[c]
        /\ Asking(c) => /\ res[c].page > 0 /\ res[c].row <= Rows[c]
                        /\ res[c].row = (res[c].page - 1) * PageSize

SingleInv(c) ==
    op[c] = "single" =>
        /\ Waiting(c) => res[c].page = 0 /\ res[c].row = 0
        /\ Asking(c) => res[c].page = 1 /\ res[c].row = 0

BalanceInv(c) ==
    op[c] = "balance" =>
        /\ res[c].page = 0
        /\ Waiting(c) => res[c].row <= Months
        /\ Asking(c) => res[c].row < Months

TestInv(c) ==
    op[c] = "test" =>
        /\ res[c].page = 0 /\ res[c].row = 0
        /\ pc[c] # "turn" /\ ~Asking(c)

Progress(c) ==
    /\ QueryInv(c) /\ SingleInv(c) /\ BalanceInv(c) /\ TestInv(c)
    /\ pc[c] = "done" => res[c].row = Promised(c)
    /\ res[c].rows = [i \in 1 .. res[c].row |-> i]

ProgressInv == \A c \in Callers : Progress(c)

IInv == TypeOK /\ TriesInv /\ GateInv /\ SessionInv /\ BreakerInv /\ ProgressInv

-----------------------------------------------------------------------------
\* The constants

\* Who the actors are.
LEMMA ActorsAre ==
    /\ KeepAlive \in Actors /\ KeepAlive \notin Callers /\ Nobody \notin Actors
    /\ \A c \in Callers : c \in Actors /\ c # KeepAlive
    /\ \A a \in Actors : a \in Callers \/ a = KeepAlive
BY ClientAssumption DEF Actors

\* The constants as numbers.
LEMMA Bounds ==
    /\ Months \in Nat /\ \A c \in Callers : Rows[c] \in Nat
    /\ PageSize \in Nat /\ PageSize > 0
    /\ MaxPages \in Nat /\ MaxPages > 0
    /\ Attempts \in Nat /\ Attempts > 0
    /\ Threshold \in Nat /\ Threshold > 0
BY ClientAssumption

\* The types one by one, as the steps below use them.
LEMMA Typing ==
    ASSUME TypeOK
    PROVE  /\ loggedIn \in BOOLEAN /\ session \in Nat
           /\ gate \in Actors \cup {Nobody}
           /\ breaker \in Breakers
           /\ op \in [Callers -> Ops]
           /\ pc \in [Actors -> Pcs]
           /\ stopped \in [Actors -> BOOLEAN]
           /\ req \in [Actors -> Requests]
           /\ res \in [Callers -> Results]
           /\ cookie \in Nat /\ expired \in Nat
           /\ faults \in Nat /\ expiries \in Nat /\ ticks \in Nat
           /\ logins \in Nat /\ lost \in Nat /\ blank \in Nat
BY Zenon DEF TypeOK, Breakers, Pcs, Requests, Results

-----------------------------------------------------------------------------
\* What the helpers do

\* The breaker stays a breaker, its generations only grow, and a call of the
\* present generation ends the trial of a half-open one.
LEMMA CountedBreaker ==
    ASSUME NEW b \in Breakers, NEW g \in Nat, NEW s \in BOOLEAN
    PROVE  /\ Counted(b, g, s) \in Breakers
           /\ \/ Counted(b, g, s) = b /\ ~(g = b.gen /\ b.state = "half-open")
              \/ /\ Counted(b, g, s).gen = b.gen + 1
                 /\ Counted(b, g, s).state # "half-open"
              \/ /\ b.state # "half-open"
                 /\ Counted(b, g, s).gen = b.gen /\ Counted(b, g, s).state = b.state
<1>1. CASE g # b.gen
  BY <1>1, SMT DEF Counted, Breakers
<1>2. CASE g = b.gen /\ s
  BY <1>2, SMT DEF Counted, Breakers, Turned
<1>3. CASE g = b.gen /\ ~s
  <2>1. CASE Trips(b)
    BY <1>3, <2>1, SMT DEF Counted, Breakers, Turned
  <2>2. CASE ~Trips(b)
    BY <1>3, <2>2, SMT DEF Counted, Breakers, Trips
  <2> QED BY <2>1, <2>2
<1> QED BY <1>1, <1>2, <1>3

\* Letting a call through marks a half-open breaker and changes nothing else.
LEMMA AdmittedBreaker ==
    ASSUME NEW b \in Breakers
    PROVE  /\ Admitted(b) \in Breakers
           /\ Admitted(b).gen = b.gen /\ Admitted(b).state = b.state
           /\ b.state = "half-open" => Admitted(b).probing
<1>1. (b.state = "half-open") \in BOOLEAN
  OBVIOUS
<1>2. Admitted(b) \in Breakers
  BY <1>1, Zenon DEF Admitted, Breakers
<1>3. /\ Admitted(b).gen = b.gen /\ Admitted(b).state = b.state
      /\ Admitted(b).probing = (b.state = "half-open")
  BY Zenon DEF Admitted, Breakers
<1> QED BY <1>2, <1>3

\* Where an actor may get to.
LEMMA Places ==
    ASSUME TypeOK, NEW a \in Actors
    PROVE  /\ Onward(a) \in {"idle", "done", "turn"}
           /\ a = KeepAlive => Onward(a) = "idle"
           /\ a \in Callers => Onward(a) = IF op[a] = "test" THEN "done" ELSE "turn"
           /\ AtGate(a) \in {"failed", "gate"}
           /\ AfterPage(a) \in {"done", "turn"}
           /\ GateWithout(a) \in Actors \cup {Nobody}
           /\ GateWithout(a) # a
           /\ gate # a => GateWithout(a) = gate
           /\ gate = a => GateWithout(a) = Nobody
<1>1. /\ gate \in Actors \cup {Nobody} /\ a # Nobody
      /\ a = KeepAlive \/ a \in Callers
      /\ KeepAlive \notin Callers
  BY ActorsAre, Typing
<1>2. /\ a = KeepAlive => Onward(a) = "idle"
      /\ a \in Callers => Onward(a) = IF op[a] = "test" THEN "done" ELSE "turn"
  <2>1. CASE a = KeepAlive
    BY <1>1, <2>1, SMT DEF Onward
  <2>2. CASE a \in Callers /\ op[a] = "test"
    BY <1>1, <2>2, SMT DEF Onward
  <2>3. CASE a \in Callers /\ op[a] # "test"
    BY <1>1, <2>3, SMT DEF Onward
  <2> QED BY <1>1, <2>1, <2>2, <2>3
<1>3. AtGate(a) \in {"failed", "gate"} /\ AfterPage(a) \in {"done", "turn"}
  BY Zenon DEF AtGate, AfterPage
<1>4. /\ GateWithout(a) \in Actors \cup {Nobody} /\ GateWithout(a) # a
      /\ gate # a => GateWithout(a) = gate
      /\ gate = a => GateWithout(a) = Nobody
  BY <1>1, SMT DEF GateWithout
<1> QED BY <1>1, <1>2, <1>3, <1>4

\* An actor that moves on changes its own place.
LEMMA GoesEffect ==
    ASSUME TypeOK, NEW a \in Actors, NEW w \in Pcs, Goes(a, w)
    PROVE  pc' = [pc EXCEPT ![a] = w] /\ stopped' \in [Actors -> BOOLEAN]
<1>1. pc' = [pc EXCEPT ![a] = w]
  BY Zenon DEF Goes
<1>2. (stopped[a] /\ w \notin Ended) \in BOOLEAN
  OBVIOUS
<1>3. stopped' \in [Actors -> BOOLEAN]
  BY <1>2, Typing, Zenon DEF Goes
<1> QED
  BY <1>1, <1>3

-----------------------------------------------------------------------------
\* What each action changes, without its guards on the context

\* A call that has failed.
Failing(a) ==
    /\ pc' = [pc EXCEPT ![a] = IF a = KeepAlive THEN "idle" ELSE "failed"]
    /\ stopped' \in [Actors -> BOOLEAN]
    /\ gate' = GateWithout(a)
    /\ req' = [req EXCEPT ![a] = NoRequest]
    /\ res' = [c \in Callers |-> IF c = a THEN NoResult ELSE res[c]]
    /\ UNCHANGED <<loggedIn, session, op, cookie, expired, logins, lost, blank>>

\* A call that fails is over, without the gate.
LEMMA FailEffect ==
    ASSUME TypeOK, NEW a \in Actors, Fail(a)
    PROVE  Failing(a)
<1> DEFINE w == IF a = KeepAlive THEN "idle" ELSE "failed"
<1>1. w \in Pcs
  BY DEF Pcs, Ended
<1>2. Goes(a, w)
  BY Zenon DEF Fail
<1> HIDE DEF w
<1>3. pc' = [pc EXCEPT ![a] = w] /\ stopped' \in [Actors -> BOOLEAN]
  BY <1>1, <1>2, GoesEffect
<1> QED
  BY <1>3, Zenon DEF w, Fail, Failing, kingdee, history

\* A failing call, which the breaker may have let through.
FailsHow(a) ==
    \/ pc[a] \in {"gate", "post"} /\ UNCHANGED breaker
    \/ /\ pc[a] \in {"attempt", "sent"}
       /\ \E s \in BOOLEAN : breaker' = Counted(breaker, req[a].gen, s)

\* The five ways to fail change the same things.
LEMMA FailingCall ==
    ASSUME TypeOK, NEW a \in Actors,
           AcquireCancelled(a) \/ Refuse(a) \/ Abort(a) \/ PostFails(a) \/ BadAnswer(a)
    PROVE  Failing(a) /\ FailsHow(a) /\ UNCHANGED <<expiries, ticks>> /\ faults' \in Nat
<1>1. CASE AcquireCancelled(a)
  BY <1>1, FailEffect, Typing, Zenon DEF AcquireCancelled, FailsHow, bounds
<1>2. CASE Refuse(a)
  BY <1>2, FailEffect, Typing, Zenon DEF Refuse, FailsHow, bounds
<1>3. CASE Abort(a)
  BY <1>3, FailEffect, Typing, Zenon DEF Abort, FailsHow, bounds
<1>4. ASSUME Fault PROVE faults' \in Nat /\ UNCHANGED <<expiries, ticks>>
  BY <1>4, Typing DEF Fault
<1>5. CASE PostFails(a)
  BY <1>5, <1>4, FailEffect, Zenon DEF PostFails, FailsHow
<1>6. CASE BadAnswer(a)
  <2>1. faults' \in Nat /\ UNCHANGED <<expiries, ticks>>
    BY <1>4, <1>6, Typing, Zenon DEF BadAnswer, bounds
  <2> QED
    BY <1>6, <2>1, FailEffect, Zenon DEF BadAnswer, FailsHow
<1> QED
  BY <1>1, <1>2, <1>3, <1>5, <1>6

\* A caller at the free gate takes the session or the gate.
LEMMA AcquireEffect ==
    ASSUME TypeOK, NEW a \in Actors, Acquire(a)
    PROVE  /\ pc[a] = "gate" /\ gate = Nobody
           /\ \/ Usable /\ pc' = [pc EXCEPT ![a] = Onward(a)] /\ gate' = gate
              \/ ~Usable /\ pc' = [pc EXCEPT ![a] = "post"] /\ gate' = a
           /\ stopped' \in [Actors -> BOOLEAN]
           /\ UNCHANGED <<loggedIn, session, breaker, op, req, res, cookie, expired,
                          faults, expiries, ticks, logins, lost, blank>>
<1>1. Onward(a) \in Pcs /\ "post" \in Pcs
  BY Places DEF Pcs, Ended
<1>2. UNCHANGED <<loggedIn, session, breaker, op, req, res, cookie, expired,
                  faults, expiries, ticks, logins, lost, blank>>
  BY Zenon DEF Acquire, kingdee, bounds, history
<1>3. CASE Usable
  BY <1>1, <1>2, <1>3, GoesEffect, Zenon DEF Acquire
<1>4. CASE ~Usable
  BY <1>1, <1>2, <1>4, GoesEffect, Zenon DEF Acquire
<1> QED
  BY <1>3, <1>4

\* A call enters the breaker.
LEMMA AdmitEffect ==
    ASSUME TypeOK, NEW a \in Actors, Admit(a)
    PROVE  /\ pc[a] = "post" /\ Admits(breaker)
           /\ breaker' = Admitted(breaker)
           /\ req' = [req EXCEPT ![a] = [gen |-> breaker.gen, tries |-> 0, sent |-> 0]]
           /\ pc' = [pc EXCEPT ![a] = "attempt"]
           /\ stopped' \in [Actors -> BOOLEAN]
           /\ UNCHANGED <<loggedIn, session, gate, op, res, cookie, expired,
                          faults, expiries, ticks, logins, lost, blank>>
<1>1. "attempt" \in Pcs
  BY DEF Pcs
<1> QED
  BY <1>1, GoesEffect, Zenon DEF Admit, client, kingdee, bounds, history

\* An attempt is sent with the latest session.
LEMMA SendEffect ==
    ASSUME TypeOK, NEW a \in Actors, Send(a)
    PROVE  /\ pc[a] = "attempt"
           /\ req' = [req EXCEPT ![a] = [gen |-> req[a].gen, tries |-> req[a].tries + 1,
                                       sent |-> cookie]]
           /\ pc' = [pc EXCEPT ![a] = "sent"]
           /\ stopped' \in [Actors -> BOOLEAN]
           /\ UNCHANGED <<loggedIn, session, gate, breaker, op, res, cookie, expired,
                          faults, expiries, ticks, logins, lost, blank>>
<1>1. "sent" \in Pcs
  BY DEF Pcs
<1> QED
  BY <1>1, GoesEffect, Zenon DEF Send, client, kingdee, bounds, history

\* The same request is tried again.
LEMMA TryAgainEffect ==
    ASSUME TypeOK, NEW a \in Actors, TryAgain(a)
    PROVE  /\ pc[a] = "sent" /\ req[a].tries < Attempts
           /\ pc' = [pc EXCEPT ![a] = "attempt"]
           /\ stopped' \in [Actors -> BOOLEAN] /\ faults' \in Nat
           /\ UNCHANGED <<loggedIn, session, gate, breaker, op, req, res, cookie, expired,
                          expiries, ticks, logins, lost, blank>>
<1>1. "attempt" \in Pcs
  BY DEF Pcs
<1>2. faults' \in Nat
  BY Typing DEF TryAgain, Fault
<1> QED
  BY <1>1, <1>2, GoesEffect, Zenon DEF TryAgain, Fault, client, kingdee,
     history

\* A login leaves the gate behind and a session in the client.
LEMMA LoginEffect ==
    ASSUME TypeOK, NEW a \in Actors, LoginGranted(a)
    PROVE  /\ pc[a] = "sent" /\ gate = a /\ gate' = Nobody
           /\ breaker' = Counted(breaker, req[a].gen, TRUE)
           /\ req' = [req EXCEPT ![a] = NoRequest]
           /\ pc' = [pc EXCEPT ![a] = Onward(a)]
           /\ stopped' \in [Actors -> BOOLEAN] /\ faults' \in Nat
           /\ cookie' = cookie + 1 /\ loggedIn' = TRUE /\ logins' = logins + 1
           /\ \/ session' = cookie' /\ blank' = blank
              \/ session' = 0 /\ blank' = blank + 1
           /\ UNCHANGED <<op, res, expired, expiries, ticks, lost>>
<1>1. Onward(a) \in Pcs
  BY Places DEF Pcs, Ended
<1>2. faults' \in Nat /\ UNCHANGED <<expiries, ticks>>
  BY Typing DEF LoginGranted, Fault, bounds
<1>3. gate = a /\ gate' = Nobody
  BY Places DEF LoginGranted
<1>4. \/ session' = cookie' /\ blank' = blank
      \/ session' = 0 /\ blank' = blank + 1
  BY Zenon DEF LoginGranted
<1>5. pc' = [pc EXCEPT ![a] = Onward(a)] /\ stopped' \in [Actors -> BOOLEAN]
  BY <1>1, GoesEffect, Zenon DEF LoginGranted
<1> QED
  BY <1>2, <1>3, <1>4, <1>5, Zenon DEF LoginGranted

\* A cancelled context changes nothing else.
LEMMA CancelEffect ==
    ASSUME TypeOK, NEW a \in Actors, Cancel(a)
    PROVE  /\ stopped' \in [Actors -> BOOLEAN]
           /\ UNCHANGED <<loggedIn, session, gate, breaker, op, pc, req, res, cookie, expired,
                          faults, expiries, ticks, logins, lost, blank>>
BY Typing, Zenon DEF Cancel, client, kingdee, bounds, history

\* The loops go on to the next page or month, or end.
LEMMA TurnEffect ==
    ASSUME TypeOK, NEW a \in Callers, Turn(a)
    PROVE  /\ pc[a] = "turn"
           /\ \/ /\ op[a] = "balance" /\ UNCHANGED res
                 /\ \/ res[a].row = Months /\ pc' = [pc EXCEPT ![a] = "done"]
                    \/ res[a].row # Months /\ pc' = [pc EXCEPT ![a] = "failed"]
                    \/ res[a].row # Months /\ pc' = [pc EXCEPT ![a] = "post"]
              \/ /\ op[a] # "balance" /\ res' = [res EXCEPT ![a].page = @ + 1]
                 /\ \/ res[a].page + 1 > MaxPages /\ pc' = [pc EXCEPT ![a] = "done"]
                    \/ ~(res[a].page + 1 > MaxPages) /\ pc' = [pc EXCEPT ![a] = "post"]
           /\ stopped' \in [Actors -> BOOLEAN]
           /\ UNCHANGED <<loggedIn, session, gate, breaker, op, req, cookie, expired,
                          faults, expiries, ticks, logins, lost, blank>>
<1>1. {"done", "failed", "post"} \subseteq Pcs /\ a \in Actors
  BY ActorsAre DEF Pcs, Ended
<1>2. UNCHANGED <<loggedIn, session, gate, breaker, op, req, cookie, expired,
                  faults, expiries, ticks, logins, lost, blank>>
  BY Zenon DEF Turn, client, kingdee, bounds, history
<1>3. CASE op[a] = "balance"
  <2>1. CASE res[a].row = Months
    BY <1>1, <1>2, <1>3, <2>1, GoesEffect, Zenon DEF Turn
  <2>2. CASE res[a].row # Months /\ stopped[a]
    BY <1>1, <1>2, <1>3, <2>2, GoesEffect, Zenon DEF Turn
  <2>3. CASE res[a].row # Months /\ ~stopped[a]
    BY <1>1, <1>2, <1>3, <2>3, GoesEffect, Zenon DEF Turn
  <2> QED
    BY <2>1, <2>2, <2>3
<1>4. CASE op[a] # "balance"
  <2>1. CASE res[a].page + 1 > MaxPages
    BY <1>1, <1>2, <1>4, <2>1, GoesEffect, Zenon DEF Turn
  <2>2. CASE ~(res[a].page + 1 > MaxPages)
    BY <1>1, <1>2, <1>4, <2>2, GoesEffect, Zenon DEF Turn
  <2> QED
    BY <2>1, <2>2
<1> QED
  BY <1>3, <1>4

\* A page is appended.
LEMMA PageEffect ==
    ASSUME TypeOK, NEW a \in Callers, PageAnswer(a)
    PROVE  /\ pc[a] = "sent" /\ gate # a
           /\ breaker' = Counted(breaker, req[a].gen, TRUE)
           /\ res' = [res EXCEPT ![a] =
                 [row |-> res[a].row + PageLength(a), page |-> res[a].page,
                  rows |-> res[a].rows
                             \o [i \in 1 .. PageLength(a) |-> res[a].row + i]]]
           /\ req' = [req EXCEPT ![a] = NoRequest]
           /\ pc' = [pc EXCEPT ![a] = AfterPage(a)]
           /\ stopped' \in [Actors -> BOOLEAN]
           /\ UNCHANGED <<loggedIn, session, gate, op, cookie, expired,
                          faults, expiries, ticks, logins, lost, blank>>
<1>1. AfterPage(a) \in Pcs /\ a \in Actors
  BY ActorsAre, Places DEF Pcs, Ended
<1> QED
  BY <1>1, GoesEffect, Zenon DEF PageAnswer, client, kingdee, bounds, history

\* A refused session is given up, and its page asked for again.
LEMMA SessionErrorEffect ==
    ASSUME TypeOK, NEW a \in Callers, SessionError(a)
    PROVE  /\ pc[a] = "sent" /\ gate # a
           /\ breaker' = Counted(breaker, req[a].gen, TRUE)
           /\ loggedIn' = FALSE
           /\ lost' = IF Usable THEN lost + 1 ELSE lost
           /\ res' = [res EXCEPT ![a].page = PageAgain(a)]
           /\ req' = [req EXCEPT ![a] = NoRequest]
           /\ pc' = [pc EXCEPT ![a] = AtGate(a)]
           /\ stopped' \in [Actors -> BOOLEAN]
           /\ UNCHANGED <<session, gate, op, cookie, expired,
                          faults, expiries, ticks, logins, blank>>
<1>1. AtGate(a) \in Pcs /\ a \in Actors
  BY ActorsAre, Places DEF Pcs, Ended
<1> QED
  BY <1>1, GoesEffect, Zenon DEF SessionError, GiveUpSession, kingdee, bounds

\* A call starts.
LEMMA StartEffect ==
    ASSUME TypeOK, NEW a \in Callers, Start(a)
    PROVE  /\ pc[a] = "new" /\ pc' = [pc EXCEPT ![a] = AtGate(a)]
           /\ stopped' \in [Actors -> BOOLEAN]
           /\ UNCHANGED <<loggedIn, session, gate, breaker, op, req, res, cookie, expired,
                          faults, expiries, ticks, logins, lost, blank>>
<1>1. AtGate(a) \in Pcs /\ a \in Actors
  BY ActorsAre, Places DEF Pcs, Ended
<1> QED
  BY <1>1, GoesEffect, Zenon DEF Start, client, kingdee, bounds, history

\* A tick gives a usable session up.
LEMMA TickEffect ==
    ASSUME TypeOK, Tick
    PROVE  /\ pc[KeepAlive] = "idle" /\ pc' = [pc EXCEPT ![KeepAlive] = "gate"]
           /\ \/ Usable /\ loggedIn' = FALSE /\ lost' = lost + 1
              \/ ~Usable /\ UNCHANGED <<loggedIn, lost>>
           /\ stopped' \in [Actors -> BOOLEAN] /\ ticks' \in Nat
           /\ UNCHANGED <<session, gate, breaker, op, req, res, cookie, expired,
                          faults, expiries, logins, blank>>
<1>1. "gate" \in Pcs /\ KeepAlive \in Actors
  BY ActorsAre DEF Pcs
<1>2. ticks' \in Nat
  BY Typing DEF Tick
<1>3. CASE Usable
  BY <1>1, <1>2, <1>3, GoesEffect, Zenon DEF Tick, GiveUpSession, kingdee
<1>4. CASE ~Usable
  BY <1>1, <1>2, <1>4, GoesEffect, Zenon DEF Tick, kingdee, history
<1> QED
  BY <1>3, <1>4

\* The breaker turns half-open.
LEMMA CoolDownEffect ==
    ASSUME TypeOK, CoolDown
    PROVE  /\ breaker' = Turned(breaker, "half-open")
           /\ UNCHANGED <<loggedIn, session, gate, op, pc, stopped, req, res, cookie, expired,
                          faults, expiries, ticks, logins, lost, blank>>
BY Zenon DEF CoolDown, client, kingdee, bounds, history

\* Kingdee forgets sessions.
LEMMA ExpireEffect ==
    ASSUME TypeOK, Expire
    PROVE  /\ expired' \in Nat /\ expiries' \in Nat
           /\ UNCHANGED <<loggedIn, session, gate, breaker, op, pc, stopped, req, res, cookie,
                          faults, ticks, logins, lost, blank>>
<1>1. expired' \in Nat /\ expiries' \in Nat
  BY Typing DEF Expire
<1> QED
  BY <1>1, Zenon DEF Expire, client, history

\* A call that the breaker counts is out of it.
LEMMA LeavesBreaker ==
    ASSUME TypeOK, BreakerInv, NEW a \in Actors, NEW s \in BOOLEAN, NEW w,
           w \notin {"attempt", "sent"}, pc[a] \in {"attempt", "sent"},
           breaker' = Counted(breaker, req[a].gen, s),
           pc' = [pc EXCEPT ![a] = w],
           req' = [req EXCEPT ![a] = NoRequest]
    PROVE  BreakerInv'
<1>1. /\ pc'[a] \notin {"attempt", "sent"}
      /\ \A b \in Actors : b # a => pc'[b] = pc[b] /\ req'[b] = req[b]
      /\ \A b \in Actors : req[b].gen \in Nat
      /\ breaker \in Breakers /\ breaker.gen \in Nat
  BY Typing, SMT DEF Breakers, Requests
<1>2. \/ breaker' = breaker /\ ~(req[a].gen = breaker.gen /\ breaker.state = "half-open")
      \/ breaker'.gen = breaker.gen + 1 /\ breaker'.state # "half-open"
      \/ breaker'.gen = breaker.gen /\ breaker'.state # "half-open"
  BY <1>1, CountedBreaker, Zenon
<1>3. breaker'.gen \in Nat /\ breaker'.gen >= breaker.gen
  BY <1>1, <1>2, SMT
<1>4. \A b \in Actors : pc'[b] \in {"attempt", "sent"} => req'[b].gen <= breaker'.gen
  BY <1>1, <1>3, SMT DEF BreakerInv
<1>5. CASE breaker' = breaker
  <2>1. \A b \in Actors : InBreaker(b)' => InBreaker(b)
    BY <1>1, <1>5, Zenon DEF InBreaker
  <2> QED
    BY <2>1, <1>4, <1>5, Zenon DEF BreakerInv, OneProbe
<1>6. CASE breaker'.state # "half-open"
  BY <1>4, <1>6, Zenon DEF BreakerInv, OneProbe
<1> QED
  BY <1>2, <1>5, <1>6

\* Arithmetic of pages.
LEMMA PagesGrow ==
    ASSUME NEW p \in Nat, NEW q \in Nat, p <= q
    PROVE  p * PageSize <= q * PageSize
BY Bounds, SMT

\* One page more is one page size more.
LEMMA OnePageMore ==
    ASSUME NEW p \in Nat, p > 0
    PROVE  (p - 1) * PageSize + PageSize = p * PageSize
BY Bounds, SMT

\* The rows of a page continue those before it.
LEMMA RowsGrow ==
    ASSUME NEW n \in Nat, NEW k \in Nat
    PROVE  [i \in 1 .. n |-> i] \o [i \in 1 .. k |-> n + i] = [i \in 1 .. n + k |-> i]
BY SMT

\* A caller's progress depends on nothing but its place, its result, what it
\* asks for and whether it is logging in.
LEMMA Unmoved ==
    ASSUME NEW c \in Callers, Progress(c), op' = op, pc'[c] = pc[c], res'[c] = res[c],
           gate' = c <=> gate = c
    PROVE  Progress(c)'
BY Zenon DEF Progress, QueryInv, SingleInv, BalanceInv, TestInv, Waiting,
   Asking, Promised

\* A step of one caller leaves the others' progress alone.
LEMMA OthersUnmoved ==
    ASSUME TypeOK, ProgressInv, op' = op, NEW a \in Actors, NEW w, pc' = [pc EXCEPT ![a] = w],
           \A c \in Callers : c # a => res'[c] = res[c],
           \A c \in Callers : c # a => (gate' = c <=> gate = c),
           a \in Callers => Progress(a)'
    PROVE  ProgressInv'
<1> SUFFICES ASSUME NEW c \in Callers
             PROVE  Progress(c)'
  BY Zenon DEF ProgressInv
<1>1. CASE c = a
  BY <1>1
<1>2. CASE c # a
  <2>1. pc'[c] = pc[c]
    BY <1>2, ActorsAre, Typing, SMT
  <2>2. Progress(c) /\ res'[c] = res[c] /\ (gate' = c <=> gate = c)
    BY <1>2, Zenon DEF ProgressInv
  <2> QED
    BY <2>1, <2>2, Unmoved, Zenon
<1> QED
  BY <1>1, <1>2

\* A caller whose request goes on.
LEMMA StillPosting ==
    ASSUME NEW a \in Callers, Progress(a), op' = op, res'[a] = res[a], gate' = gate,
           pc[a] \in Posting, pc'[a] \in Posting
    PROVE  Progress(a)'
BY SMT DEF Progress, QueryInv, SingleInv, BalanceInv, TestInv, Waiting,
   Asking, Promised,
           Posting

\* A stuttering step changes nothing.
LEMMA StutterEffect ==
    ASSUME UNCHANGED vars
    PROVE  UNCHANGED <<loggedIn, session, gate, breaker, op, pc, stopped, req, res, cookie,
                       expired, faults, expiries, ticks, logins, lost, blank>>
BY Zenon DEF vars, client, kingdee, bounds, history

-----------------------------------------------------------------------------
\* Who makes an attempt has one left; who makes none has its count at zero.
LEMMA TriesPreserved ==
    IInv /\ [Next]_vars => TriesInv'
<1> SUFFICES ASSUME IInv, [Next]_vars
             PROVE  TriesInv'
  OBVIOUS
<1>t. TypeOK /\ TriesInv
  BY Zenon DEF IInv
<1>u. pc \in [Actors -> Pcs] /\ req \in [Actors -> Requests]
  BY <1>t, Typing, Zenon
<1>1. ASSUME NEW a \in Actors, Acquire(a)
     PROVE  TriesInv'
  BY <1>1, <1>t, <1>u, AcquireEffect, Places, SMT DEF TriesInv
<1>2. ASSUME NEW a \in Actors,
            AcquireCancelled(a) \/ Refuse(a) \/ Abort(a) \/ PostFails(a) \/ BadAnswer(a)
     PROVE  TriesInv'
  BY <1>2, <1>t, <1>u, FailingCall, SMT DEF TriesInv, Failing, NoRequest,
     Requests
<1>3. ASSUME NEW a \in Actors, Admit(a)
     PROVE  TriesInv'
  BY <1>3, <1>t, <1>u, AdmitEffect, Bounds, SMT DEF TriesInv, Requests
<1>4. ASSUME NEW a \in Actors, Send(a)
     PROVE  TriesInv'
  BY <1>4, <1>t, <1>u, SendEffect, Bounds, SMT DEF TriesInv, Requests
<1>5. ASSUME NEW a \in Actors, TryAgain(a)
     PROVE  TriesInv'
  BY <1>5, <1>t, <1>u, TryAgainEffect, Bounds, SMT DEF TriesInv, Requests
<1>6. ASSUME NEW a \in Actors, LoginGranted(a)
     PROVE  TriesInv'
  <2>1. /\ a \in Actors
        /\ pc' = [pc EXCEPT ![a] = Onward(a)] /\ Onward(a) \in {"idle", "done", "turn"}
        /\ req' = [req EXCEPT ![a] = NoRequest]
    BY <1>6, <1>t, LoginEffect, Places, ActorsAre, Zenon
  <2> QED
    BY <2>1, <1>t, <1>u, SMT DEF TriesInv, NoRequest
<1>7. ASSUME NEW a \in Actors, Cancel(a)
     PROVE  TriesInv'
  BY <1>7, <1>t, <1>u, CancelEffect, SMT DEF TriesInv
<1>8. ASSUME NEW a \in Callers, Turn(a)
     PROVE  TriesInv'
  BY <1>8, <1>t, <1>u, TurnEffect, ActorsAre, SMT DEF TriesInv
<1>9. ASSUME NEW a \in Callers, PageAnswer(a)
     PROVE  TriesInv'
  <2>1. /\ a \in Actors
        /\ pc' = [pc EXCEPT ![a] = AfterPage(a)] /\ AfterPage(a) \in {"done", "turn"}
        /\ req' = [req EXCEPT ![a] = NoRequest]
    BY <1>9, <1>t, PageEffect, Places, ActorsAre, Zenon
  <2> QED
    BY <2>1, <1>t, <1>u, SMT DEF TriesInv, NoRequest
<1>10. ASSUME NEW a \in Callers, SessionError(a)
     PROVE  TriesInv'
  <2>1. /\ a \in Actors
        /\ pc' = [pc EXCEPT ![a] = AtGate(a)] /\ AtGate(a) \in {"failed", "gate"}
        /\ req' = [req EXCEPT ![a] = NoRequest]
    BY <1>10, <1>t, SessionErrorEffect, Places, ActorsAre, Zenon
  <2> QED
    BY <2>1, <1>t, <1>u, SMT DEF TriesInv, NoRequest
<1>11. ASSUME NEW a \in Callers, Start(a)
     PROVE  TriesInv'
  BY <1>11, <1>t, <1>u, StartEffect, Places, ActorsAre, SMT DEF TriesInv
<1>12. ASSUME Tick
     PROVE  TriesInv'
  BY <1>12, <1>t, <1>u, TickEffect, ActorsAre, SMT DEF TriesInv
<1>13. ASSUME CoolDown
     PROVE  TriesInv'
  BY <1>13, <1>t, <1>u, CoolDownEffect, SMT DEF TriesInv
<1>14. ASSUME Expire
     PROVE  TriesInv'
  BY <1>14, <1>t, <1>u, ExpireEffect, SMT DEF TriesInv
<1>15. ASSUME UNCHANGED vars
     PROVE  TriesInv'
  BY <1>15, <1>t, <1>u, StutterEffect, SMT DEF TriesInv
<1> QED
  BY <1>1, <1>2, <1>3, <1>4, <1>5, <1>6, <1>7, <1>8, <1>9, <1>10, <1>11,
     <1>12, <1>13, <1>14, <1>15, Zenon
     DEF Next, Step, Answer

-----------------------------------------------------------------------------
\* Every way out of LoginContext takes the token along.
LEMMA GatePreserved ==
    IInv /\ [Next]_vars => GateInv'
<1> SUFFICES ASSUME IInv, [Next]_vars
             PROVE  GateInv'
  OBVIOUS
<1>t. TypeOK /\ GateInv
  BY Zenon DEF IInv
<1>u. pc \in [Actors -> Pcs] /\ gate \in Actors \cup {Nobody}
  BY <1>t, Typing, Zenon
<1>1. ASSUME NEW a \in Actors, Acquire(a)
     PROVE  GateInv'
  BY <1>1, <1>t, <1>u, AcquireEffect, Places, ActorsAre, SMT DEF GateInv,
     Posting
<1>2. ASSUME NEW a \in Actors,
            AcquireCancelled(a) \/ Refuse(a) \/ Abort(a) \/ PostFails(a) \/ BadAnswer(a)
     PROVE  GateInv'
  <2>1. /\ pc' = [pc EXCEPT ![a] = IF a = KeepAlive THEN "idle" ELSE "failed"]
        /\ gate' = GateWithout(a)
        /\ GateWithout(a) # a /\ GateWithout(a) \in {gate, Nobody}
        /\ Nobody \notin Actors
    BY <1>2, <1>t, FailingCall, Places, ActorsAre, Zenon DEF Failing
  <2> QED
    BY <2>1, <1>t, <1>u, SMT DEF GateInv
<1>3. ASSUME NEW a \in Actors, Admit(a)
     PROVE  GateInv'
  BY <1>3, <1>t, <1>u, AdmitEffect, SMT DEF GateInv, Posting
<1>4. ASSUME NEW a \in Actors, Send(a)
     PROVE  GateInv'
  BY <1>4, <1>t, <1>u, SendEffect, SMT DEF GateInv, Posting
<1>5. ASSUME NEW a \in Actors, TryAgain(a)
     PROVE  GateInv'
  BY <1>5, <1>t, <1>u, TryAgainEffect, SMT DEF GateInv, Posting
<1>6. ASSUME NEW a \in Actors, LoginGranted(a)
     PROVE  GateInv'
  <2>1. /\ a \in Actors
        /\ pc' = [pc EXCEPT ![a] = Onward(a)] /\ Onward(a) \in {"idle", "done", "turn"}
        /\ gate = a /\ gate' = Nobody /\ Nobody \notin Actors
    BY <1>6, <1>t, LoginEffect, Places, ActorsAre, Zenon
  <2> QED
    BY <2>1, <1>t, <1>u, SMT DEF GateInv
<1>7. ASSUME NEW a \in Actors, Cancel(a)
     PROVE  GateInv'
  BY <1>7, <1>t, <1>u, CancelEffect, SMT DEF GateInv
<1>8. ASSUME NEW a \in Callers, Turn(a)
     PROVE  GateInv'
  BY <1>8, <1>t, <1>u, TurnEffect, ActorsAre, SMT DEF GateInv, Posting
<1>9. ASSUME NEW a \in Callers, PageAnswer(a)
     PROVE  GateInv'
  <2>1. /\ a \in Actors
        /\ pc' = [pc EXCEPT ![a] = AfterPage(a)] /\ AfterPage(a) \in {"done", "turn"}
        /\ gate # a /\ gate' = gate
    BY <1>9, <1>t, PageEffect, Places, ActorsAre, Zenon
  <2> QED
    BY <2>1, <1>t, <1>u, SMT DEF GateInv
<1>10. ASSUME NEW a \in Callers, SessionError(a)
     PROVE  GateInv'
  <2>1. /\ a \in Actors
        /\ pc' = [pc EXCEPT ![a] = AtGate(a)] /\ AtGate(a) \in {"failed", "gate"}
        /\ gate # a /\ gate' = gate
    BY <1>10, <1>t, SessionErrorEffect, Places, ActorsAre, Zenon
  <2> QED
    BY <2>1, <1>t, <1>u, SMT DEF GateInv
<1>11. ASSUME NEW a \in Callers, Start(a)
     PROVE  GateInv'
  BY <1>11, <1>t, <1>u, StartEffect, Places, ActorsAre, SMT DEF GateInv,
     Posting
<1>12. ASSUME Tick
     PROVE  GateInv'
  <2>1. /\ KeepAlive \in Actors /\ pc[KeepAlive] = "idle"
        /\ pc' = [pc EXCEPT ![KeepAlive] = "gate"] /\ gate' = gate
    BY <1>12, <1>t, TickEffect, ActorsAre, Zenon
  <2> QED
    BY <2>1, <1>t, <1>u, SMT DEF GateInv, Posting
<1>13. ASSUME CoolDown
     PROVE  GateInv'
  BY <1>13, <1>t, <1>u, CoolDownEffect, SMT DEF GateInv
<1>14. ASSUME Expire
     PROVE  GateInv'
  BY <1>14, <1>t, <1>u, ExpireEffect, SMT DEF GateInv
<1>15. ASSUME UNCHANGED vars
     PROVE  GateInv'
  BY <1>15, <1>t, <1>u, StutterEffect, SMT DEF GateInv
<1> QED
  BY <1>1, <1>2, <1>3, <1>4, <1>5, <1>6, <1>7, <1>8, <1>9, <1>10, <1>11,
     <1>12, <1>13, <1>14, <1>15, Zenon
     DEF Next, Step, Answer

-----------------------------------------------------------------------------
\* Who has the gate saw no usable session, and none appears but by its own login.
LEMMA SessionPreserved ==
    IInv /\ [Next]_vars => SessionInv'
<1> SUFFICES ASSUME IInv, [Next]_vars
             PROVE  SessionInv'
  OBVIOUS
<1>t. TypeOK /\ SessionInv
  BY Zenon DEF IInv
<1>u. loggedIn \in BOOLEAN /\ session \in Nat /\ cookie \in Nat
      /\ logins \in Nat /\ lost \in Nat /\ blank \in Nat
  BY <1>t, Typing, Zenon
<1>1. ASSUME NEW a \in Actors, Acquire(a)
     PROVE  SessionInv'
  BY <1>1, <1>t, <1>u, AcquireEffect, Places, ActorsAre, SMT DEF SessionInv,
     LoginEconomy, Usable
<1>2. ASSUME NEW a \in Actors,
            AcquireCancelled(a) \/ Refuse(a) \/ Abort(a) \/ PostFails(a) \/ BadAnswer(a)
     PROVE  SessionInv'
  BY <1>2, <1>t, <1>u, FailingCall, Places, SMT DEF SessionInv, LoginEconomy,
     Usable, Failing
<1>3. ASSUME NEW a \in Actors, Admit(a)
     PROVE  SessionInv'
  BY <1>3, <1>t, <1>u, AdmitEffect, SMT DEF SessionInv, LoginEconomy, Usable
<1>4. ASSUME NEW a \in Actors, Send(a)
     PROVE  SessionInv'
  BY <1>4, <1>t, <1>u, SendEffect, SMT DEF SessionInv, LoginEconomy, Usable
<1>5. ASSUME NEW a \in Actors, TryAgain(a)
     PROVE  SessionInv'
  BY <1>5, <1>t, <1>u, TryAgainEffect, SMT DEF SessionInv, LoginEconomy, Usable
<1>6. ASSUME NEW a \in Actors, LoginGranted(a)
     PROVE  SessionInv'
  <2>1. /\ gate = a /\ a # Nobody /\ gate' = Nobody
        /\ loggedIn' = TRUE /\ logins' = logins + 1 /\ lost' = lost
        /\ \/ session' = cookie + 1 /\ blank' = blank
           \/ session' = 0 /\ blank' = blank + 1
    BY <1>6, <1>t, LoginEffect, ActorsAre, Zenon
  <2>2. ~Usable /\ logins = lost + blank
    BY <1>t, <1>u, <2>1, SMT DEF SessionInv, LoginEconomy
  <2>3. CASE session' = cookie + 1 /\ blank' = blank
    <3>1. Usable'
      BY <1>u, <2>1, <2>3, SMT DEF Usable
    <3> QED
      BY <1>u, <2>1, <2>2, <2>3, <3>1, SMT DEF SessionInv, LoginEconomy
  <2>4. CASE session' = 0 /\ blank' = blank + 1
    <3>1. ~Usable'
      BY <2>4, Zenon DEF Usable
    <3> QED
      BY <1>u, <2>1, <2>2, <2>4, <3>1, SMT DEF SessionInv, LoginEconomy
  <2> QED
    BY <2>1, <2>3, <2>4
<1>7. ASSUME NEW a \in Actors, Cancel(a)
     PROVE  SessionInv'
  BY <1>7, <1>t, <1>u, CancelEffect, SMT DEF SessionInv, LoginEconomy, Usable
<1>8. ASSUME NEW a \in Callers, Turn(a)
     PROVE  SessionInv'
  BY <1>8, <1>t, <1>u, TurnEffect, SMT DEF SessionInv, LoginEconomy, Usable
<1>9. ASSUME NEW a \in Callers, PageAnswer(a)
     PROVE  SessionInv'
  <2>1. UNCHANGED <<loggedIn, session, gate, logins, lost, blank>>
    BY <1>9, <1>t, PageEffect, Zenon
  <2> QED
    BY <2>1, <1>t, <1>u, SMT DEF SessionInv, LoginEconomy, Usable
<1>10. ASSUME NEW a \in Callers, SessionError(a)
     PROVE  SessionInv'
  <2>1. loggedIn' = FALSE /\ UNCHANGED <<session, gate, logins, blank>>
    BY <1>10, <1>t, SessionErrorEffect, Zenon
  <2>2. ~Usable'
    BY <2>1, Zenon DEF Usable
  <2>3. CASE Usable
    <3>1. lost' = lost + 1
      BY <1>10, <1>t, <2>3, SessionErrorEffect, Zenon
    <3> QED
      BY <1>t, <1>u, <2>1, <2>2, <2>3, <3>1, SMT DEF SessionInv, LoginEconomy
  <2>4. CASE ~Usable
    <3>1. lost' = lost
      BY <1>10, <1>t, <2>4, SessionErrorEffect, Zenon
    <3> QED
      BY <1>t, <1>u, <2>1, <2>2, <2>4, <3>1, SMT DEF SessionInv, LoginEconomy
  <2> QED
    BY <2>3, <2>4
<1>11. ASSUME NEW a \in Callers, Start(a)
     PROVE  SessionInv'
  BY <1>11, <1>t, <1>u, StartEffect, SMT DEF SessionInv, LoginEconomy, Usable
<1>12. ASSUME Tick
     PROVE  SessionInv'
  <2>1. UNCHANGED <<session, gate, logins, blank>>
    BY <1>12, <1>t, TickEffect, Zenon
  <2>2. CASE Usable /\ loggedIn' = FALSE /\ lost' = lost + 1
    <3>1. ~Usable'
      BY <2>2, Zenon DEF Usable
    <3> QED
      BY <1>t, <1>u, <2>1, <2>2, <3>1, SMT DEF SessionInv, LoginEconomy
  <2>3. CASE ~Usable /\ UNCHANGED <<loggedIn, lost>>
    <3>1. ~Usable'
      BY <2>1, <2>3, Zenon DEF Usable
    <3> QED
      BY <1>t, <1>u, <2>1, <2>3, <3>1, SMT DEF SessionInv, LoginEconomy
  <2> QED
    BY <1>12, <1>t, <2>2, <2>3, TickEffect, Zenon
<1>13. ASSUME CoolDown
     PROVE  SessionInv'
  BY <1>13, <1>t, <1>u, CoolDownEffect, SMT DEF SessionInv, LoginEconomy,
     Usable
<1>14. ASSUME Expire
     PROVE  SessionInv'
  BY <1>14, <1>t, <1>u, ExpireEffect, SMT DEF SessionInv, LoginEconomy, Usable
<1>15. ASSUME UNCHANGED vars
     PROVE  SessionInv'
  BY <1>15, <1>t, <1>u, StutterEffect, SMT DEF SessionInv, LoginEconomy, Usable
<1> QED
  BY <1>1, <1>2, <1>3, <1>4, <1>5, <1>6, <1>7, <1>8, <1>9, <1>10, <1>11,
     <1>12, <1>13, <1>14, <1>15, Zenon
     DEF Next, Step, Answer

-----------------------------------------------------------------------------
\* A call of an earlier state of the breaker no longer concerns it.
LEMMA BreakerPreserved ==
    IInv /\ [Next]_vars => BreakerInv'
<1> SUFFICES ASSUME IInv, [Next]_vars
             PROVE  BreakerInv'
  OBVIOUS
<1>t. TypeOK /\ BreakerInv
  BY Zenon DEF IInv
<1>u. pc \in [Actors -> Pcs] /\ req \in [Actors -> Requests] /\ breaker \in Breakers
  BY <1>t, Typing, Zenon
<1>g. breaker.gen \in Nat /\ \A a \in Actors : req[a].gen \in Nat
  BY <1>u DEF Breakers, Requests
<1>1. ASSUME NEW a \in Actors, Acquire(a)
     PROVE  BreakerInv'
  BY <1>1, <1>t, <1>u, AcquireEffect, Places, SMT DEF BreakerInv, OneProbe,
     InBreaker
<1>2. ASSUME NEW a \in Actors,
            AcquireCancelled(a) \/ Refuse(a) \/ Abort(a) \/ PostFails(a) \/ BadAnswer(a)
     PROVE  BreakerInv'
  <2>1. Failing(a) /\ FailsHow(a)
    BY <1>2, <1>t, FailingCall, Zenon
  <2>2. CASE pc[a] \in {"gate", "post"} /\ UNCHANGED breaker
    <3>1. \A b \in Actors : InBreaker(b)' => InBreaker(b)
      BY <1>u, <2>1, <2>2, SMT DEF Failing, InBreaker
    <3>2. \A b \in Actors : pc'[b] \in {"attempt", "sent"} =>
             pc[b] \in {"attempt", "sent"} /\ req'[b] = req[b]
      BY <1>u, <2>1, <2>2, SMT DEF Failing
    <3> QED
      BY <1>t, <2>2, <3>1, <3>2, Zenon DEF BreakerInv, OneProbe
  <2>3. CASE pc[a] \in {"attempt", "sent"}
    <3>1. PICK s \in BOOLEAN : breaker' = Counted(breaker, req[a].gen, s)
      BY <2>1, <2>3, Zenon DEF FailsHow
    <3>2. (IF a = KeepAlive THEN "idle" ELSE "failed") \notin {"attempt", "sent"}
      OBVIOUS
    <3> QED
      BY <1>t, <2>1, <2>3, <3>1, <3>2, LeavesBreaker, Zenon DEF Failing
  <2> QED
    BY <2>1, <2>2, <2>3, Zenon DEF FailsHow
<1>3. ASSUME NEW a \in Actors, Admit(a)
     PROVE  BreakerInv'
  <2>1. /\ pc' = [pc EXCEPT ![a] = "attempt"]
        /\ req' = [req EXCEPT ![a] = [gen |-> breaker.gen, tries |-> 0, sent |-> 0]]
    BY <1>3, <1>t, AdmitEffect, Zenon
  <2>2. /\ breaker'.gen = breaker.gen /\ breaker'.state = breaker.state
        /\ breaker.state = "half-open" => breaker'.probing /\ ~breaker.probing
    BY <1>3, <1>t, <1>u, AdmitEffect, AdmittedBreaker, Zenon DEF Admits
  <2>3. /\ req'[a].gen = breaker.gen
        /\ \A b \in Actors : b # a => pc'[b] = pc[b] /\ req'[b] = req[b]
    BY <1>u, <2>1, SMT
  <2>4. \A b \in Actors : pc'[b] \in {"attempt", "sent"} => req'[b].gen <= breaker'.gen
    BY <1>t, <1>g, <2>2, <2>3, SMT DEF BreakerInv
  <2>5. \A b \in Actors : InBreaker(b)' => b = a \/ InBreaker(b)
    BY <2>2, <2>3, Zenon DEF InBreaker
  <2> QED
    BY <1>t, <2>2, <2>4, <2>5, Zenon DEF BreakerInv, OneProbe
<1>4. ASSUME NEW a \in Actors, Send(a)
     PROVE  BreakerInv'
  BY <1>4, <1>t, <1>u, SendEffect, SMT DEF BreakerInv, OneProbe, InBreaker,
     Requests
<1>5. ASSUME NEW a \in Actors, TryAgain(a)
     PROVE  BreakerInv'
  BY <1>5, <1>t, <1>u, TryAgainEffect, SMT DEF BreakerInv, OneProbe,
     InBreaker, Requests
<1>6. ASSUME NEW a \in Actors, LoginGranted(a)
     PROVE  BreakerInv'
  <2>1. /\ a \in Actors /\ pc[a] \in {"attempt", "sent"}
        /\ Onward(a) \notin {"attempt", "sent"} /\ TRUE \in BOOLEAN
    BY <1>6, <1>t, LoginEffect, ActorsAre, Places, Zenon
  <2> QED
    BY <1>6, <1>t, <2>1, LoginEffect, LeavesBreaker, Zenon
<1>7. ASSUME NEW a \in Actors, Cancel(a)
     PROVE  BreakerInv'
  BY <1>7, <1>t, <1>u, CancelEffect, SMT DEF BreakerInv, OneProbe, InBreaker
<1>8. ASSUME NEW a \in Callers, Turn(a)
     PROVE  BreakerInv'
  BY <1>8, <1>t, <1>u, TurnEffect, ActorsAre, SMT DEF BreakerInv, OneProbe,
     InBreaker
<1>9. ASSUME NEW a \in Callers, PageAnswer(a)
     PROVE  BreakerInv'
  <2>1. /\ a \in Actors /\ pc[a] \in {"attempt", "sent"}
        /\ AfterPage(a) \notin {"attempt", "sent"} /\ TRUE \in BOOLEAN
    BY <1>9, <1>t, PageEffect, ActorsAre, Places, Zenon
  <2> QED
    BY <1>9, <1>t, <2>1, PageEffect, LeavesBreaker, Zenon
<1>10. ASSUME NEW a \in Callers, SessionError(a)
     PROVE  BreakerInv'
  <2>1. /\ a \in Actors /\ pc[a] \in {"attempt", "sent"}
        /\ AtGate(a) \notin {"attempt", "sent"} /\ TRUE \in BOOLEAN
    BY <1>10, <1>t, SessionErrorEffect, ActorsAre, Places, Zenon
  <2> QED
    BY <1>10, <1>t, <2>1, SessionErrorEffect, LeavesBreaker, Zenon
<1>11. ASSUME NEW a \in Callers, Start(a)
     PROVE  BreakerInv'
  BY <1>11, <1>t, <1>u, StartEffect, Places, ActorsAre, SMT DEF BreakerInv,
     OneProbe, InBreaker
<1>12. ASSUME Tick
     PROVE  BreakerInv'
  BY <1>12, <1>t, <1>u, TickEffect, ActorsAre, SMT DEF BreakerInv, OneProbe,
     InBreaker
<1>13. ASSUME CoolDown
     PROVE  BreakerInv'
  <2>1. /\ pc' = pc /\ req' = req
        /\ breaker'.gen = breaker.gen + 1 /\ breaker'.state = "half-open"
    BY <1>13, <1>t, CoolDownEffect, SMT DEF Turned
  <2>2. \A a \in Actors : ~InBreaker(a)'
    BY <1>t, <1>g, <2>1, SMT DEF BreakerInv, InBreaker
  <2>3. \A a \in Actors : pc'[a] \in {"attempt", "sent"} => req'[a].gen <= breaker'.gen
    BY <1>t, <1>g, <2>1, SMT DEF BreakerInv
  <2> QED
    BY <2>2, <2>3, Zenon DEF BreakerInv, OneProbe
<1>14. ASSUME Expire
     PROVE  BreakerInv'
  BY <1>14, <1>t, <1>u, ExpireEffect, SMT DEF BreakerInv, OneProbe, InBreaker
<1>15. ASSUME UNCHANGED vars
     PROVE  BreakerInv'
  BY <1>15, <1>t, <1>u, StutterEffect, SMT DEF BreakerInv, OneProbe, InBreaker
<1> QED
  BY <1>1, <1>2, <1>3, <1>4, <1>5, <1>6, <1>7, <1>8, <1>9, <1>10, <1>11,
     <1>12, <1>13, <1>14, <1>15, Zenon
     DEF Next, Step, Answer

\* Where a caller is tells whether it waits or asks for a page.
LEMMA NewPlace ==
    ASSUME NEW c \in Callers
    PROVE  /\ pc'[c] \in {"done", "failed"} => ~Waiting(c)' /\ ~Asking(c)'
           /\ pc'[c] = "turn" => Waiting(c)' /\ ~Asking(c)'
           /\ pc'[c] = "gate" => Waiting(c)' /\ ~Asking(c)'
           /\ pc'[c] = "post" /\ gate' # c => Asking(c)' /\ ~Waiting(c)'
BY SMT DEF Waiting, Asking, Posting

\* What each operation promises.
LEMMA Promises ==
    ASSUME NEW c \in Callers
    PROVE  /\ op'[c] = "query" => Promised(c)' = Smaller(Rows[c], MaxPages * PageSize)
           /\ op'[c] = "single" => Promised(c)' = Smaller(Rows[c], PageSize)
           /\ op'[c] = "balance" => Promised(c)' = Months
BY SMT DEF Promised

\* A caller has one operation.
LEMMA OneOperation ==
    ASSUME NEW c \in Callers,
           \/ op'[c] = "query" /\ QueryInv(c)'
           \/ op'[c] = "single" /\ SingleInv(c)'
           \/ op'[c] = "balance" /\ BalanceInv(c)',
           pc'[c] = "done" => res'[c].row = Promised(c)',
           res'[c].rows = [i \in 1 .. res'[c].row |-> i]
    PROVE  Progress(c)'
<1>1. op'[c] # "test" /\ TestInv(c)'
  BY SMT DEF TestInv
<1>2. /\ op'[c] # "query" => QueryInv(c)'
      /\ op'[c] # "single" => SingleInv(c)'
      /\ op'[c] # "balance" => BalanceInv(c)'
  BY Zenon DEF QueryInv, SingleInv, BalanceInv
<1>3. QueryInv(c)' /\ SingleInv(c)' /\ BalanceInv(c)'
  BY <1>2, SMT
<1> QED
  BY <1>1, <1>3, Zenon DEF Progress

\* Kingdee is asked for rows that are there, or for the empty page behind them.
LEMMA PageLengthType ==
    ASSUME NEW c \in Callers, Progress(c), op[c] \in Ops, Asking(c),
           res[c].row \in Nat, res[c].page \in Nat
    PROVE  PageLength(c) \in Nat
<1>1. op[c] # "balance" => res[c].row <= Rows[c]
  BY Bounds, SMT DEF Progress, QueryInv, SingleInv, TestInv, Ops
<1> QED
  BY <1>1, Bounds, SMT DEF PageLength, Smaller

-----------------------------------------------------------------------------
\* A caller goes on from full pages only, and ends with what it promised.
LEMMA ProgressPreserved ==
    IInv /\ [Next]_vars => ProgressInv'
<1> SUFFICES ASSUME IInv, [Next]_vars
             PROVE  ProgressInv'
  OBVIOUS
<1>t. TypeOK /\ ProgressInv
  BY Zenon DEF IInv
<1>u. pc \in [Actors -> Pcs] /\ op \in [Callers -> Ops]
      /\ res \in [Callers -> Results]
  BY <1>t, Typing, Zenon
<1>v. GateInv
  BY Zenon DEF IInv
<1>1. ASSUME NEW a \in Actors, Acquire(a)
     PROVE  ProgressInv'
  <2>1. /\ op' = op /\ res' = res /\ pc[a] = "gate" /\ gate = Nobody
        /\ gate' \in {Nobody, a}
    BY <1>1, <1>t, AcquireEffect, Zenon
  <2>2. \A c \in Callers : c # a => (gate' = c <=> gate = c)
    BY <2>1, ActorsAre, Zenon
  <2>3. PICK w \in Pcs : /\ pc' = [pc EXCEPT ![a] = w]
                         /\ \/ w = Onward(a) /\ gate' = Nobody
                            \/ w = "post" /\ gate' = a
    BY <1>1, <1>t, <2>1, AcquireEffect, Places, SMT DEF Pcs, Ended
  <2>4. ASSUME a \in Callers PROVE Progress(a)'
    <3>1. /\ Progress(a) /\ res'[a] = res[a] /\ op'[a] = op[a] /\ op[a] \in Ops /\ a # Nobody
          /\ pc'[a] = w
      BY <1>t, <1>u, <2>1, <2>3, <2>4, ActorsAre, SMT DEF ProgressInv
    <3>2. \/ pc'[a] = "done" /\ op[a] = "test" /\ gate' # a
          \/ pc'[a] = "turn" /\ op[a] # "test" /\ gate' # a
          \/ pc'[a] = "post" /\ gate' = a
      BY <1>t, <2>3, <2>4, <3>1, Places, SMT
    <3> QED
      BY <2>1, <3>1, <3>2, SMT DEF Progress, QueryInv, SingleInv, BalanceInv,
         TestInv, Waiting, Asking, Posting, Promised
  <2> QED
    BY <1>t, <2>1, <2>2, <2>3, <2>4, OthersUnmoved, Zenon
<1>2. ASSUME NEW a \in Actors,
            AcquireCancelled(a) \/ Refuse(a) \/ Abort(a) \/ PostFails(a) \/ BadAnswer(a)
     PROVE  ProgressInv'
  <2>1. /\ pc' = [pc EXCEPT ![a] = IF a = KeepAlive THEN "idle" ELSE "failed"]
        /\ op' = op /\ gate' = GateWithout(a)
        /\ res' = [c \in Callers |-> IF c = a THEN NoResult ELSE res[c]]
    BY <1>2, <1>t, FailingCall, Zenon DEF Failing
  <2>2. \A c \in Callers : c # a => res'[c] = res[c]
    BY <2>1, Zenon
  <2>3. \A c \in Callers : c # a => (gate' = c <=> gate = c)
    BY <1>t, <2>1, Places, ActorsAre, SMT
  <2>4. ASSUME a \in Callers PROVE Progress(a)'
    <3>1. /\ pc'[a] = "failed" /\ op'[a] = op[a] /\ gate' # a
          /\ res'[a] = NoResult
      BY <1>t, <1>u, <2>1, <2>4, Places, ActorsAre, SMT
    <3>2. res'[a].row = 0 /\ res'[a].page = 0 /\ res'[a].rows = <<>>
      BY <3>1, SMT DEF NoResult
    <3>3. <<>> = [i \in 1 .. 0 |-> i]
      BY SMT
    <3> QED
      BY <3>1, <3>2, <3>3, Bounds, SMT DEF Progress, QueryInv, SingleInv,
         BalanceInv, TestInv, Waiting, Asking, Posting, Promised
  <2> QED
    BY <1>t, <2>1, <2>2, <2>3, <2>4, OthersUnmoved, Zenon
<1>3. ASSUME NEW a \in Actors, Admit(a)
     PROVE  ProgressInv'
  <2>1. /\ pc[a] = "post" /\ pc' = [pc EXCEPT ![a] = "attempt"]
        /\ op' = op /\ res' = res /\ gate' = gate
    BY <1>3, <1>t, AdmitEffect, Zenon
  <2>2. pc[a] \in Posting /\ pc'[a] \in Posting
    BY <1>u, <2>1, SMT DEF Posting
  <2>3. a \in Callers => Progress(a)'
    BY <1>t, <2>1, <2>2, StillPosting, Zenon DEF ProgressInv
  <2> QED
    BY <1>t, <2>1, <2>3, OthersUnmoved, Zenon
<1>4. ASSUME NEW a \in Actors, Send(a)
     PROVE  ProgressInv'
  <2>1. /\ pc[a] = "attempt" /\ pc' = [pc EXCEPT ![a] = "sent"]
        /\ op' = op /\ res' = res /\ gate' = gate
    BY <1>4, <1>t, SendEffect, Zenon
  <2>2. pc[a] \in Posting /\ pc'[a] \in Posting
    BY <1>u, <2>1, SMT DEF Posting
  <2>3. a \in Callers => Progress(a)'
    BY <1>t, <2>1, <2>2, StillPosting, Zenon DEF ProgressInv
  <2> QED
    BY <1>t, <2>1, <2>3, OthersUnmoved, Zenon
<1>5. ASSUME NEW a \in Actors, TryAgain(a)
     PROVE  ProgressInv'
  <2>1. /\ pc[a] = "sent" /\ pc' = [pc EXCEPT ![a] = "attempt"]
        /\ op' = op /\ res' = res /\ gate' = gate
    BY <1>5, <1>t, TryAgainEffect, Zenon
  <2>2. pc[a] \in Posting /\ pc'[a] \in Posting
    BY <1>u, <2>1, SMT DEF Posting
  <2>3. a \in Callers => Progress(a)'
    BY <1>t, <2>1, <2>2, StillPosting, Zenon DEF ProgressInv
  <2> QED
    BY <1>t, <2>1, <2>3, OthersUnmoved, Zenon
<1>6. ASSUME NEW a \in Actors, LoginGranted(a)
     PROVE  ProgressInv'
  <2>1. /\ op' = op /\ res' = res /\ pc[a] = "sent" /\ gate = a /\ gate' = Nobody
        /\ pc' = [pc EXCEPT ![a] = Onward(a)]
    BY <1>6, <1>t, LoginEffect, Zenon
  <2>2. \A c \in Callers : c # a => (gate' = c <=> gate = c)
    BY <2>1, ActorsAre, Zenon
  <2>3. ASSUME a \in Callers PROVE Progress(a)'
    <3>1. /\ Progress(a) /\ res'[a] = res[a] /\ op'[a] = op[a] /\ op[a] \in Ops /\ gate' # a
      BY <1>t, <1>u, <2>1, <2>3, ActorsAre, SMT DEF ProgressInv
    <3>2. \/ pc'[a] = "done" /\ op[a] = "test"
          \/ pc'[a] = "turn" /\ op[a] # "test"
      BY <1>t, <1>u, <2>1, <2>3, Places, SMT
    <3> QED
      BY <2>1, <3>1, <3>2, SMT DEF Progress, QueryInv, SingleInv, BalanceInv,
         TestInv, Waiting, Asking, Posting, Promised
  <2> QED
    BY <1>t, <2>1, <2>2, <2>3, OthersUnmoved, Zenon
<1>7. ASSUME NEW a \in Actors, Cancel(a)
     PROVE  ProgressInv'
  <2>1. UNCHANGED <<op, pc, res, gate>>
    BY <1>7, <1>t, CancelEffect, Zenon
  <2> QED
    BY <1>t, <2>1, Unmoved, Zenon DEF ProgressInv
<1>8. ASSUME NEW a \in Callers, Turn(a)
     PROVE  ProgressInv'
  <2>1. /\ op' = op /\ pc[a] = "turn" /\ gate' = gate /\ a \in Actors
    BY <1>8, <1>t, TurnEffect, ActorsAre, Zenon
  <2>2. /\ Progress(a) /\ op'[a] = op[a] /\ op[a] \in Ops
        /\ res[a].row \in Nat /\ res[a].page \in Nat
    BY <1>t, <1>u, <2>1, SMT DEF ProgressInv, Results
  <2>3. gate # a
    BY <1>v, <2>1, SMT DEF GateInv, Posting
  <2>4. CASE op[a] = "balance"
    <3>1. PICK w : /\ pc' = [pc EXCEPT ![a] = w] /\ res' = res
                   /\ \/ res[a].row = Months /\ w = "done"
                      \/ res[a].row # Months /\ w \in {"failed", "post"}
      BY <1>8, <1>t, <2>4, TurnEffect, Zenon
    <3>2. pc'[a] = w /\ res'[a] = res[a]
      BY <1>u, <2>1, <3>1, SMT
    <3>3. Progress(a)'
      BY <2>1, <2>2, <2>3, <2>4, <3>1, <3>2, Bounds, SMT DEF Progress,
         QueryInv, SingleInv, BalanceInv, TestInv, Waiting, Asking, Posting,
         Promised
    <3> QED
      BY <1>t, <2>1, <3>1, <3>3, OthersUnmoved, Zenon
  <2>5. CASE op[a] # "balance"
    <3>1. PICK w : /\ pc' = [pc EXCEPT ![a] = w]
                   /\ \/ res[a].page + 1 > MaxPages /\ w = "done"
                      \/ ~(res[a].page + 1 > MaxPages) /\ w = "post"
      BY <1>8, <1>t, <2>5, TurnEffect, Zenon
    <3>2. res' = [res EXCEPT ![a].page = @ + 1]
      BY <1>8, <1>t, <2>5, TurnEffect, Zenon
    <3>3. /\ pc'[a] = w /\ res'[a].page = res[a].page + 1
          /\ res'[a].row = res[a].row /\ res'[a].rows = res[a].rows
      BY <1>u, <2>1, <3>1, <3>2, SMT DEF Results
    <3>4. \A c \in Callers : c # a => res'[c] = res[c]
      BY <1>u, <3>2, SMT
    <3>5. ASSUME op[a] = "query" PROVE Progress(a)'
      <4>1. /\ res[a].page <= MaxPages /\ res[a].row <= Rows[a]
            /\ res[a].row = res[a].page * PageSize
            /\ res[a].rows = [i \in 1 .. res[a].row |-> i]
        BY <2>1, <2>2, <3>5, SMT DEF Progress, QueryInv, Waiting
      <4>2. CASE res[a].page + 1 > MaxPages
        <5>1. res[a].page = MaxPages
          BY <2>2, <4>1, <4>2, Bounds, SMT
        <5>2. res[a].row = Smaller(Rows[a], MaxPages * PageSize)
          BY <2>2, <4>1, <5>1, Bounds, SMT DEF Smaller
        <5>3. pc'[a] = "done" /\ op'[a] = "query"
          BY <2>2, <3>1, <3>3, <3>5, <4>2, Zenon
        <5>4. QueryInv(a)'
          BY <5>3, NewPlace, Zenon DEF QueryInv
        <5>5. res'[a].row = Promised(a)'
          BY <3>3, <5>2, <5>3, Promises, Zenon
        <5>6. res'[a].rows = [i \in 1 .. res'[a].row |-> i]
          BY <3>3, <4>1, Zenon
        <5> QED
          BY <5>3, <5>4, <5>5, <5>6, OneOperation, Zenon
      <4>3. CASE ~(res[a].page + 1 > MaxPages)
        <5>1. res'[a].page - 1 = res[a].page /\ res'[a].page > 0 /\ res'[a].page <= MaxPages
          BY <2>2, <3>3, <4>3, Bounds, SMT
        <5>2. res'[a].row = (res'[a].page - 1) * PageSize /\ res'[a].row <= Rows[a]
          BY <3>3, <4>1, <5>1, Zenon
        <5>3. pc'[a] = "post" /\ gate' # a /\ res'[a].rows = [i \in 1 .. res'[a].row |-> i]
          BY <2>1, <2>3, <3>1, <3>3, <4>1, <4>3, Zenon
        <5>4. pc'[a] # "done" /\ op'[a] = "query"
          BY <2>2, <3>5, <5>3, SMT
        <5>5. QueryInv(a)'
          BY <5>1, <5>2, <5>3, NewPlace, Zenon DEF QueryInv
        <5> QED
          BY <5>3, <5>4, <5>5, OneOperation, Zenon
      <4> QED
        BY <4>2, <4>3
    <3>6. ASSUME op[a] # "query" PROVE Progress(a)'
      <4>1. op[a] = "single" /\ res[a].page = 0 /\ res[a].row = 0
        BY <2>1, <2>2, <2>5, <3>6, SMT DEF Progress, SingleInv, TestInv,
           Waiting, Ops
      <4>2. pc'[a] = "post" /\ res'[a].page = 1 /\ res'[a].row = 0 /\ gate' # a
        BY <2>1, <2>3, <3>1, <3>3, <4>1, Bounds, SMT
      <4>3. pc'[a] # "done" /\ op'[a] = "single"
        BY <2>2, <4>1, <4>2, SMT
      <4>4. SingleInv(a)'
        BY <4>2, NewPlace, Zenon DEF SingleInv
      <4>5. res'[a].rows = [i \in 1 .. res'[a].row |-> i]
        BY <2>2, <3>3, Zenon DEF Progress
      <4> QED
        BY <4>3, <4>4, <4>5, OneOperation, Zenon
    <3> QED
      BY <1>t, <2>1, <3>1, <3>4, <3>5, <3>6, OthersUnmoved, Zenon
  <2> QED
    BY <2>4, <2>5
<1>9. ASSUME NEW a \in Callers, PageAnswer(a)
     PROVE  ProgressInv'
  <2>1. /\ op' = op /\ pc[a] = "sent" /\ gate # a /\ gate' = gate /\ a \in Actors
        /\ pc' = [pc EXCEPT ![a] = AfterPage(a)]
    BY <1>9, <1>t, PageEffect, ActorsAre, Zenon
  <2>2. res' = [res EXCEPT ![a] =
                 [row |-> res[a].row + PageLength(a), page |-> res[a].page,
                  rows |-> res[a].rows
                             \o [i \in 1 .. PageLength(a) |-> res[a].row + i]]]
    BY <1>9, <1>t, PageEffect, Zenon
  <2>3. /\ Progress(a) /\ op'[a] = op[a] /\ op[a] \in Ops
        /\ res[a].row \in Nat /\ res[a].page \in Nat
    BY <1>t, <1>u, <2>1, SMT DEF ProgressInv, Results
  <2>4. /\ pc'[a] = AfterPage(a) /\ res'[a].page = res[a].page
        /\ res'[a].row = res[a].row + PageLength(a)
        /\ res'[a].rows = res[a].rows \o [i \in 1 .. PageLength(a) |-> res[a].row + i]
    <3> DEFINE n == PageLength(a)
               more == res[a].rows \o [i \in 1 .. n |-> res[a].row + i]
    <3>1. pc'[a] = AfterPage(a)
      BY <1>u, <2>1, Zenon
    <3>2. res'[a] = [row |-> res[a].row + n, page |-> res[a].page, rows |-> more]
      BY <1>u, <2>2, Zenon
    <3> HIDE DEF n, more
    <3>3. res'[a].page = res[a].page /\ res'[a].row = res[a].row + n /\ res'[a].rows = more
      BY <3>2, SMT
    <3> QED
      BY <3>1, <3>3, Zenon DEF n, more
  <2>5. \A c \in Callers : c # a => res'[c] = res[c]
    BY <1>u, <2>2, SMT
  <2>6. Asking(a)
    BY <2>1, Zenon DEF Asking, Posting
  <2>7. PageLength(a) \in Nat
    BY <2>3, <2>6, PageLengthType, Zenon
  <2>8. res'[a].rows = [i \in 1 .. res'[a].row |-> i]
    <3>1. res[a].rows = [i \in 1 .. res[a].row |-> i]
      BY <2>3, Zenon DEF Progress
    <3>2. res'[a].rows = [i \in 1 .. res[a].row |-> i]
                           \o [i \in 1 .. PageLength(a) |-> res[a].row + i]
      BY <2>4, <3>1, Zenon
    <3>3. res'[a].rows = [i \in 1 .. res[a].row + PageLength(a) |-> i]
      BY <2>3, <2>7, <3>2, RowsGrow, Zenon
    <3> QED
      BY <2>4, <3>3, Zenon
  <2>9. ASSUME op[a] = "query" PROVE Progress(a)'
    <3>1. /\ res[a].page > 0 /\ res[a].page <= MaxPages /\ res[a].row <= Rows[a]
          /\ res[a].row = (res[a].page - 1) * PageSize
      BY <2>1, <2>3, <2>6, <2>9, SMT DEF Progress, QueryInv
    <3>2. res[a].row + PageSize = res[a].page * PageSize
      BY <2>3, <3>1, OnePageMore, SMT
    <3>3. res[a].page * PageSize <= MaxPages * PageSize
      BY <2>3, <3>1, PagesGrow, Bounds
    <3>4. /\ res[a].page * PageSize \in Nat /\ MaxPages * PageSize \in Nat
          /\ PageLength(a) = Smaller(PageSize, Rows[a] - res[a].row)
          /\ AfterPage(a) = IF PageLength(a) < PageSize THEN "done" ELSE "turn"
      BY <2>3, <2>9, Bounds, SMT DEF PageLength, AfterPage
    <3>5. CASE PageLength(a) < PageSize
      <4>1. pc'[a] = "done" /\ res'[a].row = Rows[a] /\ Rows[a] <= MaxPages * PageSize
        BY <2>3, <2>4, <3>1, <3>2, <3>3, <3>4, <3>5, Bounds, SMTT(20) DEF Smaller
      <4>2. res'[a].row = Smaller(Rows[a], MaxPages * PageSize)
        BY <3>4, <4>1, Bounds, SMT DEF Smaller
      <4>3. QueryInv(a)'
        BY <4>1, NewPlace, Zenon DEF QueryInv
      <4>4. op'[a] = "query" /\ res'[a].row = Promised(a)'
        BY <2>3, <2>9, <4>2, Promises, Zenon
      <4> QED
        BY <2>8, <4>3, <4>4, OneOperation, Zenon
    <3>6. CASE ~(PageLength(a) < PageSize)
      <4>1. /\ pc'[a] = "turn" /\ res'[a].row <= Rows[a]
            /\ res'[a].row = res'[a].page * PageSize /\ res'[a].page <= MaxPages
        BY <2>3, <2>4, <3>1, <3>2, <3>4, <3>6, Bounds, SMTT(20) DEF Smaller
      <4>2. QueryInv(a)'
        BY <4>1, NewPlace, Zenon DEF QueryInv
      <4>3. op'[a] = "query" /\ pc'[a] # "done"
        BY <2>3, <2>9, <4>1, SMT
      <4> QED
        BY <2>8, <4>2, <4>3, OneOperation, Zenon
    <3> QED
      BY <3>5, <3>6
  <2>10. ASSUME op[a] = "single" PROVE Progress(a)'
    <3>1. res[a].row = 0 /\ res[a].page = 1 /\ AfterPage(a) = "done"
      BY <2>3, <2>6, <2>10, SMT DEF Progress, SingleInv, AfterPage
    <3>2. res'[a].row = Smaller(Rows[a], PageSize)
      BY <2>4, <2>10, <3>1, Bounds, SMT DEF PageLength, Smaller
    <3>3. SingleInv(a)'
      BY <2>4, <3>1, NewPlace, Zenon DEF SingleInv
    <3>4. op'[a] = "single" /\ res'[a].row = Promised(a)'
      BY <2>3, <2>10, <3>2, Promises, Zenon
    <3> QED
      BY <2>8, <3>3, <3>4, OneOperation, Zenon
  <2>11. ASSUME op[a] \notin {"query", "single"} PROVE Progress(a)'
    <3>1. op[a] = "balance" /\ res[a].row < Months /\ res[a].page = 0
      BY <2>3, <2>6, <2>11, SMT DEF Progress, BalanceInv, TestInv, Ops
    <3>2. PageLength(a) = 1 /\ AfterPage(a) = "turn"
      BY <3>1, SMT DEF PageLength, AfterPage
    <3>3. res'[a].row <= Months
      BY <2>3, <2>4, <3>1, <3>2, Bounds, SMT
    <3>4. op'[a] = "balance" /\ res'[a].page = 0 /\ pc'[a] = "turn"
      BY <2>3, <2>4, <3>1, <3>2, Zenon
    <3>5. BalanceInv(a)'
      BY <3>3, <3>4, NewPlace, Zenon DEF BalanceInv
    <3>6. pc'[a] # "done"
      BY <3>4, SMT
    <3> QED
      BY <2>8, <3>4, <3>5, <3>6, OneOperation, Zenon
  <2> QED
    BY <1>t, <2>1, <2>5, <2>9, <2>10, <2>11, OthersUnmoved, Zenon
<1>10. ASSUME NEW a \in Callers, SessionError(a)
     PROVE  ProgressInv'
  <2>1. /\ op' = op /\ pc[a] = "sent" /\ gate # a /\ gate' = gate /\ a \in Actors
        /\ pc' = [pc EXCEPT ![a] = AtGate(a)] /\ AtGate(a) \in {"failed", "gate"}
    BY <1>10, <1>t, SessionErrorEffect, Places, ActorsAre, Zenon
  <2>2. res' = [res EXCEPT ![a].page = PageAgain(a)]
    BY <1>10, <1>t, SessionErrorEffect, Zenon
  <2>3. /\ Progress(a) /\ op'[a] = op[a] /\ op[a] \in Ops
        /\ res[a].row \in Nat /\ res[a].page \in Nat
    BY <1>t, <1>u, <2>1, SMT DEF ProgressInv, Results
  <2>4. /\ pc'[a] \in {"failed", "gate"} /\ res'[a].page = PageAgain(a)
        /\ res'[a].row = res[a].row /\ res'[a].rows = res[a].rows
    BY <1>u, <2>1, <2>2, SMT DEF Results
  <2>5. \A c \in Callers : c # a => res'[c] = res[c]
    BY <1>u, <2>2, SMT
  <2>6. Asking(a)
    BY <2>1, Zenon DEF Asking, Posting
  <2>7. ASSUME op[a] = "query" PROVE Progress(a)'
    <3>1. /\ res'[a].page = res[a].page - 1 /\ res[a].page > 0
          /\ res[a].page <= MaxPages /\ res[a].row <= Rows[a]
          /\ res[a].row = (res[a].page - 1) * PageSize
      BY <2>1, <2>3, <2>4, <2>6, <2>7, SMT DEF Progress, QueryInv, PageAgain
    <3>2. /\ res'[a].page <= MaxPages /\ res'[a].row <= Rows[a]
          /\ res'[a].row = res'[a].page * PageSize
      BY <2>3, <2>4, <3>1, Bounds, SMT
    <3>3. res'[a].rows = [i \in 1 .. res'[a].row |-> i]
      BY <2>3, <2>4, Zenon DEF Progress
    <3>4. QueryInv(a)'
      BY <2>4, <3>2, NewPlace, Zenon DEF QueryInv
    <3>5. op'[a] = "query" /\ pc'[a] # "done"
      BY <2>3, <2>4, <2>7, SMT
    <3> QED
      BY <3>3, <3>4, <3>5, OneOperation, Zenon
  <2>8. ASSUME op[a] # "query" PROVE Progress(a)'
    <3>1. \/ op[a] = "single" /\ res[a].row = 0 /\ res'[a].page = 0
          \/ op[a] = "balance" /\ res[a].row < Months /\ res'[a].page = 0
      BY <2>1, <2>3, <2>4, <2>6, <2>8, SMT
         DEF Progress, SingleInv, BalanceInv, TestInv, PageAgain, Ops
    <3>2. res'[a].rows = [i \in 1 .. res'[a].row |-> i] /\ pc'[a] # "done"
      BY <2>3, <2>4, SMT DEF Progress
    <3>3. CASE op[a] = "single"
      <4>1. op'[a] = "single" /\ res'[a].row = 0 /\ res'[a].page = 0
        BY <2>3, <2>4, <3>1, <3>3, SMT
      <4>2. SingleInv(a)'
        BY <2>4, <4>1, NewPlace, Zenon DEF SingleInv
      <4> QED
        BY <3>2, <4>1, <4>2, OneOperation, Zenon
    <3>4. CASE op[a] = "balance"
      <4>1. op'[a] = "balance" /\ res'[a].row <= Months /\ res'[a].page = 0
        BY <2>3, <2>4, <3>1, <3>4, Bounds, SMT
      <4>2. BalanceInv(a)'
        BY <2>4, <4>1, NewPlace, Zenon DEF BalanceInv
      <4> QED
        BY <3>2, <4>1, <4>2, OneOperation, Zenon
    <3> QED
      BY <3>1, <3>3, <3>4
  <2> QED
    BY <1>t, <2>1, <2>5, <2>7, <2>8, OthersUnmoved, Zenon
<1>11. ASSUME NEW a \in Callers, Start(a)
     PROVE  ProgressInv'
  <2>1. /\ op' = op /\ res' = res /\ pc[a] = "new" /\ gate' = gate
        /\ pc' = [pc EXCEPT ![a] = AtGate(a)] /\ a \in Actors
        /\ AtGate(a) \in {"failed", "gate"}
    BY <1>11, <1>t, StartEffect, Places, ActorsAre, Zenon
  <2>2. /\ Progress(a) /\ res'[a] = res[a] /\ op'[a] = op[a]
        /\ pc'[a] \in {"failed", "gate"}
    BY <1>t, <1>u, <2>1, SMT DEF ProgressInv
  <2>3. gate # a
    BY <1>v, <2>1, SMT DEF GateInv, Posting
  <2>4. Progress(a)'
    BY <2>1, <2>2, <2>3, SMT DEF Progress, QueryInv, SingleInv, BalanceInv,
       TestInv, Waiting, Asking, Posting, Promised
  <2> QED
    BY <1>t, <2>1, <2>4, OthersUnmoved, Zenon
<1>12. ASSUME Tick
     PROVE  ProgressInv'
  <2>1. /\ pc' = [pc EXCEPT ![KeepAlive] = "gate"]
        /\ op' = op /\ res' = res /\ gate' = gate
    BY <1>12, <1>t, TickEffect, Zenon
  <2> QED
    BY <1>t, <2>1, OthersUnmoved, ActorsAre, Zenon
<1>13. ASSUME CoolDown
     PROVE  ProgressInv'
  <2>1. UNCHANGED <<op, pc, res, gate>>
    BY <1>13, <1>t, CoolDownEffect, Zenon
  <2> QED
    BY <1>t, <2>1, Unmoved, Zenon DEF ProgressInv
<1>14. ASSUME Expire
     PROVE  ProgressInv'
  <2>1. UNCHANGED <<op, pc, res, gate>>
    BY <1>14, <1>t, ExpireEffect, Zenon
  <2> QED
    BY <1>t, <2>1, Unmoved, Zenon DEF ProgressInv
<1>15. ASSUME UNCHANGED vars
     PROVE  ProgressInv'
  <2>1. UNCHANGED <<op, pc, res, gate>>
    BY <1>15, <1>t, StutterEffect, Zenon
  <2> QED
    BY <1>t, <2>1, Unmoved, Zenon DEF ProgressInv
<1> QED
  BY <1>1, <1>2, <1>3, <1>4, <1>5, <1>6, <1>7, <1>8, <1>9, <1>10, <1>11,
     <1>12, <1>13, <1>14, <1>15, Zenon
     DEF Next, Step, Answer

\* The types of the next state, one by one.
LEMMA TypesTogether ==
    ASSUME loggedIn' \in BOOLEAN, session' \in Nat, gate' \in Actors \cup {Nobody},
           breaker' \in Breakers, op' \in [Callers -> Ops], pc' \in [Actors -> Pcs],
           stopped' \in [Actors -> BOOLEAN], req' \in [Actors -> Requests],
           res' \in [Callers -> Results],
           cookie' \in Nat /\ expired' \in Nat /\ faults' \in Nat /\ expiries' \in Nat,
           ticks' \in Nat /\ logins' \in Nat /\ lost' \in Nat /\ blank' \in Nat
    PROVE  TypeOK'
<1>1. {cookie, expired, faults, expiries, ticks, logins, lost, blank}' \subseteq Nat
  BY SMT
<1> QED
  BY <1>1, Zenon DEF TypeOK, Breakers, Pcs, Requests, Results

\* The breaker after a call of an actor.
LEMMA CountedTyped ==
    ASSUME TypeOK, NEW a \in Actors
    PROVE  /\ \A s \in BOOLEAN : Counted(breaker, req[a].gen, s) \in Breakers
           /\ Counted(breaker, req[a].gen, TRUE) \in Breakers
<1>1. breaker \in Breakers /\ req[a].gen \in Nat
  BY Typing, SMT DEF Requests
<1>2. \A s \in BOOLEAN : Counted(breaker, req[a].gen, s) \in Breakers
  BY <1>1, CountedBreaker, Zenon
<1>3. Counted(breaker, req[a].gen, TRUE) \in Breakers
  BY <1>1, SMT DEF Counted, Breakers, Turned
<1> QED
  BY <1>2, <1>3, Zenon

\* The empty request and the empty result have their types.
LEMMA NoneTyped == NoRequest \in Requests /\ NoResult \in Results
BY Bounds, SMT DEF NoRequest, Requests, NoResult, Results

\* The page a caller is at before it asks for the next.
LEMMA PageBound ==
    ASSUME NEW c \in Callers, Progress(c), op[c] \in Ops, pc[c] = "turn",
           op[c] # "balance"
    PROVE  res[c].page <= MaxPages
<1>1. CASE op[c] = "query"
  BY <1>1, SMT DEF Progress, QueryInv
<1>2. CASE op[c] = "single"
  BY <1>2, Bounds, SMT DEF Progress, SingleInv, Waiting
<1>3. CASE op[c] = "test"
  BY <1>3, SMT DEF Progress, TestInv
<1> QED
  BY <1>1, <1>2, <1>3, SMT DEF Ops

-----------------------------------------------------------------------------
\* The types need the bounds of TriesInv and ProgressInv.
LEMMA TypesPreserved ==
    IInv /\ [Next]_vars => TypeOK'
<1> SUFFICES ASSUME IInv, [Next]_vars
             PROVE  TypeOK'
  OBVIOUS
<1>t. TypeOK
  BY Zenon DEF IInv
<1>u. /\ loggedIn \in BOOLEAN /\ session \in Nat
      /\ gate \in Actors \cup {Nobody} /\ breaker \in Breakers
      /\ op \in [Callers -> Ops] /\ pc \in [Actors -> Pcs]
      /\ stopped \in [Actors -> BOOLEAN] /\ req \in [Actors -> Requests]
      /\ res \in [Callers -> Results] /\ cookie \in Nat /\ expired \in Nat
      /\ faults \in Nat /\ expiries \in Nat /\ ticks \in Nat
      /\ logins \in Nat /\ lost \in Nat /\ blank \in Nat
  BY <1>t, Typing, Zenon
<1>v. TriesInv
  BY Zenon DEF IInv
<1>w. ProgressInv
  BY Zenon DEF IInv
<1>1. ASSUME NEW a \in Actors, Acquire(a)
     PROVE  TypeOK'
  <2>1. Onward(a) \in Pcs /\ "post" \in Pcs
    BY <1>t, <1>1, Places, SMT DEF Pcs, Ended
  <2>2. pc' \in [Actors -> Pcs]
    BY <1>1, <1>t, AcquireEffect, <1>u, <2>1, Zenon
  <2>3. gate' \in Actors \cup {Nobody}
    BY <1>1, <1>t, AcquireEffect, <1>u, Zenon
  <2> QED
    BY <1>1, <1>t, AcquireEffect, <1>u, <2>1, <2>2, <2>3, TypesTogether, Zenon
<1>2. ASSUME NEW a \in Actors,
            AcquireCancelled(a) \/ Refuse(a) \/ Abort(a) \/ PostFails(a) \/ BadAnswer(a)
     PROVE  TypeOK'
  <2>1. (IF a = KeepAlive THEN "idle" ELSE "failed") \in Pcs
    BY SMT DEF Pcs, Ended
  <2>2. pc' \in [Actors -> Pcs]
    BY <1>2, <1>t, FailingCall, <1>u, <2>1, Zenon DEF Failing
  <2>3. \A s \in BOOLEAN : Counted(breaker, req[a].gen, s) \in Breakers
    BY <1>2, <1>t, CountedTyped, Zenon
  <2>4. FailsHow(a)
    BY <1>2, <1>t, FailingCall, Zenon
  <2>5. breaker' \in Breakers
    BY <1>u, <2>3, <2>4, Zenon DEF FailsHow
  <2>6. req' \in [Actors -> Requests] /\ res' \in [Callers -> Results]
    BY <1>2, <1>t, FailingCall, <1>u, NoneTyped, Zenon DEF Failing
  <2>7. gate' \in Actors \cup {Nobody}
    BY <1>2, <1>t, FailingCall, Places, Zenon DEF Failing
  <2> QED
    BY <1>2, <1>t, FailingCall, <1>u, <2>2, <2>3, <2>4, <2>5, <2>6, <2>7,
       TypesTogether,
       Zenon DEF Failing
<1>3. ASSUME NEW a \in Actors, Admit(a)
     PROVE  TypeOK'
  <2>1. {"attempt", "sent", "done", "failed", "post", "gate"} \subseteq Pcs
    BY SMT DEF Pcs, Ended
  <2>2. pc' \in [Actors -> Pcs]
    BY <1>3, <1>t, AdmitEffect, <1>u, <2>1, SMT
  <2>3. breaker' \in Breakers
    BY <1>3, <1>t, AdmitEffect, <1>u, AdmittedBreaker, Zenon
  <2>4. [gen |-> breaker.gen, tries |-> 0, sent |-> 0] \in Requests
    BY <1>u, Bounds, SMT DEF Breakers, Requests
  <2>5. req' \in [Actors -> Requests]
    BY <1>3, <1>t, AdmitEffect, <1>u, <2>4, Zenon
  <2> QED
    BY <1>3, <1>t, AdmitEffect, <1>u, <2>1, <2>2, <2>3, <2>4, <2>5,
       TypesTogether, Zenon
<1>4. ASSUME NEW a \in Actors, Send(a)
     PROVE  TypeOK'
  <2>1. {"attempt", "sent", "done", "failed", "post", "gate"} \subseteq Pcs
    BY SMT DEF Pcs, Ended
  <2>2. pc' \in [Actors -> Pcs]
    BY <1>4, <1>t, SendEffect, <1>u, <2>1, SMT
  <2>3. req[a].gen \in Nat /\ req[a].tries \in Nat /\ req[a].tries < Attempts
    BY <1>4, <1>t, SendEffect, <1>u, <1>v, SMT DEF TriesInv, Requests
  <2>4. [gen |-> req[a].gen, tries |-> req[a].tries + 1, sent |-> cookie] \in Requests
    BY <1>u, <2>3, Bounds, SMT DEF Requests
  <2>5. req' \in [Actors -> Requests]
    BY <1>4, <1>t, SendEffect, <1>u, <2>4, ZenonT(30)
  <2> QED
    BY <1>4, <1>t, SendEffect, <1>u, <2>1, <2>2, <2>3, <2>4, <2>5,
       TypesTogether, Zenon
<1>5. ASSUME NEW a \in Actors, TryAgain(a)
     PROVE  TypeOK'
  <2>1. {"attempt", "sent", "done", "failed", "post", "gate"} \subseteq Pcs
    BY SMT DEF Pcs, Ended
  <2>2. pc' \in [Actors -> Pcs]
    BY <1>5, <1>t, TryAgainEffect, <1>u, <2>1, SMT
  <2> QED
    BY <1>5, <1>t, TryAgainEffect, <1>u, <2>1, <2>2, TypesTogether, Zenon
<1>6. ASSUME NEW a \in Actors, LoginGranted(a)
     PROVE  TypeOK'
  <2>1. Onward(a) \in Pcs
    BY <1>t, <1>6, Places, SMT DEF Pcs, Ended
  <2>2. pc' \in [Actors -> Pcs]
    BY <1>6, <1>t, LoginEffect, <1>u, <2>1, Zenon
  <2>3. Counted(breaker, req[a].gen, TRUE) \in Breakers
    BY <1>6, <1>t, CountedTyped, Zenon
  <2>4. breaker' = Counted(breaker, req[a].gen, TRUE)
    BY <1>6, <1>t, LoginEffect, Zenon
  <2>5. breaker' \in Breakers
    BY <2>3, <2>4, Zenon
  <2>6. req' \in [Actors -> Requests]
    BY <1>6, <1>t, LoginEffect, <1>u, NoneTyped, Zenon
  <2>7. /\ loggedIn' = TRUE /\ cookie' = cookie + 1 /\ logins' = logins + 1
        /\ \/ session' = cookie' /\ blank' = blank
           \/ session' = 0 /\ blank' = blank + 1
    BY <1>6, <1>t, LoginEffect, Zenon
  <2>8. /\ loggedIn' \in BOOLEAN /\ session' \in Nat /\ blank' \in Nat
        /\ cookie' \in Nat /\ logins' \in Nat
    BY <1>u, <2>7, SMT
  <2> QED
    BY <1>6, <1>t, LoginEffect, <1>u, <2>1, <2>2, <2>3, <2>4, <2>5, <2>6,
       <2>7, <2>8,
       TypesTogether, Zenon
<1>7. ASSUME NEW a \in Actors, Cancel(a)
     PROVE  TypeOK'
  <2>1. breaker' = breaker
    BY <1>7, <1>t, CancelEffect, Zenon
  <2> QED
    BY <1>7, <1>t, CancelEffect, <1>u, <2>1, TypesTogether, Zenon
<1>8. ASSUME NEW a \in Callers, Turn(a)
     PROVE  TypeOK'
  <2>1. a \in Actors
    BY <1>8, ActorsAre, Zenon
  <2>2. {"attempt", "sent", "done", "failed", "post", "gate"} \subseteq Pcs
    BY SMT DEF Pcs, Ended
  <2>3. pc' \in [Actors -> Pcs]
    BY <1>8, <1>t, TurnEffect, <1>u, <2>2, SMT
  <2>4. /\ Progress(a) /\ op[a] \in Ops /\ res[a] \in Results
    BY <1>8, <1>u, <1>w, SMT DEF ProgressInv
  <2>5. CASE op[a] = "balance"
    BY <1>8, <1>t, TurnEffect, <1>u, <2>2, <2>3, <2>5, TypesTogether, Zenon
  <2>6. CASE op[a] # "balance"
    <3>1. res[a].page <= MaxPages
      BY <1>8, <1>t, TurnEffect, <2>4, <2>6, PageBound, Zenon
    <3>2. res[a].page + 1 \in 0 .. MaxPages + 1
      BY <2>4, <3>1, Bounds, SMT DEF Results
    <3>3. [res[a] EXCEPT !.page = @ + 1] \in Results
      BY <2>4, <3>2, SMT DEF Results
    <3>4. res' \in [Callers -> Results]
      BY <1>8, <1>t, TurnEffect, <1>u, <2>6, <3>3, Zenon
    <3> QED
      BY <1>8, <1>t, TurnEffect, <1>u, <2>3, <3>4, TypesTogether, Zenon
  <2> QED
    BY <2>5, <2>6
<1>9. ASSUME NEW a \in Callers, PageAnswer(a)
     PROVE  TypeOK'
  <2>1. a \in Actors
    BY <1>9, ActorsAre, Zenon
  <2>2. AfterPage(a) \in Pcs
    BY <1>t, <1>9, <2>1, Places, SMT DEF Pcs, Ended
  <2>3. pc' \in [Actors -> Pcs]
    BY <1>9, <1>t, PageEffect, <1>u, <2>2, ZenonT(30)
  <2>4. Counted(breaker, req[a].gen, TRUE) \in Breakers
    BY <1>9, <1>t, <2>1, CountedTyped, Zenon
  <2>5. breaker' = Counted(breaker, req[a].gen, TRUE)
    BY <1>9, <1>t, PageEffect, Zenon
  <2>6. breaker' \in Breakers
    BY <2>4, <2>5, Zenon
  <2>7. req' \in [Actors -> Requests]
    BY <1>9, <1>t, PageEffect, <1>u, NoneTyped, Zenon
  <2>8. /\ Progress(a) /\ op[a] \in Ops /\ res[a] \in Results
    BY <1>9, <1>u, <1>w, SMT DEF ProgressInv
  <2>9. PageLength(a) \in Nat
    <3>1. Asking(a)
      BY <1>9, <1>t, PageEffect, Zenon DEF Asking, Posting
    <3> QED
      BY <1>9, <2>8, <3>1, PageLengthType, SMT DEF Results
  <2>10. res' \in [Callers -> Results]
    <3> DEFINE more == [i \in 1 .. PageLength(a) |-> res[a].row + i]
    <3>1. more \in Seq(Nat)
      BY <2>8, <2>9, SMT DEF Results
    <3> HIDE DEF more
    <3>2. [row |-> res[a].row + PageLength(a), page |-> res[a].page,
           rows |-> res[a].rows \o more] \in Results
      BY <2>8, <2>9, <3>1, SMT DEF Results
    <3> QED
      BY <1>9, <1>t, PageEffect, <1>u, <3>2, ZenonT(30) DEF more
  <2> QED
    BY <1>9, <1>t, PageEffect, <1>u, <2>1, <2>2, <2>3, <2>4, <2>5, <2>6, <2>7,
       <2>8,
       <2>9, <2>10, TypesTogether, Zenon
<1>10. ASSUME NEW a \in Callers, SessionError(a)
     PROVE  TypeOK'
  <2>1. a \in Actors
    BY <1>10, ActorsAre, Zenon
  <2>2. AtGate(a) \in Pcs
    BY <1>t, <1>10, <2>1, Places, SMT DEF Pcs, Ended
  <2>3. pc' \in [Actors -> Pcs]
    BY <1>10, <1>t, SessionErrorEffect, <1>u, <2>2, Zenon
  <2>4. Counted(breaker, req[a].gen, TRUE) \in Breakers
    BY <1>10, <1>t, <2>1, CountedTyped, Zenon
  <2>5. breaker' = Counted(breaker, req[a].gen, TRUE)
    BY <1>10, <1>t, SessionErrorEffect, Zenon
  <2>6. breaker' \in Breakers
    BY <2>4, <2>5, Zenon
  <2>7. req' \in [Actors -> Requests]
    BY <1>10, <1>t, SessionErrorEffect, <1>u, NoneTyped, Zenon
  <2>8. loggedIn' = FALSE \/ loggedIn' = loggedIn
    BY <1>10, <1>t, SessionErrorEffect, Zenon
  <2>9. loggedIn' \in BOOLEAN
    BY <1>u, <2>8, Zenon
  <2>10. lost' \in {lost, lost + 1}
    BY <1>10, <1>t, SessionErrorEffect, Zenon
  <2>11. lost' \in Nat
    BY <1>u, <2>10, SMT
  <2>12. /\ Progress(a) /\ op[a] \in Ops /\ res[a] \in Results
    BY <1>10, <1>u, <1>w, SMT DEF ProgressInv
  <2>13. PageAgain(a) \in 0 .. MaxPages + 1
    <3>1. Asking(a)
      BY <1>10, <1>t, SessionErrorEffect, Zenon DEF Asking, Posting
    <3>2. op[a] # "balance" => res[a].page > 0
      BY <2>12, <3>1, SMT DEF Progress, QueryInv, SingleInv, TestInv, Ops
    <3> QED
      BY <2>12, <3>2, Bounds, SMT DEF PageAgain, Results
  <2>14. [res[a] EXCEPT !.page = PageAgain(a)] \in Results
    BY <2>12, <2>13, SMT DEF Results
  <2>15. res' = [res EXCEPT ![a].page = PageAgain(a)]
    BY <1>10, <1>t, SessionErrorEffect, Zenon
  <2>16. res' \in [Callers -> Results]
    BY <1>u, <2>14, <2>15, SMT
  <2> QED
    BY <1>10, <1>t, SessionErrorEffect, <1>u, <2>1, <2>2, <2>3, <2>4, <2>5,
       <2>6, <2>7, <2>8,
       <2>9, <2>10, <2>11, <2>12, <2>13, <2>14, <2>15, <2>16, TypesTogether,
       Zenon
<1>11. ASSUME NEW a \in Callers, Start(a)
     PROVE  TypeOK'
  <2>1. a \in Actors
    BY <1>11, ActorsAre, Zenon
  <2>2. AtGate(a) \in Pcs
    BY <1>t, <1>11, <2>1, Places, SMT DEF Pcs, Ended
  <2>3. pc' \in [Actors -> Pcs]
    BY <1>11, <1>t, StartEffect, <1>u, <2>2, Zenon
  <2> QED
    BY <1>11, <1>t, StartEffect, <1>u, <2>1, <2>2, <2>3, TypesTogether, Zenon
<1>12. ASSUME Tick
     PROVE  TypeOK'
  <2>1. KeepAlive \in Actors
    BY ActorsAre, Zenon
  <2>2. {"attempt", "sent", "done", "failed", "post", "gate"} \subseteq Pcs
    BY SMT DEF Pcs, Ended
  <2>3. pc' \in [Actors -> Pcs]
    BY <1>12, <1>t, TickEffect, <1>u, <2>2, SMT
  <2>4. loggedIn' = FALSE \/ loggedIn' = loggedIn
    BY <1>12, <1>t, TickEffect, Zenon
  <2>5. loggedIn' \in BOOLEAN
    BY <1>u, <2>4, Zenon
  <2>6. lost' \in {lost, lost + 1}
    BY <1>12, <1>t, TickEffect, Zenon
  <2>7. lost' \in Nat
    BY <1>u, <2>6, SMT
  <2> QED
    BY <1>12, <1>t, TickEffect, <1>u, <2>1, <2>2, <2>3, <2>4, <2>5, <2>6, <2>7,
       TypesTogether, Zenon
<1>13. ASSUME CoolDown
     PROVE  TypeOK'
  <2>1. breaker' = Turned(breaker, "half-open")
    BY <1>13, <1>t, CoolDownEffect, Zenon
  <2>2. breaker' \in Breakers
    BY <1>u, <2>1, SMT DEF Breakers, Turned
  <2> QED
    BY <1>13, <1>t, CoolDownEffect, <1>u, <2>1, <2>2, TypesTogether, Zenon
<1>14. ASSUME Expire
     PROVE  TypeOK'
  <2>1. breaker' = breaker
    BY <1>14, <1>t, ExpireEffect, Zenon
  <2> QED
    BY <1>14, <1>t, ExpireEffect, <1>u, <2>1, TypesTogether, Zenon
<1>15. ASSUME UNCHANGED vars
     PROVE  TypeOK'
  <2>1. breaker' = breaker
    BY <1>15, <1>t, StutterEffect, Zenon
  <2>2. stopped' = stopped
    BY <1>15, <1>t, StutterEffect, Zenon
  <2> QED
    BY <1>15, <1>t, StutterEffect, <1>u, <2>1, <2>2, TypesTogether, Zenon
<1> QED
  BY <1>1, <1>2, <1>3, <1>4, <1>5, <1>6, <1>7, <1>8, <1>9, <1>10, <1>11,
     <1>12, <1>13, <1>14, <1>15, Zenon
     DEF Next, Step, Answer

-----------------------------------------------------------------------------
\* The inductive invariant holds at first, and every step keeps it.

\* Init establishes it.
LEMMA InitEstablishes ==
    Init => IInv
<1> SUFFICES ASSUME Init
             PROVE  IInv
  OBVIOUS
<1>1. op \in [Callers -> Ops]
  BY ClientAssumption, Zenon DEF Init
<1>2. breaker \in Breakers /\ breaker.gen = 0 /\ breaker.state = "closed"
  BY Bounds, SMT DEF Init, Breakers
<1>3. /\ pc = [a \in Actors |-> IF a = KeepAlive THEN "idle" ELSE "new"]
      /\ req = [a \in Actors |-> NoRequest]
      /\ res = [c \in Callers |-> NoResult]
      /\ stopped = [a \in Actors |-> FALSE]
      /\ loggedIn = FALSE /\ session = 0 /\ gate = Nobody
      /\ cookie = 0 /\ expired = 0 /\ faults = 0 /\ expiries = 0 /\ ticks = 0
      /\ logins = 0 /\ lost = 0 /\ blank = 0
  BY Zenon DEF Init
<1>4. NoRequest \in Requests /\ NoResult \in Results
  BY NoneTyped
<1>5. /\ pc \in [Actors -> Pcs] /\ req \in [Actors -> Requests]
      /\ res \in [Callers -> Results] /\ stopped \in [Actors -> BOOLEAN]
  <2>1. "idle" \in Pcs /\ "new" \in Pcs
    BY SMT DEF Pcs, Ended
  <2> QED
    BY <1>3, <1>4, <2>1, Zenon
<1>6. \A a \in Actors : pc[a] \in {"idle", "new"} /\ req[a].tries = 0
  BY <1>3, SMT DEF NoRequest
<1>7. TypeOK
  <2>1. {cookie, expired, faults, expiries, ticks, logins, lost, blank} \subseteq Nat
    BY <1>3, SMT
  <2>2. session \in Nat /\ loggedIn \in BOOLEAN /\ gate \in Actors \cup {Nobody}
    BY <1>3
  <2> QED
    BY <1>1, <1>2, <1>5, <2>1, <2>2, Zenon
       DEF TypeOK, Breakers, Pcs, Requests, Results
<1>8. TriesInv
  BY <1>6, SMT DEF TriesInv
<1>9. GateInv
  BY <1>3, ActorsAre, Zenon DEF GateInv
<1>10. SessionInv
  BY <1>3, SMT DEF SessionInv, LoginEconomy, Usable
<1>11. BreakerInv
  BY <1>2, <1>6, SMT DEF BreakerInv, OneProbe
<1>12. ASSUME NEW c \in Callers PROVE Progress(c)
  <2>1. pc[c] = "new" /\ gate # c
    BY <1>3, ActorsAre, SMT
  <2>2. res[c].row = 0 /\ res[c].page = 0 /\ res[c].rows = <<>>
    BY <1>3, SMT DEF NoResult
  <2>3. Waiting(c) /\ ~Asking(c)
    BY <2>1, SMT DEF Waiting, Asking, Posting
  <2>4. QueryInv(c) /\ SingleInv(c) /\ BalanceInv(c) /\ TestInv(c)
    BY <2>1, <2>2, <2>3, Bounds, SMT DEF QueryInv, SingleInv, BalanceInv,
       TestInv
  <2>5. res[c].rows = [i \in 1 .. res[c].row |-> i]
    BY <2>2, SMT
  <2> QED
    BY <2>1, <2>4, <2>5, SMT DEF Progress
<1> QED
  BY <1>7, <1>8, <1>9, <1>10, <1>11, <1>12, Zenon DEF IInv, ProgressInv

\* It is invariant.
LEMMA Invariance ==
    Spec => []IInv
<1>1. IInv /\ [Next]_vars => IInv'
  BY TypesPreserved, TriesPreserved, GatePreserved, SessionPreserved,
     BreakerPreserved, ProgressPreserved, Zenon DEF IInv
<1> QED
  BY <1>1, InitEstablishes, PTL DEF Spec

-----------------------------------------------------------------------------
\* The theorems

\* Every variable keeps its type: no request has more attempts than the retry
\* loop allows, no query goes more than one page past its cap, and a page that
\* is given back for a lost session was counted before (client.go:475-527).
THEOREM TypeCorrect ==
    Spec => []TypeOK
BY Invariance, PTL DEF IInv

\* Whatever sessions are lost on the way, a call has read the rows of Kingdee
\* from the first, each once and in order, and one that succeeds has all it is
\* meant to return (client.go:446-557, 611-793).
THEOREM ResultsAreExact ==
    Spec => []ResultExact
<1>1. IInv => ResultExact
  <2> SUFFICES ASSUME IInv, NEW c \in Callers
               PROVE  /\ res[c].rows = [i \in 1 .. res[c].row |-> i]
                      /\ pc[c] = "done" => Len(res[c].rows) = Promised(c)
    BY Zenon DEF ResultExact
  <2>1. /\ res[c].rows = [i \in 1 .. res[c].row |-> i]
        /\ pc[c] = "done" => res[c].row = Promised(c)
    BY Zenon DEF IInv, ProgressInv, Progress
  <2>2. res[c].row \in Nat
    BY Typing, SMT DEF IInv, Results
  <2>3. Len(res[c].rows) = res[c].row
    BY <2>1, <2>2, SMT
  <2> QED
    BY <2>1, <2>3, Zenon
<1> QED
  BY <1>1, Invariance, PTL

\* However many callers find the session missing at once, Kingdee grants one
\* login, and another only for a session that was given up or that came
\* without an id (client.go:139-197).
THEOREM LoginsAreEconomical ==
    Spec => []LoginEconomy
<1>1. IInv => LoginEconomy
  BY DEF IInv, SessionInv
<1> QED
  BY <1>1, Invariance, PTL

\* Half-open, the breaker has a single call in it, with all its attempts
\* (circuit.go:37-45, client.go:254).
THEOREM ProbesAreAlone ==
    Spec => []OneProbe
<1>1. IInv => OneProbe
  BY DEF IInv, BreakerInv
<1> QED
  BY <1>1, Invariance, PTL

\* The login gate is held by a goroutine that has a login in hand, so none that
\* left LoginContext, however it did, keeps the others out (client.go:149).
THEOREM GateIsFreed ==
    Spec => []GateHeld
<1>1. IInv => GateHeld
  <2> SUFFICES ASSUME IInv, gate # Nobody
               PROVE  pc[gate] \in {"post", "attempt", "sent"}
    BY DEF GateHeld
  <2>1. gate \in Actors
    BY Typing DEF IInv
  <2> QED
    BY <2>1, Zenon DEF IInv, GateInv, Posting
<1> QED
  BY <1>1, Invariance, PTL
=============================================================================
