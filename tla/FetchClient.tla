---------------------------- MODULE FetchClient ----------------------------
(*************************************************************************)
(* FetchClient::send (quai-rpc fetch/client.rs) with the requests of       *)
(* fetch/model.rs: redirects, retries, application hooks, the deadline and  *)
(* a cancellation token that successive calls may share.                   *)
(*                                                                        *)
(* A call is a future.  It moves when it is polled: because what it awaits  *)
(* completed, because the deadline timer fired or because the token woke    *)
(* it.  The backend may never answer.                                      *)
(*************************************************************************)
EXTENDS Integers, Sequences, FiniteSets

CONSTANTS
    Calls,        \* calls to send with one token
    Requests,     \* the requests they may be made with
    Origins,      \* origins a redirect may lead to
    RetryAfters,  \* Retry-After values in seconds; -1 when absent or malformed
    Second,       \* clock ticks of a second
    Timeout,      \* timeout_ms, in ticks
    RetryDelay,   \* retry_delay_ms, in ticks
    MaxAttempts, MaxRedirects, RetryNonIdempotent,
    MaxTime       \* bound on the clock

ConfigAssumption ==   \* FetchConfig::validate
    /\ Timeout \in Nat \ {0} /\ RetryDelay \in 0..Timeout
    /\ MaxAttempts \in 1..12 /\ MaxRedirects \in 0..10
    /\ RetryNonIdempotent \in BOOLEAN

VARIABLES
    token,   \* CancelState: cancelled, active, waker (the call it wakes)
    call,    \* call[c]: the future
    wire,    \* wire[c]: the exchanges c started, as [request, time]
    now

vars == <<token, call, wire, now>>

None == "none"
Web == {"http", "https"}
Idempotent == {"GET", "HEAD"}
Smaller(a, b) == IF a < b THEN a ELSE b

\* A call that was not made.
Unsent ==
    [pc |-> "unsent", start |-> 0, request |-> None, original |-> None, attempts |-> 0,
     redirects |-> 0, response |-> None, delay |-> 0, until |-> 0, notBefore |-> 0,
     woken |-> FALSE, result |-> None]

Init ==
    /\ token = [cancelled |-> FALSE, active |-> FALSE, waker |-> None]
    /\ call = [c \in Calls |-> Unsent]
    /\ wire = [c \in Calls |-> <<>>]
    /\ now = 0

----------------------------------------------------------------------------
(* Requests.                                                               *)

\* FetchRequest::validate
ValidRequest(r) ==
    /\ r.method \in Idempotent => ~r.body
    /\ r.scheme = "http" /\ r.auth => r.insecure

\* FetchRequest::redirect; only the same origin gets the headers.
Redirected(r, scheme, origin) ==
    LET same == scheme = r.scheme /\ origin = r.origin
    IN [r EXCEPT !.scheme = scheme, !.origin = origin, !.body = FALSE,
                 !.auth = same /\ @, !.insecure = same /\ @]

\* Mutant: a request with a body is redirected too.
RedirectsAny(r, scheme) == scheme \in Web
CanRedirect(r, scheme) ==
    /\ r.method \in Idempotent /\ scheme \in Web
    /\ ~(r.scheme = "https" /\ scheme = "http")

Ok == [status |-> 200, scheme |-> None, origin |-> None, after |-> -1, big |-> FALSE]
Responses ==
    {Ok, [Ok EXCEPT !.big = TRUE]}
        \cup {[Ok EXCEPT !.status = 302, !.scheme = s, !.origin = o] : s \in Web, o \in Origins}
        \cup {[Ok EXCEPT !.status = 429, !.after = d] : d \in RetryAfters}

----------------------------------------------------------------------------
(* Polling.                                                                *)

\* CancelGuard's drop frees the token.
FreeToken == [token EXCEPT !.active = FALSE, !.waker = None]
Ended(f, result) == [Unsent EXCEPT !.pc = "ended", !.result = result]
End(c, result) ==
    /\ call' = [call EXCEPT ![c] = Ended(@, result)]
    /\ token' = FreeToken

Polled == {"first", "gateway", "preflight", "execute", "process", "retry", "sleep"}
Pending(c) == call[c].pc \in Polled \cup {"ready"}
Expired(c) == now - call[c].start >= Timeout

\* FetchCancellation::check
Register(c) == [token EXCEPT !.waker = c]

\* The poll ends early, or registers the waker and lets the work move to f.
Polls(c, f) ==
    IF token.cancelled THEN End(c, "Cancelled")
    ELSE IF Expired(c) THEN End(c, "Timeout")
    ELSE call' = [call EXCEPT ![c] = f] /\ token' = Register(c)

\* A result of the work is looked at once more before it is returned.
Ready(f, result) == [f EXCEPT !.pc = "ready", !.result = result]

\* A call that begin refuses has no guard to drop.
BeginRefused == token

\* FetchCancellation::begin and the request's own validation.
Begin(c, r) ==
    /\ call[c].pc = "unsent"
    /\ IF ~ValidRequest(r) \/ token.cancelled \/ token.active
       THEN call' = [call EXCEPT ![c] = Ended(@, "refused")] /\ token' = BeginRefused
       ELSE /\ call' = [call EXCEPT ![c] = [Unsent EXCEPT !.pc = "first", !.start = now,
                                                          !.request = r, !.original = r]]
            /\ token' = [token EXCEPT !.active = TRUE]
    /\ UNCHANGED <<wire, now>>

\* The work up to its first await.
Enter(f) == [f EXCEPT !.pc = IF f.request.scheme \in Web THEN "preflight" ELSE "gateway"]
FirstPoll(c) ==
    /\ call[c].pc = "first" /\ Polls(c, Enter(call[c])) /\ UNCHANGED <<wire, now>>

Follows(f, r) ==
    /\ r.status = 302 /\ f.redirects < MaxRedirects /\ f.attempts < MaxAttempts
    /\ CanRedirect(f.request, r.scheme)

\* The size is checked and a redirect followed before the hooks see a response.
AfterResponse(f, r) ==
    IF r.big THEN Ready(f, "Limit")
    ELSE IF Follows(f, r)
    THEN Enter([f EXCEPT !.request = Redirected(@, r.scheme, r.origin), !.redirects = @ + 1])
    ELSE [f EXCEPT !.pc = "process", !.response = r]

\* hooks.gateway: a response, another request or nothing, which data: answers.
Gateway(c) ==
    /\ call[c].pc = "gateway"
    /\ \/ \E r \in Responses : Polls(c, AfterResponse(call[c], r))
       \/ \E r \in Requests :
              Polls(c, IF r.scheme \in Web THEN [call[c] EXCEPT !.pc = "preflight", !.request = r]
                       ELSE Ready(call[c], "Unsupported"))
       \/ Polls(c, IF call[c].request.scheme = "data"
                   THEN [call[c] EXCEPT !.pc = "process", !.response = Ok]
                   ELSE Ready(call[c], "Unsupported"))
    /\ UNCHANGED <<wire, now>>

Exchanged(r) == [request |-> r, time |-> now]

\* hooks.preflight may change the request; then the exchange starts.
Preflight(c) ==
    /\ call[c].pc = "preflight"
    /\ \E r \in {call[c].request, [call[c].request EXCEPT !.scheme = "data"],
                 [call[c].request EXCEPT !.auth = FALSE]} :
           LET bad == ~ValidRequest(r) \/ r.scheme \notin Web
               going == ~token.cancelled /\ ~Expired(c) /\ ~bad
           IN /\ Polls(c, IF bad THEN Ready(call[c], "Invalid")
                          ELSE [call[c] EXCEPT !.pc = "execute", !.request = r])
              /\ wire' = IF going THEN [wire EXCEPT ![c] = Append(@, Exchanged(r))] ELSE wire
    /\ UNCHANGED now

\* backend.execute answers, or fails.
Execute(c) ==
    /\ call[c].pc = "execute"
    /\ \/ Polls(c, Ready(call[c], "Transport"))
       \/ \E r \in Responses :
              Polls(c, AfterResponse([call[c] EXCEPT !.attempts = @ + 1], r))
    /\ UNCHANGED <<wire, now>>

\* The delay a 429 asks for: Retry-After in seconds, else doubling from the configured one.
RetryWait(f, r) ==
    IF r.after >= 0 THEN r.after * Second
    ELSE RetryDelay * 2 ^ (IF f.attempts = 0 THEN 0 ELSE f.attempts - 1)

MayRetry(f) ==
    /\ f.attempts > 0 /\ f.attempts < MaxAttempts
    /\ f.request.method \in Idempotent \/ RetryNonIdempotent

\* A response that wants a retry after delay; asked is what the server said.
Wants(f, delay, asked) ==
    IF MayRetry(f)
    THEN [f EXCEPT !.pc = "retry", !.delay = Smaller(delay, Timeout), !.notBefore = asked]
    ELSE Ready(f, "ok")

\* hooks.process returns the response, or asks for another attempt.
Process(c) ==
    LET f == call[c]
        r == f.response
    IN /\ f.pc = "process"
       /\ \/ Polls(c, IF r.status = 429
                      THEN Wants(f, RetryWait(f, r), IF r.after >= 0 THEN now + r.after * Second ELSE now)
                      ELSE Ready(f, "ok"))
          \/ Polls(c, Wants(f, 1, now))
    /\ UNCHANGED <<wire, now>>

\* hooks.retry declines, or the delay is slept.
Retry(c) ==
    /\ call[c].pc = "retry"
    /\ \/ Polls(c, Ready(call[c], "ok"))
       \/ Polls(c, [call[c] EXCEPT !.pc = "sleep", !.until = now + call[c].delay])
    /\ UNCHANGED <<wire, now>>

Sleep(c) ==
    /\ call[c].pc = "sleep" /\ now >= call[c].until
    /\ Polls(c, Enter(call[c])) /\ UNCHANGED <<wire, now>>

\* The last look at the token and the clock.
Final(c) ==
    IF token.cancelled THEN "Cancelled" ELSE IF Expired(c) THEN "Timeout" ELSE call[c].result

Finish(c) ==
    /\ call[c].pc = "ready" /\ End(c, Final(c)) /\ UNCHANGED <<wire, now>>

----------------------------------------------------------------------------
(* The surroundings.                                                       *)

\* FetchCancellation::cancel takes the waker and wakes what it belongs to.
Cancel ==
    /\ ~token.cancelled
    /\ token' = [token EXCEPT !.cancelled = TRUE, !.waker = None]
    /\ call' = [c \in Calls |-> IF token.waker = c THEN [call[c] EXCEPT !.woken = TRUE] ELSE call[c]]
    /\ UNCHANGED <<wire, now>>

\* A call that was woken through its waker is polled.
WakeByCancel(c) ==
    /\ call[c].pc \in Polled /\ token.cancelled /\ call[c].woken
    /\ End(c, "Cancelled") /\ UNCHANGED <<wire, now>>

\* The deadline timer fires.
WakeByDeadline(c) ==
    /\ call[c].pc \in Polled /\ Expired(c)
    /\ End(c, IF token.cancelled THEN "Cancelled" ELSE "Timeout") /\ UNCHANGED <<wire, now>>

\* The caller drops the future.
Drop(c) ==
    /\ Pending(c) /\ End(c, "dropped") /\ UNCHANGED <<wire, now>>

Tick == now < MaxTime /\ now' = now + 1 /\ UNCHANGED <<token, call, wire>>

Next ==
    \/ \E c \in Calls :
           \/ \E r \in Requests : Begin(c, r)
           \/ FirstPoll(c) \/ Gateway(c) \/ Preflight(c) \/ Execute(c) \/ Process(c)
           \/ Retry(c) \/ Sleep(c) \/ Finish(c) \/ WakeByCancel(c) \/ WakeByDeadline(c) \/ Drop(c)
    \/ Cancel \/ Tick

\* A woken or new future is polled; neither the backend, the hooks nor the
\* clock is trusted to move.
Fairness ==
    \A c \in Calls : /\ WF_vars(FirstPoll(c)) /\ WF_vars(Finish(c))
                     /\ WF_vars(WakeByCancel(c)) /\ WF_vars(WakeByDeadline(c))

Spec == Init /\ [][Next]_vars /\ Fairness

----------------------------------------------------------------------------
Results == {None, "ok", "refused", "Cancelled", "Timeout", "Unsupported", "Invalid", "Limit",
            "Transport", "dropped"}
TypeOK ==
    /\ token \in [cancelled : BOOLEAN, active : BOOLEAN, waker : Calls \cup {None}]
    /\ \A c \in Calls : /\ call[c].pc \in Polled \cup {"unsent", "ready", "ended"}
                        /\ call[c].result \in Results
                        /\ call[c].attempts \in 0..MaxAttempts
                        /\ call[c].redirects \in 0..MaxRedirects

\* "At most one active call": the token is active exactly while one call is
\* pending, however calls end, are refused or dropped.
TokenIsHeld == token.active = (\E c \in Calls : Pending(c))
               /\ \A c, d \in Calls : Pending(c) /\ Pending(d) => c = d

\* The exchanges of a call, redirects and retries together, stay within
\* max_attempts, and a request with a body is sent once unless configured.
ExchangesBounded ==
    \A c \in Calls : /\ Len(wire[c]) <= MaxAttempts
                     /\ (\E i \in DOMAIN wire[c] : wire[c][i].request.body) /\ ~RetryNonIdempotent
                            => Len(wire[c]) = 1

\* Credentials of the caller's request go to its origin only and in clear text
\* only when the caller allowed it, along any chain of redirects and retries.
CredentialsStayHome ==
    \A c \in Calls : \A i \in DOMAIN wire[c] :
        LET r == wire[c][i].request
        IN r.auth => /\ r.scheme = "http" => r.insecure
                     /\ \E q \in Requests : q.auth /\ q.origin = r.origin /\ q.scheme = r.scheme

\* A retry never comes before the time the server's Retry-After named.
RetryAfterHonoured ==
    \A c \in Calls : wire[c] # <<>> /\ call[c].pc = "execute" =>
        wire[c][Len(wire[c])].time >= call[c].notBefore

\* A response is returned only before the deadline and only when the token
\* was not cancelled while the call ran.
ReturnedInTime ==
    \A c \in Calls : (call'[c].result = "ok" /\ call[c].pc = "ready" /\ call'[c].pc = "ended") =>
        ~token.cancelled /\ ~Expired(c)

\* Cancelling ends the call (Cancelled leads to Free) even when the backend never
\* answers and the clock never moves.
Cancelled == token.cancelled
Free == ~token.active

\* So does the deadline, wherever the call waits: in a hook, in an exchange or
\* between two attempts (Late leads to Gone).
Late == \E c \in Calls : Pending(c) /\ now - call[c].start >= Timeout
Gone == \A c \in Calls : ~Pending(c)
====
