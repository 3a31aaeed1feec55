-------------------------------- MODULE Login --------------------------------
(***************************************************************************)
(* The page's own session and the login limiter: handleLogin,              *)
(* handleLogout and requireAuth (src/internal/httpserver/server.go,        *)
(* middleware.go) over the cookie of auth/session.go and the buckets of    *)
(* auth/ratelimit.go, for one browser whose requests overlap and whose     *)
(* answers arrive in any order.                                            *)
(*                                                                         *)
(* A cookie is known by its expiry; its signature is what keeps anything   *)
(* else out of the jar.  The server is not restarted: the limiter would    *)
(* be empty and the cookie as good as before.                              *)
(***************************************************************************)
EXTENDS Integers

CONSTANTS
    IPs,            \* addresses logins come from
    Requests,       \* requests under way at a time
    MaxFails,       \* arguments of NewLoginLimiter
    LockFor,
    FailWindow,
    MaxAge,         \* arguments of NewSessionManager
    RenewWithin,
    MaxDelay,       \* bound on the time a request is under way
    MaxClock        \* bound on the clock

ASSUME LimiterAssumption == MaxFails \in Nat /\ LockFor \in Nat /\ FailWindow \in Nat
ASSUME ClockAssumption == MaxDelay \in Nat /\ MaxClock \in Nat
ASSUME SessionAssumption ==
    /\ MaxAge \in Nat /\ RenewWithin \in Nat
    /\ RenewWithin + 2 * MaxDelay <= MaxAge

VARIABLES
    now,        \* the clock; 0 is Go's zero time
    bucket,     \* the limiter's entries
    req,        \* requests
    jar,        \* the browser's cookie
    lockedAt,   \* when the lock of each address was set (history)
    served,     \* when a login or a request was accepted last (history)
    answered    \* arrival of the latest one whose answer is in (history)

vars == <<now, bucket, req, jar, lockedAt, served, answered>>

-----------------------------------------------------------------------------
(* Shapes.  A cookie is its expiry; an answer may set one, delete it, or   *)
(* leave the jar alone.                                                    *)

NoCookie == -1
Untouched == -2

Later(a, b) == IF a < b THEN b ELSE a

\* No request was accepted.
Refused == 0

\* No entry in the map.
NoEntry == [fails |-> 0, first |-> 0, locked |-> 0]
Entries == [fails : Nat, first : Nat, locked : Nat]

\* sent is when the browser sent the request and at when the server took the time;
\* cookie was sent along.  An answer that accepts says when, by the server's time.
Idle == [pc |-> "idle"]
Uses == [pc : {"use"}, sent : Nat, cookie : Nat \cup {NoCookie}]
Logouts == [pc : {"logout"}, sent : Nat]
Logins == [pc : {"login", "checking"}, ip : IPs, sent : Nat, at : Nat]
Answers == [pc : {"answered"}, sent : Nat, accepted : Nat,
            set : Nat \cup {NoCookie, Untouched}]

Init ==
    /\ now = 1
    /\ bucket = [ip \in IPs |-> NoEntry]
    /\ req = [r \in Requests |-> Idle]
    /\ jar = NoCookie
    /\ lockedAt = [ip \in IPs |-> 0]
    /\ served = 0
    /\ answered = 0

-----------------------------------------------------------------------------
(* The limiter.                                                            *)

\* Mutation: the lock is not looked at.
Locked_Never(ip, at) == FALSE

Locked(ip, at) == at < bucket[ip].locked

\* Mutation: the lock is counted backwards.
Failed_InThePast(s, at) ==
    IF s.fails = 0 \/ at - s.first > FailWindow
    THEN [fails |-> 1, first |-> at, locked |-> 0]
    ELSE [fails |-> s.fails + 1, first |-> s.first,
          locked |-> IF s.fails + 1 >= MaxFails THEN at - LockFor ELSE s.locked]

\* The entry after a failure at a time; the first of a window never locks.
Failed(s, at) ==
    IF s.fails = 0 \/ at - s.first > FailWindow
    THEN [fails |-> 1, first |-> at, locked |-> 0]
    ELSE [fails |-> s.fails + 1, first |-> s.first,
          locked |-> IF s.fails + 1 >= MaxFails THEN at + LockFor ELSE s.locked]

RecordFail(ip, at) ==
    LET s == Failed(bucket[ip], at) IN
    /\ bucket' = [bucket EXCEPT ![ip] = s]
    /\ lockedAt' = [lockedAt EXCEPT ![ip] = IF s.locked > 0 THEN now ELSE 0]

RecordSuccess(ip) ==
    /\ bucket' = [bucket EXCEPT ![ip] = NoEntry]
    /\ lockedAt' = [lockedAt EXCEPT ![ip] = 0]

\* Mutation: entries go when their window is over, locked or not.
Outlived_WindowOnly(s) == now - s.first > FailWindow

Outlived(s) == now > s.locked /\ now - s.first > FailWindow

\* Once a minute.
Sweep ==
    /\ \E ip \in IPs : bucket[ip] # NoEntry /\ Outlived(bucket[ip])
    /\ bucket' = [ip \in IPs |-> IF Outlived(bucket[ip]) THEN NoEntry ELSE bucket[ip]]
    /\ lockedAt' = [ip \in IPs |-> IF Outlived(bucket[ip]) THEN 0 ELSE lockedAt[ip]]
    /\ UNCHANGED <<now, req, jar, served, answered>>

-----------------------------------------------------------------------------
(* The session cookie.                                                     *)

Issued(at) == at + MaxAge

\* Mutation: the signature is enough.
Valid_Signed(cookie, at) == cookie # NoCookie

\* Verify and decode.
Valid(cookie, at) == cookie # NoCookie /\ at <= cookie

\* Mutation: a session that will last a while longer is what is renewed.
Renewed_Swapped(cookie, at) == IF cookie - at > RenewWithin THEN Issued(at) ELSE Untouched

\* MaybeRenew.
Renewed(cookie, at) == IF cookie - at > RenewWithin THEN Untouched ELSE Issued(at)

-----------------------------------------------------------------------------
(* Requests.                                                               *)

Send(r, request) ==
    /\ req[r].pc = "idle"
    /\ req' = [req EXCEPT ![r] = request]
    /\ UNCHANGED <<now, bucket, jar, lockedAt, served, answered>>

SendLogin(r, ip) == Send(r, [pc |-> "login", ip |-> ip, sent |-> now, at |-> 0])
SendLogout(r) == Send(r, [pc |-> "logout", sent |-> now])
SendUse(r) == Send(r, [pc |-> "use", sent |-> now, cookie |-> jar])

Answer(r, accepted, set) ==
    req' = [req EXCEPT ![r] =
              [pc |-> "answered", sent |-> @.sent, accepted |-> accepted, set |-> set]]

\* handleLogin takes the time and looks whether the address is locked.
LoginArrives(r) ==
    /\ req[r].pc = "login"
    /\ IF Locked(req[r].ip, now)
       THEN Answer(r, Refused, Untouched)
       ELSE req' = [req EXCEPT ![r].pc = "checking", ![r].at = now]
    /\ UNCHANGED <<now, bucket, jar, lockedAt, served, answered>>

\* The body is no login.
LoginMalformed(r) ==
    /\ req[r].pc = "checking"
    /\ Answer(r, Refused, Untouched)
    /\ UNCHANGED <<now, bucket, jar, lockedAt, served, answered>>

\* The password is compared; everything after it goes by the time of arrival.
LoginWrong(r) ==
    /\ req[r].pc = "checking"
    /\ RecordFail(req[r].ip, req[r].at)
    /\ Answer(r, Refused, Untouched)
    /\ UNCHANGED <<now, jar, served, answered>>

LoginRight(r) ==
    /\ req[r].pc = "checking"
    /\ RecordSuccess(req[r].ip)
    /\ Answer(r, req[r].at, Issued(req[r].at))
    /\ served' = Later(served, req[r].at)
    /\ UNCHANGED <<now, jar, answered>>

\* handleLogout needs no session.
Logout(r) ==
    /\ req[r].pc = "logout"
    /\ Answer(r, Refused, NoCookie)
    /\ UNCHANGED <<now, bucket, jar, lockedAt, served, answered>>

\* requireAuth before any of the protected handlers.
Use(r) ==
    /\ req[r].pc = "use"
    /\ IF Valid(req[r].cookie, now)
       THEN Answer(r, now, Renewed(req[r].cookie, now)) /\ served' = now
       ELSE Answer(r, Refused, Untouched) /\ UNCHANGED served
    /\ UNCHANGED <<now, bucket, jar, lockedAt, answered>>

\* The browser gets the answer, whose cookie counts even if it is an older one.
Receive(r) ==
    /\ req[r].pc = "answered"
    /\ jar' = IF req[r].set = Untouched THEN jar ELSE req[r].set
    /\ answered' = Later(answered, req[r].accepted)
    /\ req' = [req EXCEPT ![r] = Idle]
    /\ UNCHANGED <<now, bucket, lockedAt, served>>

\* The connection breaks while the server waits for the body, or on the way back.
Lost(r) ==
    /\ req[r].pc # "idle"
    /\ req' = [req EXCEPT ![r] = Idle]
    /\ UNCHANGED <<now, bucket, jar, lockedAt, served, answered>>

\* The browser deletes a cookie that has expired.
Expire ==
    /\ jar # NoCookie
    /\ now > jar
    /\ jar' = NoCookie
    /\ UNCHANGED <<now, bucket, req, lockedAt, served, answered>>

Tick ==
    /\ now < MaxClock
    /\ \A r \in Requests : req[r].pc # "idle" => now - req[r].sent < MaxDelay
    /\ now' = now + 1
    /\ UNCHANGED <<bucket, req, jar, lockedAt, served, answered>>

-----------------------------------------------------------------------------

OfRequest(r) ==
    \/ \E ip \in IPs : SendLogin(r, ip)
    \/ SendLogout(r)
    \/ SendUse(r)
    \/ LoginArrives(r) \/ LoginMalformed(r) \/ LoginWrong(r) \/ LoginRight(r)
    \/ Logout(r)
    \/ Use(r)
    \/ Receive(r)
    \/ Lost(r)

Next ==
    \/ \E r \in Requests : OfRequest(r)
    \/ Sweep
    \/ Expire
    \/ Tick

Spec == Init /\ [][Next]_vars

-----------------------------------------------------------------------------
(* Properties.                                                             *)

TypeOK ==
    /\ now \in Nat
    /\ bucket \in [IPs -> Entries]
    /\ req \in [Requests -> {Idle} \cup Uses \cup Logouts \cup Logins \cup Answers]
    /\ jar \in Nat \cup {NoCookie}
    /\ lockedAt \in [IPs -> Nat]
    /\ served \in Nat
    /\ answered \in Nat

InForce(ip) == now < bucket[ip].locked

\* While an address is locked, the only passwords of it being compared are those
\* of logins that came before it was locked: the overshoot is what was under way
\* (server.go 167-187).
LateOnesRefused ==
    \A ip \in IPs, r \in Requests :
        InForce(ip) /\ req[r].pc = "checking" /\ req[r].ip = ip =>
            req[r].at <= lockedAt[ip]

\* A lock that is in force is lifted or shortened only by the end of a login that
\* came before it was set; in particular the sweep never unlocks (ratelimit.go
\* 46-74).
LockKept ==
    [][\A ip \in IPs :
          InForce(ip) /\ bucket'[ip].locked < bucket[ip].locked =>
              \E r \in Requests :
                  /\ req[r].pc = "checking" /\ req[r].ip = ip
                  /\ req[r].at <= lockedAt[ip]
                  /\ req'[r].pc = "answered"]_vars

\* Nobody is let in who has not been for MaxAge: each use follows a login or
\* another use within that time, however renewals overlap (session.go 85-131).
IdleLogsOut ==
    [][\A r \in Requests :
          req[r].pc = "use" /\ req'[r].pc = "answered" /\ req'[r].accepted # Refused =>
              now <= served + MaxAge]_vars

\* A browser that has a cookie has one with which it can come back for RenewWithin
\* after any use whose answer it got: the session slides, though an answer with an
\* older cookie may come last (session.go 93-98).
ActiveStaysIn == jar # NoCookie => jar >= answered + RenewWithin
=============================================================================
