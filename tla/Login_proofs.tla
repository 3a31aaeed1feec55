----------------------------- MODULE Login_proofs -----------------------------
(***************************************************************************)
(* Proofs about the login limiter and the session cookie: the five         *)
(* properties of Login, for any number of addresses, of requests under     *)
(* way, and any settings with RenewWithin + 2 * MaxDelay <= MaxAge.        *)
(*                                                                         *)
(* ActiveStaysIn is not inductive.  What carries it: whatever the jar has  *)
(* come to hold since a request was sent is no shorter-lived than what was *)
(* sent along, or was issued at most MaxDelay before the request was sent. *)
(***************************************************************************)
EXTENDS Login, TLAPS

Request == {Idle} \cup Uses \cup Logouts \cup Logins \cup Answers

\* A request, for a clock n, a jar j and a latest service s.
RequestOK(q, n, j, s) ==
    /\ q.pc # "idle" => q.sent <= n /\ n <= q.sent + MaxDelay
    /\ q.pc = "checking" => q.sent <= q.at /\ q.at <= n
    /\ q.pc = "use" =>
          /\ q.cookie <= s + MaxAge
          /\ j = NoCookie \/ j >= q.cookie \/ j + MaxDelay >= q.sent + MaxAge
    /\ q.pc = "answered" =>
          /\ q.accepted <= n
          /\ q.set <= s + MaxAge
          /\ q.set \in Nat => q.set = q.accepted + MaxAge /\ q.sent <= q.accepted
          /\ q.set = Untouched /\ q.accepted # Refused =>
                j = NoCookie \/ j >= q.accepted + RenewWithin

ClockOK == now >= 1 /\ served <= now /\ answered <= now

RequestsOK == \A r \in Requests : RequestOK(req[r], now, jar, served)

\* The cookie comes from the latest service, or from an earlier one.
CookieFresh == jar <= served + MaxAge

LoginInv ==
    /\ TypeOK
    /\ ClockOK
    /\ CookieFresh
    /\ ActiveStaysIn
    /\ RequestsOK
    /\ LateOnesRefused

-----------------------------------------------------------------------------
(* The shape of requests and buckets.                                      *)

\* What a request holds, by its phase.
LEMMA PhaseShape ==
    ASSUME NEW q \in Request
    PROVE  /\ q.pc \in {"idle", "use", "logout", "login", "checking", "answered"}
           /\ q.pc = "idle" => q = Idle
           /\ q.pc = "use" => q.sent \in Nat /\ q.cookie \in Nat \cup {NoCookie}
           /\ q.pc = "logout" => q.sent \in Nat
           /\ q.pc \in {"login", "checking"} => q \in Logins
           /\ q.pc \in {"login", "checking"} =>
                 q.ip \in IPs /\ q.sent \in Nat /\ q.at \in Nat
           /\ q.pc = "answered" =>
                 /\ q.sent \in Nat /\ q.accepted \in Nat
                 /\ q.set \in Nat \cup {NoCookie, Untouched}
  BY DEF Request, Idle, Uses, Logouts, Logins, Answers

\* What an answer consists of.
LEMMA AnswerShape ==
    ASSUME NEW s \in Nat, NEW a \in Nat, NEW c \in Nat \cup {NoCookie, Untouched}
    PROVE  [pc |-> "answered", sent |-> s, accepted |-> a, set |-> c] \in Request
  BY DEF Request, Answers

\* A failure leaves a well-formed entry.
LEMMA FailedShape ==
    ASSUME NEW s \in Entries, NEW at \in Nat
    PROVE  Failed(s, at) \in Entries
  BY LimiterAssumption DEF Failed, Entries

\* Time passes for a request, within its delay.
LEMMA Ages ==
    ASSUME NEW q \in Request, NEW n \in Nat, NEW j \in Nat \cup {NoCookie}, NEW s \in Nat,
           RequestOK(q, n, j, s), q.pc # "idle" => n - q.sent < MaxDelay
    PROVE  RequestOK(q, n + 1, j, s)
  BY PhaseShape, ClockAssumption DEF RequestOK

\* A request does not mind a later service, nor a jar that is empty, lives no shorter,
\* or was filled by a cookie that is at most MaxDelay old.
LEMMA OthersMove ==
    ASSUME NEW q \in Request, NEW n \in Nat, NEW j \in Nat \cup {NoCookie}, NEW s \in Nat,
           NEW i \in Nat \cup {NoCookie}, NEW t \in Nat, s <= t,
           i = NoCookie \/ i = j \/ i + MaxDelay >= n + MaxAge,
           RequestOK(q, n, j, s)
    PROVE  RequestOK(q, n, i, t)
<1>1. CASE q.pc = "use"
  BY <1>1, PhaseShape, ClockAssumption, SessionAssumption DEF RequestOK, NoCookie
<1>2. CASE q.pc = "answered"
  BY <1>2, PhaseShape, ClockAssumption, SessionAssumption
  DEF RequestOK, NoCookie, Untouched, Refused
<1>3. CASE q.pc \notin {"use", "answered"}
  BY <1>3 DEF RequestOK
<1> QED
  BY <1>1, <1>2, <1>3

\* What a step does to the requests when it replaces one of them.
LEMMA Replaced ==
    ASSUME LoginInv, NEW r \in Requests, NEW q \in Request,
           req' = [req EXCEPT ![r] = q], now' = now,
           jar' \in Nat \cup {NoCookie}, served' \in Nat, served <= served',
           jar' = NoCookie \/ jar' = jar \/ jar' + MaxDelay >= now + MaxAge,
           RequestOK(q, now, jar', served')
    PROVE  /\ req' \in [Requests -> Request]
           /\ req'[r] = q
           /\ \A u \in Requests \ {r} : req'[u] = req[u]
           /\ RequestsOK'
<1>1. req \in [Requests -> Request]
  BY DEF LoginInv, TypeOK, Request
<1>2. /\ req' \in [Requests -> Request]
      /\ req'[r] = q
      /\ \A u \in Requests \ {r} : req'[u] = req[u]
  BY <1>1
<1>3. ASSUME NEW u \in Requests
      PROVE  RequestOK(req'[u], now', jar', served')
  <2>1. CASE u = r
    BY <2>1, <1>2
  <2>2. CASE u # r
    <3>1. RequestOK(req[u], now, jar, served)
      BY DEF LoginInv, RequestsOK
    <3>2. req[u] \in Request
      BY <1>1
    <3>3. now \in Nat /\ jar \in Nat \cup {NoCookie} /\ served \in Nat
      BY DEF LoginInv, TypeOK
    <3>4. RequestOK(req[u], now, jar', served')
      BY <3>1, <3>2, <3>3, OthersMove
    <3> QED
      BY <3>4, <2>2, <1>2
  <2> QED
    BY <2>1, <2>2
<1> QED
  BY <1>2, <1>3 DEF RequestsOK

\* LateOnesRefused does not mind a step that starts no comparison and leaves the
\* limiter alone.
LEMMA LimiterUnmoved ==
    ASSUME LoginInv, bucket' = bucket, lockedAt' = lockedAt, now' \in Nat, now <= now',
           \A r \in Requests : req'[r].pc = "checking" =>
               \/ req'[r] = req[r]
               \/ req[r].ip = req'[r].ip /\ ~Locked(req[r].ip, now) /\ req[r].pc = "login"
    PROVE  LateOnesRefused'
<1> SUFFICES ASSUME NEW ip \in IPs, NEW r \in Requests,
                    InForce(ip)', req'[r].pc = "checking", req'[r].ip = ip
             PROVE  req'[r].at <= lockedAt'[ip]
  BY DEF LateOnesRefused
<1>1. InForce(ip)
  <2>1. bucket[ip].locked \in Nat /\ now \in Nat
    BY DEF LoginInv, TypeOK, Entries
  <2> QED
    BY <2>1 DEF InForce
<1>2. req'[r] = req[r]
  BY <1>1 DEF InForce, Locked
<1> QED
  BY <1>1, <1>2 DEF LoginInv, LateOnesRefused

\* LateOnesRefused survives a step that resets an address's entry, or records a
\* failure there, and starts no comparison.
LEMMA LimiterMoved ==
    ASSUME LoginInv, NEW s \in Entries, NEW p \in IPs,
           now' = now,
           bucket' = [bucket EXCEPT ![p] = s],
           lockedAt' = [lockedAt EXCEPT ![p] = IF s.locked > 0 THEN now ELSE 0],
           \A u \in Requests : req'[u].pc = "checking" => req'[u] = req[u]
    PROVE  LateOnesRefused'
<1> SUFFICES ASSUME NEW ip \in IPs, NEW u \in Requests,
                    InForce(ip)', req'[u].pc = "checking", req'[u].ip = ip
             PROVE  req'[u].at <= lockedAt'[ip]
  BY DEF LateOnesRefused
<1>1. req'[u] = req[u] /\ req[u].pc = "checking" /\ req[u].ip = ip
  OBVIOUS
<1>2. bucket \in [IPs -> Entries] /\ lockedAt \in [IPs -> Nat] /\ now \in Nat
  BY DEF LoginInv, TypeOK
<1>3. CASE ip = p
  <2>1. now < s.locked
    BY <1>2, <1>3 DEF InForce
  <2>2. lockedAt'[ip] = now
    BY <2>1, <1>2, <1>3 DEF Entries
  <2>3. req[u].at <= now
    BY <1>1 DEF LoginInv, RequestsOK, RequestOK
  <2> QED
    BY <1>1, <2>2, <2>3
<1>4. CASE ip # p
  <2>1. InForce(ip)
    BY <1>2, <1>4 DEF InForce
  <2>2. lockedAt'[ip] = lockedAt[ip]
    BY <1>2, <1>4
  <2> QED
    BY <1>1, <2>1, <2>2 DEF LoginInv, LateOnesRefused
<1> QED
  BY <1>3, <1>4

-----------------------------------------------------------------------------
(* The steps.                                                              *)

\* Facts about the state that every step uses.
LEMMA Known ==
    ASSUME LoginInv
    PROVE  /\ now \in Nat /\ jar \in Nat \cup {NoCookie} /\ served \in Nat /\ answered \in Nat
           /\ bucket \in [IPs -> Entries] /\ lockedAt \in [IPs -> Nat]
           /\ \A r \in Requests : req[r] \in Request /\ RequestOK(req[r], now, jar, served)
  BY DEF LoginInv, TypeOK, Request, RequestsOK

\* Putting the pieces together.
LEMMA Together ==
    ASSUME now' \in Nat, bucket' \in [IPs -> Entries], req' \in [Requests -> Request],
           jar' \in Nat \cup {NoCookie}, lockedAt' \in [IPs -> Nat],
           served' \in Nat, answered' \in Nat,
           ClockOK', CookieFresh', ActiveStaysIn', RequestsOK', LateOnesRefused'
    PROVE  LoginInv'
  BY DEF LoginInv, TypeOK, Request

LEMMA SendKeeps ==
    ASSUME LoginInv, NEW r \in Requests, NEW q \in Request, Send(r, q),
           q.pc # "checking", RequestOK(q, now, jar, served)
    PROVE  LoginInv'
<1>1. /\ now \in Nat /\ jar \in Nat \cup {NoCookie} /\ served \in Nat /\ answered \in Nat
      /\ bucket \in [IPs -> Entries] /\ lockedAt \in [IPs -> Nat]
  BY Known
<1>2. /\ req' = [req EXCEPT ![r] = q] /\ now' = now /\ jar' = jar /\ served' = served
      /\ bucket' = bucket /\ lockedAt' = lockedAt /\ answered' = answered
  BY DEF Send
<1>3. /\ req' \in [Requests -> Request] /\ req'[r] = q
      /\ \A u \in Requests \ {r} : req'[u] = req[u]
      /\ RequestsOK'
  <2>1. /\ jar' \in Nat \cup {NoCookie} /\ served' \in Nat /\ served <= served'
        /\ RequestOK(q, now, jar', served')
    BY <1>1, <1>2
  <2> QED
    BY <2>1, <1>2, Replaced
<1>4. LateOnesRefused'
  BY <1>1, <1>2, <1>3, LimiterUnmoved
<1>5. ClockOK' /\ CookieFresh' /\ ActiveStaysIn'
  BY <1>2 DEF LoginInv, ClockOK, CookieFresh, ActiveStaysIn
<1> QED
  BY <1>1, <1>2, <1>3, <1>4, <1>5, Together

LEMMA SendLoginKeeps ==
    ASSUME LoginInv, NEW r \in Requests, NEW ip \in IPs, SendLogin(r, ip)
    PROVE  LoginInv'
<1> DEFINE q == [pc |-> "login", ip |-> ip, sent |-> now, at |-> 0]
<1>1. now \in Nat
  BY Known
<1>2. q \in Request /\ q.pc = "login" /\ q.sent = now
  BY <1>1 DEF Request, Logins
<1>3. RequestOK(q, now, jar, served)
  BY <1>1, ClockAssumption DEF RequestOK
<1>4. Send(r, q)
  BY DEF SendLogin
<1> HIDE DEF q
<1> QED
  BY <1>2, <1>3, <1>4, SendKeeps

LEMMA SendLogoutKeeps ==
    ASSUME LoginInv, NEW r \in Requests, SendLogout(r)
    PROVE  LoginInv'
<1> DEFINE q == [pc |-> "logout", sent |-> now]
<1>1. now \in Nat
  BY Known
<1>2. q \in Request /\ q.pc = "logout"
  BY <1>1 DEF Request, Logouts
<1>3. RequestOK(q, now, jar, served)
  BY <1>1, ClockAssumption DEF RequestOK
<1>4. Send(r, q)
  BY DEF SendLogout
<1> HIDE DEF q
<1> QED
  BY <1>2, <1>3, <1>4, SendKeeps

LEMMA SendUseKeeps ==
    ASSUME LoginInv, NEW r \in Requests, SendUse(r)
    PROVE  LoginInv'
<1> DEFINE q == [pc |-> "use", sent |-> now, cookie |-> jar]
<1>1. now \in Nat /\ jar \in Nat \cup {NoCookie} /\ jar <= served + MaxAge
  BY Known DEF LoginInv, CookieFresh
<1>2. q \in Request /\ q.pc = "use"
  BY <1>1 DEF Request, Uses
<1>3. RequestOK(q, now, jar, served)
  BY <1>1, ClockAssumption DEF RequestOK, NoCookie
<1>4. Send(r, q)
  BY DEF SendUse
<1> HIDE DEF q
<1> QED
  BY <1>2, <1>3, <1>4, SendKeeps

\* A cookie of a service is no later than one of a later service.
LEMMA StaysFresh ==
    ASSUME NEW j \in Int, NEW s \in Int, NEW t \in Int, s <= t, j <= s + MaxAge
    PROVE  j <= t + MaxAge
  BY SessionAssumption

\* An answer, with what else its handler does.
LEMMA AnswerKeeps ==
    ASSUME LoginInv, NEW r \in Requests, req[r].pc # "idle",
           NEW a \in Nat, NEW c \in Nat \cup {NoCookie, Untouched}, Answer(r, a, c),
           now' = now, jar' = jar, answered' = answered,
           served' \in Nat, served <= served', served' <= now,
           bucket' \in [IPs -> Entries], lockedAt' \in [IPs -> Nat],
           a <= now, c <= served' + MaxAge,
           c \in Nat => c = a + MaxAge /\ req[r].sent <= a,
           c = Untouched /\ a # Refused => jar = NoCookie \/ jar >= a + RenewWithin
    PROVE  /\ ClockOK' /\ CookieFresh' /\ ActiveStaysIn' /\ RequestsOK'
           /\ req' \in [Requests -> Request]
           /\ \A u \in Requests : req'[u].pc = "checking" => req'[u] = req[u]
           /\ LateOnesRefused' => LoginInv'
<1> DEFINE q == [pc |-> "answered", sent |-> req[r].sent, accepted |-> a, set |-> c]
<1>1. /\ now \in Nat /\ jar \in Nat \cup {NoCookie} /\ served \in Nat /\ answered \in Nat
      /\ req[r] \in Request /\ RequestOK(req[r], now, jar, served)
      /\ req \in [Requests -> Request]
  BY Known DEF LoginInv, TypeOK, Request
<1>2. req[r].sent \in Nat
  BY <1>1, PhaseShape
<1>3. q \in Request
  BY <1>2, AnswerShape
<1>4. RequestOK(q, now, jar, served')
  BY <1>1, <1>2 DEF RequestOK
<1>5. req' = [req EXCEPT ![r] = q]
  BY <1>1 DEF Answer
<1>6. q.pc = "answered"
  OBVIOUS
<1> HIDE DEF q
<1>7. jar' \in Nat \cup {NoCookie} /\ RequestOK(q, now, jar', served')
  BY <1>1, <1>4
<1>8. /\ req' \in [Requests -> Request] /\ req'[r] = q
      /\ \A u \in Requests \ {r} : req'[u] = req[u]
      /\ RequestsOK'
  BY <1>1, <1>3, <1>5, <1>7, Replaced
<1>9. ClockOK' /\ CookieFresh' /\ ActiveStaysIn'
  <2>1. ClockOK'
    BY <1>1 DEF LoginInv, ClockOK
  <2>2. jar <= served + MaxAge /\ MaxAge \in Nat /\ jar \in Int
    BY <1>1, SessionAssumption DEF LoginInv, CookieFresh, NoCookie
  <2>3. CookieFresh'
    <3>1. jar' = jar /\ served \in Int /\ served' \in Int /\ served <= served'
      BY <1>1
    <3>2. jar <= served' + MaxAge
      BY <3>1, <2>2, StaysFresh
    <3> QED
      BY <3>1, <3>2 DEF CookieFresh
  <2>4. ActiveStaysIn'
    BY DEF LoginInv, ActiveStaysIn
  <2> QED
    BY <2>1, <2>3, <2>4
<1>10. \A u \in Requests : req'[u].pc = "checking" => req'[u] = req[u]
  BY <1>6, <1>8
<1>11. LateOnesRefused' => LoginInv'
  BY <1>1, <1>8, <1>9, Together
<1> QED
  BY <1>8, <1>9, <1>10, <1>11

\* An answer that leaves the jar and the limiter alone and accepts nothing.
LEMMA RefusalKeeps ==
    ASSUME LoginInv, NEW r \in Requests, req[r].pc # "idle",
           NEW c \in {NoCookie, Untouched}, Answer(r, Refused, c),
           UNCHANGED <<now, bucket, jar, lockedAt, served, answered>>
    PROVE  LoginInv'
<1>1. /\ now \in Nat /\ jar \in Nat \cup {NoCookie} /\ served \in Nat /\ answered \in Nat
      /\ bucket \in [IPs -> Entries] /\ lockedAt \in [IPs -> Nat]
  BY Known
<1>2. Refused \in Nat /\ c \in Nat \cup {NoCookie, Untouched} /\ c \notin Nat
  BY DEF Refused, NoCookie, Untouched
<1>3. c <= served' + MaxAge
  BY <1>1, SessionAssumption DEF NoCookie, Untouched
<1>4. served' \in Nat /\ served <= served' /\ served' <= now /\ Refused <= now
  BY <1>1 DEF LoginInv, ClockOK, Refused
<1>5. /\ \A u \in Requests : req'[u].pc = "checking" => req'[u] = req[u]
      /\ LateOnesRefused' => LoginInv'
  BY <1>1, <1>2, <1>3, <1>4, AnswerKeeps
<1>6. LateOnesRefused'
  BY <1>1, <1>5, LimiterUnmoved
<1> QED
  BY <1>5, <1>6

LEMMA LoginArrivesKeeps ==
    ASSUME LoginInv, NEW r \in Requests, LoginArrives(r)
    PROVE  LoginInv'
<1>1. /\ now \in Nat /\ jar \in Nat \cup {NoCookie} /\ served \in Nat /\ answered \in Nat
      /\ bucket \in [IPs -> Entries] /\ lockedAt \in [IPs -> Nat]
      /\ req[r] \in Request /\ RequestOK(req[r], now, jar, served)
  BY Known
<1>2. CASE Locked(req[r].ip, now)
  BY <1>2, RefusalKeeps DEF LoginArrives
<1>3. CASE ~Locked(req[r].ip, now)
  <2> DEFINE q == [req[r] EXCEPT !.pc = "checking", !.at = now]
  <2>1. /\ req[r].pc = "login"
        /\ now' = now /\ bucket' = bucket /\ jar' = jar /\ lockedAt' = lockedAt
        /\ served' = served /\ answered' = answered
    BY DEF LoginArrives
  <2>2. req[r] \in Logins
    BY <1>1, <2>1, PhaseShape
  <2>3. q \in Request
    BY <1>1, <2>2 DEF Request, Logins
  <2>4. q.pc = "checking" /\ q.at = now /\ q.sent = req[r].sent /\ q.ip = req[r].ip
    BY <2>2 DEF Logins
  <2>5. req' = [req EXCEPT ![r] = q]
    <3>1. req \in [Requests -> Request]
      BY DEF LoginInv, TypeOK, Request
    <3> QED
      BY <1>3, <3>1 DEF LoginArrives
  <2> HIDE DEF q
  <2>6. RequestOK(q, now, jar', served')
    BY <1>1, <2>1, <2>4 DEF RequestOK
  <2>7. jar' \in Nat \cup {NoCookie} /\ served' \in Nat /\ served <= served'
    BY <1>1, <2>1
  <2>8. /\ req' \in [Requests -> Request] /\ req'[r] = q
        /\ \A u \in Requests \ {r} : req'[u] = req[u]
        /\ RequestsOK'
    BY <2>1, <2>3, <2>5, <2>6, <2>7, Replaced
  <2>9. \A u \in Requests : req'[u].pc = "checking" =>
            \/ req'[u] = req[u]
            \/ req[u].ip = req'[u].ip /\ ~Locked(req[u].ip, now) /\ req[u].pc = "login"
    BY <1>3, <2>1, <2>4, <2>8
  <2>10. LateOnesRefused'
    BY <1>1, <2>1, <2>9, LimiterUnmoved
  <2>11. ClockOK' /\ CookieFresh' /\ ActiveStaysIn'
    BY <2>1 DEF LoginInv, ClockOK, CookieFresh, ActiveStaysIn
  <2> QED
    BY <1>1, <2>1, <2>8, <2>10, <2>11, Together
<1> QED
  BY <1>2, <1>3

\* What is known of a login whose password is being compared.
LEMMA CheckingShape ==
    ASSUME LoginInv, NEW r \in Requests, req[r].pc = "checking"
    PROVE  /\ req[r].ip \in IPs /\ req[r].at \in Nat /\ req[r].sent <= req[r].at
           /\ req[r].at <= now
  BY Known, PhaseShape DEF RequestOK

LEMMA LoginWrongKeeps ==
    ASSUME LoginInv, NEW r \in Requests, LoginWrong(r)
    PROVE  LoginInv'
<1> DEFINE p == req[r].ip
           s == Failed(bucket[p], req[r].at)
<1>1. /\ now \in Nat /\ jar \in Nat \cup {NoCookie} /\ served \in Nat /\ answered \in Nat
      /\ bucket \in [IPs -> Entries] /\ lockedAt \in [IPs -> Nat]
  BY Known
<1>2. p \in IPs /\ req[r].at \in Nat
  BY CheckingShape DEF LoginWrong
<1>3. s \in Entries
  BY <1>1, <1>2, FailedShape
<1>4. /\ bucket' = [bucket EXCEPT ![p] = s]
      /\ lockedAt' = [lockedAt EXCEPT ![p] = IF s.locked > 0 THEN now ELSE 0]
      /\ now' = now /\ jar' = jar /\ served' = served /\ answered' = answered
      /\ req[r].pc = "checking" /\ Answer(r, Refused, Untouched)
  BY DEF LoginWrong, RecordFail
<1> HIDE DEF p, s
<1>5. bucket' \in [IPs -> Entries] /\ lockedAt' \in [IPs -> Nat]
  BY <1>1, <1>2, <1>3, <1>4
<1>6. /\ Refused \in Nat /\ Untouched \in Nat \cup {NoCookie, Untouched}
      /\ Untouched \notin Nat
  BY DEF Refused, Untouched
<1>7. Untouched <= served' + MaxAge
  BY <1>1, <1>4, SessionAssumption DEF Untouched
<1>8. served' \in Nat /\ served <= served' /\ served' <= now /\ Refused <= now
  BY <1>1, <1>4 DEF LoginInv, ClockOK, Refused
<1>9. /\ \A u \in Requests : req'[u].pc = "checking" => req'[u] = req[u]
      /\ LateOnesRefused' => LoginInv'
  BY <1>4, <1>5, <1>6, <1>7, <1>8, AnswerKeeps
<1>10. LateOnesRefused'
  BY <1>2, <1>3, <1>4, <1>9, LimiterMoved
<1> QED
  BY <1>9, <1>10

LEMMA LoginRightKeeps ==
    ASSUME LoginInv, NEW r \in Requests, LoginRight(r)
    PROVE  LoginInv'
<1> DEFINE p == req[r].ip
           a == req[r].at
           c == Issued(req[r].at)
<1>1. /\ now \in Nat /\ jar \in Nat \cup {NoCookie} /\ served \in Nat /\ answered \in Nat
      /\ bucket \in [IPs -> Entries] /\ lockedAt \in [IPs -> Nat]
  BY Known
<1>2. p \in IPs /\ a \in Nat /\ req[r].sent <= a /\ a <= now
  BY CheckingShape DEF LoginRight
<1>3. NoEntry \in Entries /\ ~(NoEntry.locked > 0)
  BY DEF NoEntry, Entries
<1>4. /\ bucket' = [bucket EXCEPT ![p] = NoEntry]
      /\ lockedAt' = [lockedAt EXCEPT ![p] = 0]
      /\ now' = now /\ jar' = jar /\ answered' = answered /\ served' = Later(served, a)
      /\ req[r].pc = "checking" /\ Answer(r, a, c)
  BY DEF LoginRight, RecordSuccess
<1>5. c \in Nat /\ c = a + MaxAge
  BY <1>2, SessionAssumption DEF Issued
<1> HIDE DEF p, a, c
<1>6. bucket' \in [IPs -> Entries] /\ lockedAt' \in [IPs -> Nat]
  BY <1>1, <1>2, <1>3, <1>4
<1>7. served' \in Nat /\ served <= served' /\ served' <= now /\ a <= served'
  BY <1>1, <1>2, <1>4 DEF LoginInv, ClockOK, Later
<1>8. c <= served' + MaxAge
  <2>1. c \in Int /\ a \in Int /\ served' \in Int /\ c <= a + MaxAge
    BY <1>2, <1>5, <1>7, SessionAssumption
  <2> QED
    BY <2>1, <1>7, StaysFresh
<1>9. c # Untouched
  BY <1>5 DEF Untouched
<1>11. /\ \A u \in Requests : req'[u].pc = "checking" => req'[u] = req[u]
       /\ LateOnesRefused' => LoginInv'
  BY <1>2, <1>4, <1>5, <1>6, <1>7, <1>8, <1>9, AnswerKeeps
<1>12. lockedAt' = [lockedAt EXCEPT ![p] = IF NoEntry.locked > 0 THEN now ELSE 0]
  BY <1>3, <1>4
<1>13. LateOnesRefused'
  BY <1>2, <1>3, <1>4, <1>11, <1>12, LimiterMoved
<1> QED
  BY <1>11, <1>13

LEMMA UseKeeps ==
    ASSUME LoginInv, NEW r \in Requests, Use(r)
    PROVE  LoginInv'
<1> DEFINE k == req[r].cookie
           c == Renewed(k, now)
<1>1. /\ now \in Nat /\ jar \in Nat \cup {NoCookie} /\ served \in Nat /\ answered \in Nat
      /\ bucket \in [IPs -> Entries] /\ lockedAt \in [IPs -> Nat]
      /\ req[r] \in Request /\ RequestOK(req[r], now, jar, served)
  BY Known
<1>2. CASE ~Valid(k, now)
  BY <1>2, RefusalKeeps DEF Use
<1>3. CASE Valid(k, now)
  <2>1. /\ req[r].pc = "use" /\ Answer(r, now, c)
        /\ now' = now /\ jar' = jar /\ answered' = answered /\ served' = now
        /\ bucket' = bucket /\ lockedAt' = lockedAt
    BY <1>3 DEF Use
  <2>2. k \in Nat /\ req[r].sent \in Nat
    BY <1>1, <1>3, <2>1, PhaseShape DEF Valid
  <2>3. /\ c \in Nat \cup {NoCookie, Untouched}
        /\ c \in Nat => c = now + MaxAge
        /\ c = Untouched => k - now > RenewWithin
        /\ c <= now + MaxAge
    BY <1>1, <2>2, SessionAssumption DEF Renewed, Issued, Untouched
  <2>4. /\ req[r].sent <= now /\ now <= req[r].sent + MaxDelay
        /\ jar = NoCookie \/ jar >= k \/ jar + MaxDelay >= req[r].sent + MaxAge
    BY <1>1, <2>1 DEF RequestOK
  <2> HIDE DEF c, k
  <2>5. c = Untouched => jar = NoCookie \/ jar >= now + RenewWithin
    BY <1>1, <2>2, <2>3, <2>4, ClockAssumption, SessionAssumption DEF NoCookie
  <2>6. served' \in Nat /\ served <= served' /\ served' <= now /\ c <= served' + MaxAge
    BY <1>1, <2>1, <2>3 DEF LoginInv, ClockOK
  <2>7. bucket' \in [IPs -> Entries] /\ lockedAt' \in [IPs -> Nat]
    BY <1>1, <2>1
  <2>8. now <= now /\ (c \in Nat => c = now + MaxAge /\ req[r].sent <= now)
    BY <1>1, <2>3, <2>4
  <2>9. /\ \A u \in Requests : req'[u].pc = "checking" => req'[u] = req[u]
        /\ LateOnesRefused' => LoginInv'
    BY <1>1, <2>1, <2>3, <2>5, <2>6, <2>7, <2>8, AnswerKeeps
  <2>10. LateOnesRefused'
    BY <1>1, <2>1, <2>9, LimiterUnmoved
  <2> QED
    BY <2>9, <2>10
<1> QED
  BY <1>2, <1>3

\* A request ends: for the browser, with the jar filled or not.
LEMMA EndKeeps ==
    ASSUME LoginInv, NEW r \in Requests, req' = [req EXCEPT ![r] = Idle],
           UNCHANGED <<now, bucket, lockedAt, served>>,
           jar' \in Nat \cup {NoCookie}, answered' \in Nat, answered' <= now,
           jar' = NoCookie \/ jar' = jar \/ jar' + MaxDelay >= now + MaxAge,
           CookieFresh', ActiveStaysIn'
    PROVE  LoginInv'
<1>1. /\ now \in Nat /\ jar \in Nat \cup {NoCookie} /\ served \in Nat /\ answered \in Nat
      /\ bucket \in [IPs -> Entries] /\ lockedAt \in [IPs -> Nat]
  BY Known
<1>2. Idle \in Request /\ RequestOK(Idle, now, jar', served') /\ Idle.pc = "idle"
  BY DEF Request, RequestOK, Idle
<1>3. served' \in Nat /\ served <= served'
  BY <1>1
<1>4. /\ req' \in [Requests -> Request] /\ req'[r] = Idle
      /\ \A u \in Requests \ {r} : req'[u] = req[u]
      /\ RequestsOK'
  BY <1>2, <1>3, Replaced
<1>5. LateOnesRefused'
  BY <1>1, <1>2, <1>4, LimiterUnmoved
<1>6. ClockOK'
  BY DEF LoginInv, ClockOK
<1> QED
  BY <1>1, <1>4, <1>5, <1>6, Together

\* What lasts long enough now does so from any earlier moment.
LEMMA Slides ==
    ASSUME NEW c \in Nat, NEW a \in Nat, NEW n \in Nat, a <= n, c >= n + RenewWithin
    PROVE  c >= a + RenewWithin
  BY SessionAssumption

LEMMA ReceiveKeeps ==
    ASSUME LoginInv, NEW r \in Requests, Receive(r)
    PROVE  LoginInv'
<1>1. /\ now \in Nat /\ jar \in Nat \cup {NoCookie} /\ served \in Nat /\ answered \in Nat
      /\ req[r] \in Request /\ RequestOK(req[r], now, jar, served)
  BY Known
<1> DEFINE a == req[r].accepted
           c == req[r].set
<1>2. /\ req' = [req EXCEPT ![r] = Idle]
      /\ UNCHANGED <<now, bucket, lockedAt, served>>
      /\ req[r].pc = "answered"
      /\ jar' = IF c = Untouched THEN jar ELSE c
      /\ answered' = Later(answered, a)
  BY DEF Receive
<1>3. /\ req[r].sent \in Nat /\ a \in Nat /\ c \in Nat \cup {NoCookie, Untouched}
      /\ now <= req[r].sent + MaxDelay /\ a <= now
      /\ c \in Nat => c = a + MaxAge /\ req[r].sent <= a
      /\ c = Untouched /\ a # Refused => jar = NoCookie \/ jar >= a + RenewWithin
      /\ c <= served + MaxAge
  BY <1>1, <1>2, PhaseShape DEF RequestOK
<1>4. answered <= now /\ CookieFresh /\ (jar # NoCookie => jar >= answered + RenewWithin)
  BY DEF LoginInv, ClockOK, ActiveStaysIn
<1> HIDE DEF a, c
<1>5. answered' \in Nat /\ answered' <= now
  BY <1>1, <1>2, <1>3, <1>4 DEF Later
<1>6. jar' \in Nat \cup {NoCookie}
  BY <1>1, <1>2, <1>3
<1>7. CookieFresh'
  BY <1>2, <1>3, <1>4 DEF CookieFresh
<1>8. jar' = NoCookie \/ jar' = jar \/ jar' + MaxDelay >= now + MaxAge
  BY <1>1, <1>2, <1>3, ClockAssumption, SessionAssumption
<1>9. ActiveStaysIn'
  <2>1. CASE c = Untouched /\ a # Refused
    BY <2>1, <1>1, <1>2, <1>3, <1>4, SessionAssumption DEF ActiveStaysIn, Later
  <2>2. CASE c = Untouched /\ a = Refused
    BY <2>2, <1>1, <1>2, <1>4 DEF ActiveStaysIn, Later, Refused
  <2>3. CASE c \in Nat
    <3>1. jar' = c /\ c + MaxDelay >= now + MaxAge
      BY <2>3, <1>1, <1>2, <1>3, ClockAssumption, SessionAssumption DEF Untouched
    <3>2. c >= now + RenewWithin
      BY <3>1, <2>3, <1>1, ClockAssumption, SessionAssumption
    <3>3. c >= answered' + RenewWithin
      BY <3>2, <2>3, <1>1, <1>5, Slides
    <3> QED
      BY <3>1, <3>3 DEF ActiveStaysIn
  <2>4. CASE c = NoCookie
    BY <2>4, <1>2 DEF ActiveStaysIn, NoCookie, Untouched
  <2> QED
    BY <1>3, <2>1, <2>2, <2>3, <2>4
<1> QED
  BY <1>2, <1>5, <1>6, <1>7, <1>8, <1>9, EndKeeps

LEMMA LostKeeps ==
    ASSUME LoginInv, NEW r \in Requests, Lost(r)
    PROVE  LoginInv'
<1>1. /\ req' = [req EXCEPT ![r] = Idle] /\ jar' = jar /\ answered' = answered
      /\ UNCHANGED <<now, bucket, lockedAt, served>>
  BY DEF Lost
<1>2. jar' \in Nat \cup {NoCookie} /\ answered' \in Nat /\ answered' <= now
  BY <1>1, Known DEF LoginInv, ClockOK
<1>3. CookieFresh' /\ ActiveStaysIn'
  BY <1>1 DEF LoginInv, CookieFresh, ActiveStaysIn
<1> QED
  BY <1>1, <1>2, <1>3, EndKeeps

LEMMA SweepKeeps ==
    ASSUME LoginInv, Sweep
    PROVE  LoginInv'
<1>1. /\ now \in Nat /\ bucket \in [IPs -> Entries] /\ lockedAt \in [IPs -> Nat]
  BY Known
<1>2. /\ bucket' = [ip \in IPs |-> IF Outlived(bucket[ip]) THEN NoEntry ELSE bucket[ip]]
      /\ lockedAt' = [ip \in IPs |-> IF Outlived(bucket[ip]) THEN 0 ELSE lockedAt[ip]]
      /\ now' = now /\ req' = req /\ jar' = jar /\ served' = served /\ answered' = answered
  BY DEF Sweep
<1>3. NoEntry \in Entries /\ NoEntry.locked = 0
  BY DEF NoEntry, Entries
<1>4. bucket' \in [IPs -> Entries] /\ lockedAt' \in [IPs -> Nat]
  BY <1>1, <1>2, <1>3
<1>5. LateOnesRefused'
  <2> SUFFICES ASSUME NEW ip \in IPs, NEW r \in Requests,
                      InForce(ip)', req'[r].pc = "checking", req'[r].ip = ip
               PROVE  req'[r].at <= lockedAt'[ip]
    BY DEF LateOnesRefused
  <2>1. ~Outlived(bucket[ip])
    BY <1>1, <1>2, <1>3 DEF InForce
  <2>2. InForce(ip) /\ lockedAt'[ip] = lockedAt[ip]
    BY <1>2, <2>1 DEF InForce
  <2> QED
    BY <1>2, <2>2 DEF LoginInv, LateOnesRefused
<1>6. ClockOK' /\ CookieFresh' /\ ActiveStaysIn' /\ RequestsOK'
  BY <1>2 DEF LoginInv, ClockOK, CookieFresh, ActiveStaysIn, RequestsOK
<1>7. /\ now' \in Nat /\ req' \in [Requests -> Request] /\ jar' \in Nat \cup {NoCookie}
      /\ served' \in Nat /\ answered' \in Nat
  BY <1>2 DEF LoginInv, TypeOK, Request
<1> QED
  BY <1>4, <1>5, <1>6, <1>7, Together

LEMMA ExpireKeeps ==
    ASSUME LoginInv, Expire
    PROVE  LoginInv'
<1>1. /\ now \in Nat /\ jar \in Nat \cup {NoCookie} /\ served \in Nat /\ answered \in Nat
      /\ bucket \in [IPs -> Entries] /\ lockedAt \in [IPs -> Nat]
      /\ \A r \in Requests : req[r] \in Request /\ RequestOK(req[r], now, jar, served)
  BY Known
<1>2. /\ jar' = NoCookie
      /\ UNCHANGED <<now, bucket, req, lockedAt, served, answered>>
  BY DEF Expire
<1>3. NoCookie \in Nat \cup {NoCookie} /\ served <= served
  BY <1>1
<1>4. ASSUME NEW r \in Requests
      PROVE  RequestOK(req[r], now, NoCookie, served)
  BY <1>1, <1>3, OthersMove
<1>5. RequestsOK'
  BY <1>2, <1>4 DEF RequestsOK
<1>6. LateOnesRefused'
  BY <1>1, <1>2, LimiterUnmoved
<1>7. ClockOK' /\ ActiveStaysIn'
  BY <1>2 DEF LoginInv, ClockOK, ActiveStaysIn
<1>8. CookieFresh'
  BY <1>1, <1>2, SessionAssumption DEF CookieFresh, NoCookie
<1>9. /\ now' \in Nat /\ req' \in [Requests -> Request] /\ jar' \in Nat \cup {NoCookie}
      /\ served' \in Nat /\ answered' \in Nat
      /\ bucket' \in [IPs -> Entries] /\ lockedAt' \in [IPs -> Nat]
  BY <1>1, <1>2 DEF LoginInv, TypeOK, Request
<1> QED
  BY <1>5, <1>6, <1>7, <1>8, <1>9, Together

LEMMA TickKeeps ==
    ASSUME LoginInv, Tick
    PROVE  LoginInv'
<1>1. /\ now \in Nat /\ jar \in Nat \cup {NoCookie} /\ served \in Nat /\ answered \in Nat
      /\ bucket \in [IPs -> Entries] /\ lockedAt \in [IPs -> Nat]
      /\ \A r \in Requests : req[r] \in Request /\ RequestOK(req[r], now, jar, served)
  BY Known
<1>2. /\ now' = now + 1
      /\ \A r \in Requests : req[r].pc # "idle" => now - req[r].sent < MaxDelay
      /\ UNCHANGED <<bucket, req, jar, lockedAt, served, answered>>
  BY DEF Tick
<1>3. ASSUME NEW r \in Requests
      PROVE  RequestOK(req[r], now + 1, jar, served)
  BY <1>1, <1>2, Ages
<1>4. RequestsOK'
  BY <1>2, <1>3 DEF RequestsOK
<1>5. now' \in Nat /\ now <= now'
  BY <1>1, <1>2
<1>6. LateOnesRefused'
  BY <1>2, <1>5, LimiterUnmoved
<1>7. ClockOK'
  BY <1>1, <1>2 DEF LoginInv, ClockOK
<1>8. CookieFresh' /\ ActiveStaysIn'
  BY <1>2 DEF LoginInv, CookieFresh, ActiveStaysIn
<1>9. /\ req' \in [Requests -> Request] /\ jar' \in Nat \cup {NoCookie}
      /\ served' \in Nat /\ answered' \in Nat
      /\ bucket' \in [IPs -> Entries] /\ lockedAt' \in [IPs -> Nat]
  BY <1>1, <1>2 DEF LoginInv, TypeOK, Request
<1> QED
  BY <1>4, <1>5, <1>6, <1>7, <1>8, <1>9, Together

LEMMA InitHolds == Init => LoginInv
<1> SUFFICES ASSUME Init
             PROVE  LoginInv
  OBVIOUS
<1>1. TypeOK
  BY DEF Init, TypeOK, Entries, NoEntry
<1>2. \A r \in Requests : req[r].pc = "idle"
  BY DEF Init, Idle
<1>3. RequestsOK /\ LateOnesRefused
  BY <1>2 DEF RequestsOK, RequestOK, LateOnesRefused
<1>4. ClockOK /\ ActiveStaysIn
  BY DEF Init, ClockOK, ActiveStaysIn
<1>5. CookieFresh
  BY SessionAssumption DEF Init, CookieFresh, NoCookie
<1> QED
  BY <1>1, <1>3, <1>4, <1>5 DEF LoginInv

\* One step per action.
LEMMA NextKeeps == LoginInv /\ [Next]_vars => LoginInv'
<1> SUFFICES ASSUME LoginInv, [Next]_vars
             PROVE  LoginInv'
  OBVIOUS
<1>1. ASSUME NEW r \in Requests, OfRequest(r)
      PROVE  LoginInv'
  <2>1. CASE \E ip \in IPs : SendLogin(r, ip)
    BY <2>1, SendLoginKeeps
  <2>2. CASE SendLogout(r)
    BY <2>2, SendLogoutKeeps
  <2>3. CASE SendUse(r)
    BY <2>3, SendUseKeeps
  <2>4. CASE LoginArrives(r)
    BY <2>4, LoginArrivesKeeps
  <2>5. CASE LoginMalformed(r)
    BY <2>5, RefusalKeeps DEF LoginMalformed
  <2>6. CASE LoginWrong(r)
    BY <2>6, LoginWrongKeeps
  <2>7. CASE LoginRight(r)
    BY <2>7, LoginRightKeeps
  <2>8. CASE Logout(r)
    BY <2>8, RefusalKeeps DEF Logout
  <2>9. CASE Use(r)
    BY <2>9, UseKeeps
  <2>10. CASE Receive(r)
    BY <2>10, ReceiveKeeps
  <2>11. CASE Lost(r)
    BY <2>11, LostKeeps
  <2> QED
    BY <1>1, <2>1, <2>2, <2>3, <2>4, <2>5, <2>6, <2>7, <2>8, <2>9, <2>10, <2>11
    DEF OfRequest
<1>2. CASE Sweep
  BY <1>2, SweepKeeps
<1>3. CASE Expire
  BY <1>3, ExpireKeeps
<1>4. CASE Tick
  BY <1>4, TickKeeps
<1>5. CASE UNCHANGED vars
  <2>1. /\ now' = now /\ bucket' = bucket /\ req' = req /\ jar' = jar
        /\ lockedAt' = lockedAt /\ served' = served /\ answered' = answered
    BY <1>5 DEF vars
  <2>2. TypeOK' /\ ClockOK' /\ CookieFresh' /\ ActiveStaysIn'
    BY <2>1 DEF LoginInv, TypeOK, ClockOK, CookieFresh, ActiveStaysIn
  <2>3. RequestsOK' /\ LateOnesRefused'
    BY <2>1 DEF LoginInv, RequestsOK, LateOnesRefused, InForce
  <2> QED
    BY <2>2, <2>3 DEF LoginInv
<1> QED
  BY <1>1, <1>2, <1>3, <1>4, <1>5 DEF Next

LEMMA Invariance == Spec => []LoginInv
  BY InitHolds, NextKeeps, PTL DEF Spec

-----------------------------------------------------------------------------
(* The properties.                                                         *)

\* Types of the login limiter and the sessions (auth/ratelimit.go, session.go).
THEOREM TypeCorrect == Spec => []TypeOK
<1>1. LoginInv => TypeOK
  BY DEF LoginInv
<1> QED
  BY <1>1, Invariance, PTL

\* Behind a lock only passwords that came before it are compared, for any number of
\* logins at a time (server.go 167-187).
THEOREM LateRefused == Spec => []LateOnesRefused
<1>1. LoginInv => LateOnesRefused
  BY DEF LoginInv
<1> QED
  BY <1>1, Invariance, PTL

\* The session slides for any settings that leave two delays of room (session.go 93-98).
THEOREM ActiveStay == Spec => []ActiveStaysIn
<1>1. LoginInv => ActiveStaysIn
  BY DEF LoginInv
<1> QED
  BY <1>1, Invariance, PTL

\* Only a request's own step changes it.
LEMMA OwnStep ==
    ASSUME LoginInv, NEW u \in Requests, OfRequest(u), NEW r \in Requests, r # u
    PROVE  req'[r] = req[r]
<1>1. req \in [Requests -> Request]
  BY DEF LoginInv, TypeOK, Request
<1> QED
  BY <1>1 DEF OfRequest, SendLogin, SendLogout, SendUse, Send, Answer, LoginArrives,
     LoginMalformed, LoginWrong, LoginRight, Logout, Use, Receive, Lost

\* Only requireAuth answers a use.
LEMMA AnswersUse ==
    ASSUME LoginInv, [Next]_vars, NEW r \in Requests,
           req[r].pc = "use", req'[r].pc = "answered"
    PROVE  Use(r)
<1>1. req'[r] # req[r]
  OBVIOUS
<1>2. OfRequest(r)
  <2>1. ~(Sweep \/ Expire \/ Tick \/ UNCHANGED vars)
    BY <1>1 DEF Sweep, Expire, Tick, vars
  <2>2. PICK u \in Requests : OfRequest(u)
    BY <2>1 DEF Next
  <2> QED
    BY <1>1, <2>2, OwnStep
<1>3. ~Receive(r) /\ ~Lost(r)
  <2>1. Receive(r) \/ Lost(r) => req'[r] = Idle
    BY DEF Receive, Lost, LoginInv, TypeOK
  <2> QED
    BY <2>1 DEF Idle
<1> QED
  BY <1>2, <1>3 DEF OfRequest, SendLogin, SendLogout, SendUse, Send, LoginArrives,
     LoginMalformed, LoginWrong, LoginRight, Logout

\* A session ends MaxAge after its last use, however its renewals overlap
\* (session.go 85-131).
THEOREM IdleOut == Spec => IdleLogsOut
<1>1. LoginInv /\ [Next]_vars =>
        [\A r \in Requests :
            req[r].pc = "use" /\ req'[r].pc = "answered" /\ req'[r].accepted # Refused =>
                now <= served + MaxAge]_vars
  <2> SUFFICES ASSUME LoginInv, [Next]_vars, NEW r \in Requests,
                      req[r].pc = "use", req'[r].pc = "answered",
                      req'[r].accepted # Refused
               PROVE  now <= served + MaxAge
    OBVIOUS
  <2>1. Use(r)
    BY AnswersUse
  <2>2. Valid(req[r].cookie, now)
    <3>1. ~Valid(req[r].cookie, now) => req'[r].accepted = Refused
      BY <2>1 DEF Use, Answer, LoginInv, TypeOK
    <3> QED
      BY <3>1
  <2>3. req[r].cookie <= served + MaxAge /\ req[r].cookie \in Nat
    BY <2>2, Known, PhaseShape DEF RequestOK, Valid
  <2>4. now \in Nat /\ served \in Nat /\ now <= req[r].cookie
    BY <2>2, Known DEF Valid
  <2> QED
    BY <2>3, <2>4, SessionAssumption
<1> QED
  BY <1>1, Invariance, PTL DEF Spec, IdleLogsOut

\* A lock in force is lifted only by a login that came before it, whatever the sweep
\* does (ratelimit.go 46-74).
THEOREM LocksKept == Spec => LockKept
<1>1. LoginInv /\ [Next]_vars =>
        [\A ip \in IPs :
            InForce(ip) /\ bucket'[ip].locked < bucket[ip].locked =>
                \E r \in Requests :
                    /\ req[r].pc = "checking" /\ req[r].ip = ip
                    /\ req[r].at <= lockedAt[ip]
                    /\ req'[r].pc = "answered"]_vars
  <2> SUFFICES ASSUME LoginInv, [Next]_vars, NEW ip \in IPs,
                      InForce(ip), bucket'[ip].locked < bucket[ip].locked
               PROVE  \E r \in Requests :
                          /\ req[r].pc = "checking" /\ req[r].ip = ip
                          /\ req[r].at <= lockedAt[ip]
                          /\ req'[r].pc = "answered"
    OBVIOUS
  <2>1. /\ now \in Nat /\ bucket \in [IPs -> Entries] /\ lockedAt \in [IPs -> Nat]
    BY Known
  <2>2. bucket[ip].locked \in Nat /\ now < bucket[ip].locked
    BY <2>1 DEF InForce, Entries
  <2>3. bucket'[ip] # bucket[ip]
    BY <2>2
  <2>4. ~(Expire \/ Tick \/ UNCHANGED vars)
    BY <2>3 DEF Expire, Tick, vars
  <2>5. ~Sweep
    <3>1. ~Outlived(bucket[ip])
      BY <2>1, <2>2 DEF Outlived
    <3>2. Sweep => bucket'[ip] = bucket[ip]
      BY <3>1 DEF Sweep
    <3> QED
      BY <2>3, <3>2
  <2>6. PICK r \in Requests : OfRequest(r)
    BY <2>4, <2>5 DEF Next
  <2>7. LoginWrong(r) \/ LoginRight(r)
    BY <2>3, <2>6 DEF OfRequest, SendLogin, SendLogout, SendUse, Send, LoginArrives,
       LoginMalformed, Logout, Use, Receive, Lost
  <2>8. req[r].pc = "checking" /\ req'[r].pc = "answered"
    <3>1. req \in [Requests -> Request]
      BY DEF LoginInv, TypeOK, Request
    <3> QED
      BY <2>7, <3>1 DEF LoginWrong, LoginRight, Answer
  <2>9. req[r].ip = ip
    <3>1. req[r].ip \in IPs
      BY <2>8, CheckingShape
    <3>2. \E s : bucket' = [bucket EXCEPT ![req[r].ip] = s]
      BY <2>7 DEF LoginWrong, LoginRight, RecordFail, RecordSuccess
    <3> QED
      BY <2>1, <2>3, <3>1, <3>2
  <2>10. req[r].at <= lockedAt[ip]
    BY <2>8, <2>9 DEF LoginInv, LateOnesRefused
  <2> QED
    BY <2>8, <2>9, <2>10
<1> QED
  BY <1>1, Invariance, PTL DEF Spec, LockKept
=============================================================================
