------------------------------ MODULE Console -------------------------------
(***************************************************************************)
(* An operator's browser and what it talks to: the usePolling hook         *)
(* (frontend/hooks/use-polling.ts) under the dashboard and the page of     *)
(* dead jobs, the session in lib/api.ts, StatsService.overview with its    *)
(* cache in Redis, and the login throttle of EventBus.check_rate_limit.    *)
(*                                                                         *)
(* Requests overlap: the interval sends one whether or not the last has    *)
(* been answered, and answers come in any order.  The data are reduced to  *)
(* the version of the database they were read at; an overview, which is    *)
(* several statements, counts as old as the first of them.                 *)
(*                                                                         *)
(* A request is live while the effect that sent it is mounted, stale when  *)
(* its effect has been cleaned up and the document lives on, and gone when *)
(* nobody listens any more or somebody else sent it.                       *)
(*                                                                         *)
(* Operators named for a mistake (CleanedUpLeavingActive, ...) are slips   *)
(* of the operator after them and are used by nothing.                     *)
(***************************************************************************)
EXTENDS Naturals

CONSTANTS
    Conn,           \* bound: polls under way at once
    MaxVersion,     \* bound: changes to the database
    Limit,          \* settings.login_rate_limit_per_minute
    Window,         \* its window, in ticks
    None, Posted

ASSUME ConsoleAssumption ==
    /\ MaxVersion \in Nat /\ {Limit, Window} \subseteq Nat \ {0} /\ {None, Posted} \cap Nat = {}

VARIABLES
    version,    \* how often the database has changed
    cache,      \* chronos:stats:overview
    count,      \* chronos:ratelimit:login:<ip>
    ttl,        \* what is left of its expiry; 0 when it has none
    conn,       \* the requests under way
    token,      \* the access token in localStorage
    page,       \* the page that is mounted
    shown,      \* the data it shows
    act,        \* the operator's action: none, posted, or done at this version
    floor       \* history: the version of the last action the page was refreshed after

vars == <<version, cache, count, ttl, conn, token, page, shown, act, floor>>

redis == <<cache, count, ttl>>
browser == <<token, page, shown, act, floor>>

Free == [at |-> "free", owner |-> "gone", seen |-> None]

Send(c, at, owner) == conn' = [conn EXCEPT ![c] = [at |-> at, owner |-> owner, seen |-> None]]

CleanedUpLeavingActive == conn

\* The cleanup of the effect sets its active to false; fetches go on.  What
\* is only read for somebody who no longer listens is left out.
CleanedUp ==
    [c \in Conn |->
        IF conn[c].owner # "live" THEN conn[c]
        ELSE IF conn[c].at \in {"list", "answer"} THEN Free
        ELSE [conn[c] EXCEPT !.owner = "stale"]]

\* window.location.href: the document and its fetches are gone.  The server
\* goes on with what it was asked.
Unloaded ==
    [c \in Conn |-> IF conn[c].at \in {"lookup", "compute"}
                    THEN [conn[c] EXCEPT !.owner = "gone"] ELSE Free]

-----------------------------------------------------------------------------
Init ==
    /\ version = 0
    /\ cache = None
    /\ count = 0 /\ ttl = 0
    /\ conn = [c \in Conn |-> Free]
    /\ token = "none"
    /\ page = "login"
    /\ shown = None
    /\ act = None
    /\ floor = 0

(* The browser *)

\* tick of usePolling, at once and then every interval.
Tick(c) ==
    /\ page # "login"
    /\ conn[c].at = "free"
    /\ Send(c, IF token # "valid" THEN "refused" ELSE IF page = "dashboard" THEN "lookup" ELSE "list",
            "live")
    /\ UNCHANGED <<version, redis, browser>>

\* The answer arrives while the effect that asked for it is mounted.
Deliver(c) ==
    /\ conn[c].at = "answer"
    /\ shown' = conn[c].seen
    /\ conn' = [conn EXCEPT ![c] = Free]
    /\ UNCHANGED <<version, redis, token, page, act, floor>>

\* The request ends in an error other than a 401: the last good data stay.
Fails(c) ==
    /\ conn[c].at \in {"lookup", "compute", "list", "answer"}
    /\ conn' = [conn EXCEPT ![c] = Free]
    /\ UNCHANGED <<version, redis, browser>>

\* api() on a 401: clear the token, whichever it is by now, and load the
\* login page unless that is where the browser is.
Refused(c) ==
    /\ conn[c].at = "refused"
    /\ token' = "none"
    /\ \/ /\ page = "login"
          /\ conn' = [conn EXCEPT ![c] = Free]
          /\ UNCHANGED <<page, shown, act>>
       \/ /\ page # "login"
          /\ page' = "login" /\ shown' = None /\ act' = None
          /\ conn' = Unloaded
    /\ UNCHANGED <<version, redis, floor>>

\* A Link: the page is unmounted, another mounted.
Navigate ==
    /\ page # "login"
    /\ page' = IF page = "dashboard" THEN "dlq" ELSE "dashboard"
    /\ conn' = CleanedUp
    /\ shown' = None /\ act' = None
    /\ UNCHANGED <<version, redis, token, floor>>

\* Log out in nav.tsx: no document is unloaded.
LogOut ==
    /\ page # "login"
    /\ token' = "none" /\ page' = "login"
    /\ conn' = CleanedUp
    /\ shown' = None /\ act' = None
    /\ UNCHANGED <<version, redis, floor>>

\* access_token_ttl_minutes are over.
TokenExpires ==
    /\ token = "valid"
    /\ token' = "expired"
    /\ UNCHANGED <<version, redis, conn, page, shown, act, floor>>

\* A click on Requeue of the page of dead jobs.
Requeue ==
    /\ page = "dlq" /\ act = None
    /\ act' = Posted
    /\ UNCHANGED <<version, redis, conn, token, page, shown, floor>>

\* JobService.requeue commits and answers; or it refuses, or fails.
Requeued ==
    /\ act = Posted
    /\ \/ /\ version < MaxVersion
          /\ version' = version + 1
       \/ UNCHANGED version
    /\ act' = version'
    /\ UNCHANGED <<redis, conn, token, page, shown, floor>>

\* refresh(): the nonce changes, and the effect is cleaned up and run again.
Refresh ==
    /\ act \in Nat
    /\ conn' = CleanedUp
    /\ floor' = act
    /\ act' = None
    /\ UNCHANGED <<version, redis, token, page, shown>>

-----------------------------------------------------------------------------
(* The API *)

\* The fleet changes the state of jobs.
Work ==
    /\ version < MaxVersion
    /\ version' = version + 1
    /\ UNCHANGED <<redis, conn, browser>>

\* The answer goes out, if somebody listens.
Answer(c, seen) ==
    conn' = [conn EXCEPT ![c] = IF @.owner = "live" THEN [@ EXCEPT !.at = "answer", !.seen = seen]
                                                    ELSE Free]

\* list_jobs
List(c) ==
    /\ conn[c].at = "list"
    /\ Answer(c, version)
    /\ UNCHANGED <<version, redis, browser>>

\* counts_by_status, the first statement of _compute: nothing an overview
\* shows is older.
FirstRead == version

\* overview: what is cached is returned; otherwise, and when Redis fails, the
\* first statement of _compute is run.
Lookup(c) ==
    /\ conn[c].at = "lookup"
    /\ \/ cache # None /\ Answer(c, cache)
       \/ conn' = [conn EXCEPT ![c].at = "compute", ![c].seen = FirstRead]
    /\ UNCHANGED <<version, redis, browser>>

\* The rest of _compute, set_cached, which may fail, and the answer.
Compute(c) ==
    /\ conn[c].at = "compute"
    /\ cache' \in {cache, conn[c].seen}
    /\ Answer(c, conn[c].seen)
    /\ UNCHANGED <<version, count, ttl, browser>>

NeverExpires == FALSE

\* set_cached gives the overview stats_cache_ttl_seconds.
Expires == cache # None

CacheExpires ==
    /\ Expires
    /\ cache' = None
    /\ UNCHANGED <<version, count, ttl, conn, browser>>

SetsExpiryAlways(n) == TRUE

\* check_rate_limit: only the first call of a window sets the expiry.
SetsExpiry(n) == n = 1

\* INCR, which is 1 for a key that was not there, and EXPIRE; either may
\* fail, and then the call is allowed.  Nobody can tell when between the two
\* the others come, so they are one step.  Counts beyond the limit are not
\* told apart.
CheckRateLimit(allowed) ==
    \/ allowed /\ UNCHANGED <<count, ttl>>
    \/ LET n == count + 1 IN
       /\ count' = IF n > Limit THEN Limit + 1 ELSE n
       /\ \/ /\ SetsExpiry(n)
             /\ \/ ttl' = Window /\ allowed = (n <= Limit)
                \/ ttl' = ttl /\ allowed
          \/ /\ ~SetsExpiry(n)
             /\ ttl' = ttl /\ allowed = (n <= Limit)

\* POST /auth/login from the login page: 200 and a token, a 401 for a wrong
\* password, or a 429 with "try again in a minute".
LogIn(allowed) ==
    /\ page = "login"
    /\ CheckRateLimit(allowed)
    /\ \/ allowed /\ token' = "valid" /\ page' = "dashboard"
       \/ UNCHANGED <<token, page>>
    /\ UNCHANGED <<version, cache, conn, shown, act, floor>>

\* ... or from anybody else behind the address
OthersLogIn(allowed) ==
    /\ CheckRateLimit(allowed)
    /\ UNCHANGED <<version, cache, conn, browser>>

\* Time passes in Redis.
Second ==
    /\ ttl > 0
    /\ ttl' = ttl - 1
    /\ count' = IF ttl = 1 THEN 0 ELSE count
    /\ UNCHANGED <<version, cache, conn, browser>>

Serve(c) == Deliver(c) \/ Refused(c) \/ List(c) \/ Lookup(c) \/ Compute(c)

Next ==
    \/ \E c \in Conn : Tick(c) \/ Serve(c) \/ Fails(c)
    \/ Navigate \/ LogOut \/ TokenExpires \/ Requeue \/ Requeued \/ Refresh
    \/ \E allowed \in BOOLEAN : LogIn(allowed) \/ OthersLogIn(allowed)
    \/ Work \/ CacheExpires \/ Second

\* The interval fires, requests end, and time passes in Redis.
Fairness ==
    /\ WF_vars(\E c \in Conn : Tick(c))
    /\ \A c \in Conn : WF_vars(Serve(c))
    /\ WF_vars(CacheExpires)
    /\ WF_vars(Second)

Spec == Init /\ [][Next]_vars /\ Fairness

-----------------------------------------------------------------------------
(* Properties *)

TypeOK ==
    /\ version \in 0..MaxVersion
    /\ cache \in 0..MaxVersion \cup {None}
    /\ count \in 0..(Limit + 1)
    /\ ttl \in 0..Window
    /\ conn \in [Conn -> [at : {"free", "lookup", "compute", "list", "answer", "refused"},
                          owner : {"live", "stale", "gone"}, seen : 0..MaxVersion \cup {None}]]
    /\ token \in {"none", "valid", "expired"}
    /\ page \in {"login", "dashboard", "dlq"}
    /\ shown \in 0..MaxVersion \cup {None}
    /\ act \in 0..MaxVersion \cup {None, Posted}
    /\ floor \in 0..MaxVersion

\* act and refresh of the pages with usePolling: once the page has been
\* refreshed after an operator's action, no late answer to an earlier request
\* puts back the list from before it.
ReadYourActions ==
    [][page = "dlq" /\ shown' # shown /\ shown' # None => shown' >= floor]_vars

\* overview and usePolling: with requests overlapping, answers out of order
\* and a cache that a slow computation may fill late, a dashboard that is
\* left open comes to show what the database has come to rest at.
DashboardConverges ==
    /\ <>[](page = "dashboard" /\ token = "valid")
    /\ <>[][\A c \in Conn : ~Fails(c)]_vars
    => <>[](shown = version)

\* check_rate_limit lost the expiry of a counter it created.
ExpiryLost == count > 0 /\ ttl = 0

\* check_rate_limit: who is told to try again in a minute need only wait,
\* however often everybody behind the address tries meanwhile - unless the
\* expiry of the counter was lost between two commands.
WindowsEnd == count > Limit ~> (count = 0 \/ ExpiryLost)
=============================================================================
