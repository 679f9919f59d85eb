---------------------------- MODULE Console_proofs ----------------------------
(***************************************************************************)
(* What an operator may rely on who acts on the page of dead jobs, for any *)
(* number of polls under way and of changes to the database: after the     *)
(* refresh that follows the action no answer shows what was there before.  *)
(***************************************************************************)
EXTENDS Console, TLAPS

\* Nothing is newer than the database.
OfThePast ==
    /\ floor <= version
    /\ act \in Nat => act <= version

\* An answer under way is one the mounted effect waits for; it and what is
\* being computed have been read.
AnswersAreAwaited ==
    \A c \in Conn :
        /\ conn[c].at = "answer" => conn[c].owner = "live"
        /\ conn[c].at \in {"compute", "answer"} => conn[c].seen # None

\* The page of dead jobs asks for lists: what it gets was read after it asked.
ListsOnly ==
    page = "dlq" =>
        \A c \in Conn : conn[c].owner = "live" => conn[c].at \notin {"lookup", "compute"}

\* Whatever is on its way to the page of dead jobs was read after the action
\* the page was last refreshed for.
AnswersAreFresh ==
    page = "dlq" =>
        \A c \in Conn : conn[c].at = "answer" => conn[c].seen >= floor

ConsoleInv == TypeOK /\ OfThePast /\ AnswersAreAwaited /\ ListsOnly /\ AnswersAreFresh

-----------------------------------------------------------------------------
(* The four ways a step changes the requests *)

\* What the parts of the invariant say of one request.
Fits(r, p, f) ==
    /\ r.at = "answer" => r.owner = "live"
    /\ r.at \in {"compute", "answer"} => r.seen # None
    /\ p = "dlq" /\ r.owner = "live" => r.at \notin {"lookup", "compute"}
    /\ p = "dlq" /\ r.at = "answer" => r.seen >= f

\* Request records.
Request == [at : {"free", "lookup", "compute", "list", "answer", "refused"},
            owner : {"live", "stale", "gone"}, seen : 0..MaxVersion \cup {None}]

\* The invariant is a claim about each request, beside the clock of versions.
LEMMA InvByRequest ==
    ConsoleInv <=> /\ TypeOK
                   /\ OfThePast
                   /\ \A c \in Conn : Fits(conn[c], page, floor)
  BY DEF ConsoleInv, AnswersAreAwaited, ListsOnly, AnswersAreFresh, Fits

\* The same of the state a step leads to.
LEMMA InvByRequestNext ==
    ASSUME TypeOK', OfThePast', \A c \in Conn : Fits(conn'[c], page', floor')
    PROVE  ConsoleInv'
  BY DEF ConsoleInv, AnswersAreAwaited, ListsOnly, AnswersAreFresh, Fits

\* A cleanup frees what waits for an answer, so nothing live is left but a
\* refusal, and any page may be mounted next, at any floor.
LEMMA CleanedUpFits ==
    ASSUME ConsoleInv, NEW c \in Conn, NEW p, NEW f
    PROVE  CleanedUp[c] \in Request /\ Fits(CleanedUp[c], p, f)
  <1>1. conn[c] \in Request /\ Fits(conn[c], page, floor)
    BY InvByRequest DEF TypeOK, Request
  <1> QED
    BY <1>1 DEF CleanedUp, Fits, Free, Request

\* An unloaded document leaves no answer and nothing live but a refusal.
LEMMA UnloadedFits ==
    ASSUME ConsoleInv, NEW c \in Conn, NEW p, NEW f
    PROVE  Unloaded[c] \in Request /\ Fits(Unloaded[c], p, f)
  <1>1. conn[c] \in Request /\ Fits(conn[c], page, floor)
    BY InvByRequest DEF TypeOK, Request
  <1> QED
    BY <1>1 DEF Unloaded, Fits, Free, Request

\* A step that changes one request, and neither page nor floor.
LEMMA OneRequest ==
    ASSUME ConsoleInv, NEW c \in Conn, NEW r \in Request, Fits(r, page, floor),
           conn' = [conn EXCEPT ![c] = r],
           UNCHANGED <<page, floor>>
    PROVE  conn' \in [Conn -> Request] /\ \A d \in Conn : Fits(conn'[d], page', floor')
  <1>1. conn \in [Conn -> Request] /\ \A d \in Conn : Fits(conn[d], page, floor)
    BY InvByRequest DEF TypeOK, Request
  <1> QED
    BY <1>1

-----------------------------------------------------------------------------
(* The invariant, step by step *)

\* A console at its login page, with nothing on its way.
LEMMA ConsoleInit == Init => ConsoleInv
  <1> SUFFICES ASSUME Init PROVE ConsoleInv
    OBVIOUS
  <1>1. TypeOK /\ OfThePast
    <2>1. /\ 0 \in 0..MaxVersion /\ 0 \in 0..(Limit + 1) /\ 0 \in 0..Window
          /\ None \notin Nat
      BY ConsoleAssumption
    <2>2. conn \in [Conn -> Request]
      BY DEF Init, Free, Request
    <2> QED
      BY <2>1, <2>2 DEF Init, TypeOK, OfThePast, Request
  <1>2. \A c \in Conn : Fits(conn[c], page, floor)
    BY DEF Init, Fits, Free
  <1> QED
    BY <1>1, <1>2, InvByRequest

\* The steps of a request, in the browser and in the API.
LEMMA RequestSteps ==
    ASSUME ConsoleInv, NEW c \in Conn,
           Tick(c) \/ Deliver(c) \/ Fails(c) \/ List(c) \/ Lookup(c) \/ Compute(c)
    PROVE  ConsoleInv'
  <1>1. /\ TypeOK /\ OfThePast
        /\ conn \in [Conn -> Request] /\ conn[c] \in Request
        /\ Fits(conn[c], page, floor)
        /\ version \in 0..MaxVersion /\ floor \in 0..MaxVersion /\ MaxVersion \in Nat
        /\ floor <= version /\ None \notin Nat
    BY InvByRequest, ConsoleAssumption DEF TypeOK, Request, OfThePast
  <1>2. UNCHANGED <<version, page, act, floor, count, ttl, token>>
    BY DEF Tick, Deliver, Fails, List, Lookup, Compute, redis, browser
  <1>3. shown' \in 0..MaxVersion \cup {None} /\ cache' \in 0..MaxVersion \cup {None}
    BY <1>1 DEF Tick, Deliver, Fails, List, Lookup, Compute, redis, browser, TypeOK, Request
  <1>4. \E r \in Request : Fits(r, page, floor) /\ conn' = [conn EXCEPT ![c] = r]
    <2> DEFINE Waiting(a, n) == [conn[c] EXCEPT !.at = a, !.seen = n]
    <2>1. Free \in Request /\ Fits(Free, page, floor)
      BY DEF Free, Request, Fits
    <2>2. CASE Tick(c)
      <3> DEFINE a == IF token # "valid" THEN "refused"
                      ELSE IF page = "dashboard" THEN "lookup" ELSE "list"
      <3>1. conn' = [conn EXCEPT ![c] = [at |-> a, owner |-> "live", seen |-> None]]
        BY <2>2 DEF Tick, Send
      <3>2. [at |-> a, owner |-> "live", seen |-> None] \in Request
        BY DEF Request
      <3>3. Fits([at |-> a, owner |-> "live", seen |-> None], page, floor)
        BY DEF Fits
      <3> QED
        BY <3>1, <3>2, <3>3
    <2>3. CASE Deliver(c) \/ Fails(c)
      BY <2>1, <2>3 DEF Deliver, Fails
    <2>4. ASSUME NEW n \in 0..MaxVersion, Answer(c, n),
                 conn[c].owner = "live" /\ page = "dlq" => n >= floor
          PROVE  \E r \in Request : Fits(r, page, floor) /\ conn' = [conn EXCEPT ![c] = r]
      <3>1. CASE conn[c].owner = "live"
        <4>1. conn' = [conn EXCEPT ![c] = Waiting("answer", n)]
          BY <3>1, <2>4 DEF Answer
        <4>2. Waiting("answer", n) \in Request
          BY <1>1 DEF Request
        <4>3. Fits(Waiting("answer", n), page, floor)
          BY <1>1, <2>4, <3>1 DEF Fits, Request
        <4> QED
          BY <4>1, <4>2, <4>3
      <3>2. CASE conn[c].owner # "live"
        BY <2>1, <2>4, <3>2 DEF Answer
      <3> QED
        BY <3>1, <3>2
    <2>5. CASE List(c)
      BY <1>1, <2>4, <2>5 DEF List
    <2>6. CASE Lookup(c)
      <3>1. CASE cache # None /\ Answer(c, cache)
        BY <1>1, <2>4, <2>6, <3>1 DEF Lookup, Fits, TypeOK
      <3>2. CASE conn' = [conn EXCEPT ![c].at = "compute", ![c].seen = FirstRead]
        <4>1. conn' = [conn EXCEPT ![c] = Waiting("compute", version)]
          BY <1>1, <3>2 DEF FirstRead
        <4>2. Waiting("compute", version) \in Request
          BY <1>1 DEF Request
        <4>3. Fits(Waiting("compute", version), page, floor)
          BY <1>1, <2>6 DEF Fits, Request, Lookup
        <4> QED
          BY <4>1, <4>2, <4>3
      <3> QED
        BY <2>6, <3>1, <3>2 DEF Lookup
    <2>7. CASE Compute(c)
      BY <1>1, <2>4, <2>7 DEF Compute, Fits, Request
    <2> QED
      BY <2>2, <2>3, <2>5, <2>6, <2>7
  <1>5. conn' \in [Conn -> Request] /\ \A d \in Conn : Fits(conn'[d], page', floor')
    BY <1>2, <1>4, OneRequest
  <1>6. TypeOK' /\ OfThePast'
    BY <1>1, <1>2, <1>3, <1>5 DEF TypeOK, OfThePast, Request
  <1> QED
    BY <1>5, <1>6, InvByRequestNext

\* The steps that clean the effect up, or unload the document.
LEMMA PageSteps ==
    ASSUME ConsoleInv, Navigate \/ LogOut \/ Refresh
    PROVE  ConsoleInv'
  <1>1. TypeOK /\ OfThePast /\ ConsoleAssumption
    BY ConsoleAssumption DEF ConsoleInv
  <1>2. conn' = CleanedUp
    BY DEF Navigate, LogOut, Refresh
  <1>3. \A c \in Conn : CleanedUp[c] \in Request /\ Fits(CleanedUp[c], page', floor')
    BY CleanedUpFits
  <1>4. CleanedUp = [c \in Conn |-> CleanedUp[c]]
    BY DEF CleanedUp
  <1>5. conn' \in [Conn -> Request]
    BY <1>2, <1>3, <1>4
  <1>6. \A c \in Conn : Fits(conn'[c], page', floor')
    BY <1>2, <1>3
  <1>7. TypeOK' /\ OfThePast'
    BY <1>1, <1>5
       DEF Navigate, LogOut, Refresh, redis, TypeOK, OfThePast, Request, ConsoleAssumption
  <1> QED
    BY <1>6, <1>7, InvByRequestNext

\* api() on a 401: the token is cleared and the document unloaded.
LEMMA RefusedStep ==
    ASSUME ConsoleInv, NEW c \in Conn, Refused(c)
    PROVE  ConsoleInv'
  <1>1. TypeOK /\ OfThePast /\ conn[c] \in Request
    BY DEF ConsoleInv, TypeOK, Request
  <1>2. /\ UNCHANGED <<version, cache, count, ttl, floor>>
        /\ token' = "none" /\ page' = "login"
        /\ shown' \in {shown, None} /\ act' \in {act, None}
    BY DEF Refused, redis
  <1>3. conn' \in [Conn -> Request] /\ \A d \in Conn : Fits(conn'[d], page', floor')
    <2>1. CASE page = "login" /\ conn' = [conn EXCEPT ![c] = Free] /\ page' = page
      <3>1. Free \in Request /\ Fits(Free, page, floor)
        BY DEF Free, Request, Fits
      <3> QED
        BY <1>2, <2>1, <3>1, OneRequest
    <2>2. CASE conn' = Unloaded
      <3>1. \A d \in Conn : Unloaded[d] \in Request /\ Fits(Unloaded[d], page', floor')
        BY UnloadedFits
      <3>2. Unloaded = [d \in Conn |-> Unloaded[d]]
        BY DEF Unloaded
      <3> QED
        BY <2>2, <3>1, <3>2
    <2> QED
      BY <2>1, <2>2 DEF Refused
  <1>4. TypeOK' /\ OfThePast'
    BY <1>1, <1>2, <1>3, ConsoleAssumption DEF TypeOK, OfThePast, Request, ConsoleAssumption
  <1> QED
    BY <1>3, <1>4, InvByRequestNext

\* The limiter of logins keeps its counter within the limit and one, and its
\* window.
LEMMA LimiterTypes ==
    ASSUME TypeOK, NEW allowed \in BOOLEAN, CheckRateLimit(allowed)
    PROVE  count' \in 0..(Limit + 1) /\ ttl' \in 0..Window
  <1>1. Limit \in Nat \ {0} /\ Window \in Nat \ {0}
    BY ConsoleAssumption DEF ConsoleAssumption
  <1>2. count \in 0..(Limit + 1) /\ ttl \in 0..Window
    BY DEF TypeOK
  <1>3. count' \in {count, IF count + 1 > Limit THEN Limit + 1 ELSE count + 1}
    BY DEF CheckRateLimit
  <1>4. ttl' \in {ttl, Window}
    BY DEF CheckRateLimit
  <1> QED
    BY <1>1, <1>2, <1>3, <1>4

\* The steps that leave every request alone.  A login opens the dashboard,
\* which is not the page of dead jobs.
LEMMA OtherSteps ==
    ASSUME ConsoleInv,
           \/ TokenExpires \/ Requeue \/ Requeued \/ Work \/ CacheExpires \/ Second
           \/ \E allowed \in BOOLEAN : LogIn(allowed) \/ OthersLogIn(allowed)
    PROVE  ConsoleInv'
  <1>1. /\ TypeOK /\ OfThePast /\ \A c \in Conn : Fits(conn[c], page, floor)
        /\ MaxVersion \in Nat /\ None \notin Nat /\ Posted \notin Nat /\ Window \in Nat
    BY InvByRequest, ConsoleAssumption DEF ConsoleAssumption
  <1>2. /\ conn' = conn /\ floor' = floor /\ version' \in {version, version + 1}
        /\ page' \in {page, "dashboard"} /\ shown' = shown
    BY DEF TokenExpires, Requeue, Requeued, Work, CacheExpires, Second, LogIn, OthersLogIn,
           browser, redis
  <1>3. \A c \in Conn : Fits(conn'[c], page', floor')
    BY <1>1, <1>2 DEF Fits
  <1>4. version' \in 0..MaxVersion
    BY <1>1 DEF TypeOK, TokenExpires, Requeue, Requeued, Work, CacheExpires, Second, LogIn,
                OthersLogIn, browser, redis
  <1>5. act' \in {act, Posted, version'}
    BY DEF TokenExpires, Requeue, Requeued, Work, CacheExpires, Second, LogIn, OthersLogIn,
           browser, redis
  <1>6. count' \in 0..(Limit + 1) /\ ttl' \in 0..Window
    <2>1. ASSUME NEW allowed \in BOOLEAN, LogIn(allowed) \/ OthersLogIn(allowed)
          PROVE  count' \in 0..(Limit + 1) /\ ttl' \in 0..Window
      BY <1>1, <2>1, LimiterTypes DEF LogIn, OthersLogIn
    <2>2. CASE Second
      BY <1>1, <2>2, ConsoleAssumption DEF Second, TypeOK, ConsoleAssumption
    <2>3. CASE UNCHANGED <<count, ttl>>
      BY <1>1, <2>3 DEF TypeOK
    <2> QED
      BY <2>1, <2>2, <2>3 DEF TokenExpires, Requeue, Requeued, Work, CacheExpires, redis
  <1>7. cache' \in {cache, None} /\ token' \in {"none", "valid", "expired"}
    BY <1>1 DEF TokenExpires, Requeue, Requeued, Work, CacheExpires, Second, LogIn, OthersLogIn,
                browser, redis, TypeOK
  <1>8. TypeOK' /\ OfThePast'
    <2>1. OfThePast'
      BY <1>1, <1>2, <1>4, <1>5 DEF OfThePast, TypeOK
    <2>2. TypeOK'
      BY <1>1, <1>2, <1>4, <1>5, <1>6, <1>7 DEF TypeOK
    <2> QED
      BY <2>1, <2>2
  <1> QED
    BY <1>3, <1>8, InvByRequestNext

-----------------------------------------------------------------------------

\* The inductive invariant holds in every state of every console.
THEOREM ConsoleInvariant == Spec => []ConsoleInv
  <1>1. ConsoleInv /\ [Next]_vars => ConsoleInv'
    <2> SUFFICES ASSUME ConsoleInv, [Next]_vars PROVE ConsoleInv'
      OBVIOUS
    <2>1. ASSUME NEW c \in Conn, Tick(c) \/ Serve(c) \/ Fails(c)
          PROVE  ConsoleInv'
      BY <2>1, RequestSteps, RefusedStep DEF Serve
    <2>2. CASE Navigate \/ LogOut \/ Refresh
      BY <2>2, PageSteps
    <2>3. CASE \/ TokenExpires \/ Requeue \/ Requeued \/ Work \/ CacheExpires \/ Second
               \/ \E allowed \in BOOLEAN : LogIn(allowed) \/ OthersLogIn(allowed)
      BY <2>3, OtherSteps
    <2>4. CASE UNCHANGED vars
      BY <2>4 DEF vars, ConsoleInv, TypeOK, OfThePast, AnswersAreAwaited, ListsOnly,
                  AnswersAreFresh
    <2> QED
      BY <2>1, <2>2, <2>3, <2>4 DEF Next
  <1> QED
    BY <1>1, ConsoleInit, PTL DEF Spec

\* Every state of the browser, the cache and the limiter is of its type.
THEOREM ConsoleTypesAlways == Spec => []TypeOK
  <1>1. ConsoleInv => TypeOK
    BY DEF ConsoleInv
  <1> QED
    BY <1>1, ConsoleInvariant, PTL

\* act and refresh of the pages with usePolling: whatever polls overlap and
\* in whatever order they are answered, once the page of dead jobs has been
\* refreshed after a requeue, it shows nothing read before the requeue.
THEOREM ReadYourActionsAlways == Spec => ReadYourActions
  <1>1. ConsoleInv /\ [Next]_vars
          => [page = "dlq" /\ shown' # shown /\ shown' # None => shown' >= floor]_vars
    <2> SUFFICES ASSUME ConsoleInv, [Next]_vars,
                        page = "dlq", shown' # shown, shown' # None
                 PROVE  shown' >= floor
      OBVIOUS
    <2>1. \E c \in Conn : Deliver(c)
      BY DEF Next, Serve, Tick, Refused, List, Lookup, Compute, Fails, Navigate, LogOut,
             TokenExpires, Requeue, Requeued, Refresh, LogIn, OthersLogIn, Work, CacheExpires,
             Second, browser, vars
    <2> QED
      BY <2>1 DEF Deliver, ConsoleInv, AnswersAreFresh
  <1> QED
    BY <1>1, ConsoleInvariant, PTL DEF Spec, ReadYourActions

=============================================================================
