----------------------------- MODULE WebClient -----------------------------
(***************************************************************************)
(* One tab of the web client: the session it believes in, the calls it has *)
(* in flight, the single refresh they share, the pages it moves between,   *)
(* the query cache and the invitation link it may be carrying.             *)
(*                                                                         *)
(* The API server is external: it is rendered by what the client sees of   *)
(* it.  Every exchange takes three steps (sent, processed, delivered) and  *)
(* can be lost before or after the server processed it.                    *)
(***************************************************************************)
EXTENDS Integers, FiniteSets

CONSTANTS
    MaxCalls,       \* bound on the calls the tab makes
    Kinds,          \* what the calls may be
    Orgs,           \* organizations of the user
    Links,          \* tokens of invitation links
    None,           \* null
    Boot,           \* the refresh of the session bootstrap
    MaxSessions,    \* bound on the logins of the browser, counting the first
    MaxEvents       \* bound on what the user does and what befalls the tab

AllKinds == {"profile", "rename", "accept", "changePassword", "logoutAll"}

ASSUME WebAssumption ==
    /\ Kinds \subseteq AllKinds
    /\ MaxCalls \in Nat
    /\ None \notin Orgs \union Links \union {Boot} /\ Boot \notin Nat
    /\ None \notin Nat \union (Nat \X Nat)
    /\ MaxSessions \in Nat \ {0} /\ MaxEvents \in Nat

VARIABLES
    \* The server.
    tips,           \* current refresh token of every session, 0 once it has ended
    floor,          \* access tokens below this number have expired
    issued,         \* access tokens issued so far
    logins,         \* sessions this browser has opened
    member,         \* the organizations the user is a member of
    ran,            \* how often the server carried out each mutation
    \* The browser.
    cookie,         \* omni_rt: a refresh token <<session, number>>, or None
    \* The memory of the page.
    token,          \* accessToken of token-store, 0 for null
    session,        \* SessionState
    inflight,       \* inflightRefresh: who started it, or None
    flights,        \* the refresh exchanges, by who started them
    calls,          \* the calls and where they are
    auth,           \* the login or logout in progress
    page,           \* the route: [path, org]
    cache,          \* query cache: the organization profile and its last failure
    held,           \* the invitation token of pending-invite, with its lapse
    screen,         \* the token InviteScreen keeps
    \* Bookkeeping.
    events,         \* how much has happened so far
    excuse,         \* something happened that may end the session
    trail           \* the link the user is following

serverVars == <<tips, floor, issued, logins, member, ran>>
journeyVars == <<page, held, screen, trail>>
vars == <<serverVars, cookie, token, session, inflight, flights, calls, auth,
          journeyVars, cache, events, excuse>>

Sessions == 1 .. MaxSessions
Calls == 1 .. MaxCalls
Waiters == Calls \union {Boot}
Queries == {"profile"}
OrgKinds == {"profile", "rename"}

Paths == {"/", "/login", "/invite", "/select-org", "/o", "/settings"}

Grounded == [pc |-> "none", cookie |-> None, next |-> None, access |-> 0]
Unused == [pc |-> "unused", kind |-> "profile", org |-> None, link |-> None, bearer |-> 0,
           second |-> FALSE, count |-> 0, answer |-> "none", joined |-> None]
Empty == [data |-> None, failure |-> "none"]
Quiet == [pc |-> "none", op |-> "login", cookie |-> None, next |-> None, access |-> 0]

\* One more thing happens to the tab that it does not do of itself.
Spend == events < MaxEvents /\ events' = events + 1

\* The refresh token the browser holds is the one the server would rotate.
Alive == cookie # None /\ tips[cookie[1]] = cookie[2]

-----------------------------------------------------------------------------
\* Pages and the held invitation.

\* Mutant: every page belongs to the journey.
isInviteJourneyRouteAny(path) == TRUE

\* INVITE_JOURNEY_ROUTES; "/login" stands for /signup too.
isInviteJourneyRoute(path) == path \in {"/invite", "/login"}

NotHeld == [link |-> None, live |-> FALSE]

\* Read and forget; a hold past its 30 minutes reads as nothing.
takeInviteToken == IF held.live THEN held.link ELSE None

destinationAfterLogin == IF held.link # None /\ held.live THEN "/invite" ELSE "/select-org"

\* A client-side navigation, with the effects it triggers: InviteScreen takes the
\* held token when it mounts and forgets its own when it unmounts, SessionProvider
\* drops a hold that leaves the journey.
Go(path, o) ==
    /\ page' = [path |-> path, org |-> o]
    /\ screen' = CASE path # "/invite" -> None
                   [] path = "/invite" /\ page.path = "/invite" -> screen
                   [] path = "/invite" /\ page.path # "/invite" -> takeInviteToken
    /\ held' = IF path = page.path THEN held
               ELSE IF path = "/invite" \/ ~isInviteJourneyRoute(path) THEN NotHeld ELSE held
    /\ trail' = IF path \in {"/invite", "/login"} THEN trail ELSE None

Stay == UNCHANGED journeyVars

\* Mutant: one key for the profile, whatever the organization.
orgKeyShared(o) == CHOOSE k \in Orgs : TRUE

orgKey(o) == o

-----------------------------------------------------------------------------
\* The refresh.

\* Mutant: every caller refreshes for itself.
silentRefreshEach(w, who) ==
    /\ inflight' = w
    /\ flights' = [flights EXCEPT ![w] = [Grounded EXCEPT !.pc = "flying", !.cookie = who]]

\* The single flight: whoever comes second joins the refresh under way; who is
\* the cookie the browser attaches.
silentRefresh(w, who) ==
    IF inflight # None THEN UNCHANGED <<inflight, flights>>
    ELSE /\ inflight' = w
         /\ flights' = [flights EXCEPT ![w] = [Grounded EXCEPT !.pc = "flying", !.cookie = who]]

\* External: POST /auth/refresh.  The current token is rotated; an older one is
\* refused, and may cost the session (decideReuse, by the leeway).
Rotate(w) ==
    /\ flights[w].pc = "flying"
    /\ LET c == flights[w].cookie
           good == c # None /\ c[2] # 0 /\ tips[c[1]] = c[2]
       IN  IF good
           THEN /\ tips' = [tips EXCEPT ![c[1]] = @ + 1]
                /\ issued' = issued + 1
                /\ flights' = [flights EXCEPT ![w].pc = "ok", ![w].next = <<c[1], c[2] + 1>>,
                                              ![w].access = issued + 1]
           ELSE /\ \/ UNCHANGED tips
                   \/ c # None /\ tips' = [tips EXCEPT ![c[1]] = 0]
                /\ flights' = [flights EXCEPT ![w].pc = "no"]
                /\ UNCHANGED issued
    /\ UNCHANGED <<floor, logins, member, ran, cookie, token, session, inflight, calls, auth,
                   journeyVars, cache, events, excuse>>

\* A 429 or a 5xx instead: not ok, so the client treats it like a refusal.
RefuseForLoad(w) ==
    /\ flights[w].pc = "flying"
    /\ Spend
    /\ flights' = [flights EXCEPT ![w].pc = "no"]
    /\ excuse' = TRUE
    /\ UNCHANGED <<serverVars, cookie, token, session, inflight, calls, auth,
                   journeyVars, cache>>

\* The request or its answer is lost.
LoseRefresh(w) ==
    /\ flights[w].pc \in {"flying", "ok", "no"}
    /\ Spend
    /\ flights' = [flights EXCEPT ![w].pc = "lost"]
    /\ excuse' = TRUE
    /\ UNCHANGED <<serverVars, cookie, token, session, inflight, calls, auth,
                   journeyVars, cache>>

Finished(call) == [Unused EXCEPT !.pc = "done", !.kind = call.kind]

\* Mutant: a refresh that fails on the network answers nobody.
resumeUnlessLost(c, w, access) ==
    IF flights[w].pc = "ok"
    THEN [calls[c] EXCEPT !.pc = "flying", !.second = TRUE, !.bearer = access, !.joined = None]
    ELSE IF flights[w].pc = "no" THEN [calls[c] EXCEPT !.pc = "back", !.answer = "expired"]
    ELSE calls[c]

\* requestWithRefresh after its await: send again, or give up.  The rejection of
\* a lost refresh goes through to the caller as a network failure.
resume(c, w, access) ==
    IF flights[w].pc = "ok"
    THEN [calls[c] EXCEPT !.pc = "flying", !.second = TRUE, !.bearer = access, !.joined = None]
    ELSE [calls[c] EXCEPT !.pc = "back", !.joined = None,
                          !.answer = IF flights[w].pc = "no" THEN "expired" ELSE "network"]

\* SessionProvider's effect: settledSession of the outcome, none if it rejected.
bootstrap(w) ==
    IF w # Boot THEN session ELSE IF flights[w].pc = "ok" THEN "authed" ELSE "none"

-----------------------------------------------------------------------------
\* A full page load: what the page had in memory is gone, and so are its calls.
Load(path, link, who) ==
    /\ token' = 0
    /\ session' = "unknown"
    /\ inflight' = Boot
    /\ flights' = [w \in Waiters |->
                     IF w = Boot THEN [Grounded EXCEPT !.pc = "flying", !.cookie = who]
                     ELSE Grounded]
    /\ calls' = [c \in Calls |->
                   IF calls[c].pc \in {"unused", "done"} THEN calls[c]
                   ELSE Finished(calls[c])]
    /\ auth' = Quiet
    /\ page' = [path |-> path, org |-> None]
    /\ screen' = link /\ trail' = link
    /\ held' = NotHeld
    /\ cache' = [o \in Orgs |-> Empty]

\* The user opens an invitation link; stripInviteToken takes the token out of
\* the address and useInviteToken keeps it.
OpenLink(link) ==
    /\ Spend
    /\ Load("/invite", link, cookie)
    /\ excuse' = (excuse \/ auth.pc # "none" \/ \E w \in Waiters : flights[w].pc # "none")
    /\ UNCHANGED <<serverVars, cookie>>

\* Moving to another page in the app: links, the switcher, back and forward.  A
\* failed query that has no data is pending again for the page that mounts.
Navigate(path, o) ==
    /\ Spend
    /\ path \in Paths /\ (path = "/o" <=> o # None)
    /\ [path |-> path, org |-> o] # page
    /\ Go(path, o)
    /\ cache' = IF path = "/o" /\ cache[orgKey(o)].data = None
                THEN [cache EXCEPT ![orgKey(o)] = Empty] ELSE cache
    /\ UNCHANGED <<serverVars, cookie, token, session, inflight, flights, calls, auth, excuse>>

\* InviteScreen sends the user to sign in and keeps the token for the way back.
holdForReturn ==
    /\ Spend
    /\ page.path = "/invite"
    /\ page' = [path |-> "/login", org |-> None]
    /\ held' = IF screen = None THEN held ELSE [link |-> screen, live |-> TRUE]
    /\ screen' = None
    /\ UNCHANGED <<serverVars, cookie, token, session, inflight, flights, calls, auth,
                   trail, cache, excuse>>

\* Half an hour passes.
HoldLapses ==
    /\ Spend
    /\ held.live
    /\ held' = [held EXCEPT !.live = FALSE]
    /\ trail' = None
    /\ UNCHANGED <<serverVars, cookie, token, session, inflight, flights, calls, auth,
                   page, screen, cache, excuse>>

-----------------------------------------------------------------------------
\* The outcome of a refresh reaches the page: doRefresh stores or clears the
\* access token, the promise leaves the single flight, and everybody who waited
\* for it goes on.
RefreshSettles(w) ==
    /\ flights[w].pc \in {"ok", "no", "lost"}
    /\ LET f == flights[w]
       IN  /\ token' = CASE f.pc = "ok" -> f.access [] f.pc = "no" -> 0 [] f.pc = "lost" -> token
           /\ cookie' = IF f.pc = "ok" THEN f.next ELSE cookie
           /\ calls' = [c \in Calls |->
                          IF calls[c].pc = "refreshing" /\ calls[c].joined = w
                          THEN resume(c, w, f.access) ELSE calls[c]]
    /\ session' = bootstrap(w)
    /\ inflight' = None
    /\ flights' = [flights EXCEPT ![w] = Grounded]
    /\ UNCHANGED <<serverVars, auth, journeyVars, cache, events, excuse>>

-----------------------------------------------------------------------------
\* Calls.

decideRoot ==
    CASE session = "authed" -> "pick-shop" [] session = "none" -> "sign-in"
      [] session = "unknown" -> "wait"

\* The session first, then the profile's failure, then whether it is there.
decideOrgShell ==
    LET profile == cache[orgKey(page.org)]
    IN  IF session = "unknown" THEN "loading"
        ELSE IF session = "none" \/ profile.failure = "expired" THEN "sign-in"
        ELSE IF profile.failure = "denied" THEN "leave-org"
        ELSE IF profile.failure # "none" THEN "error"
        ELSE IF profile.data = None THEN "loading" ELSE "ready"

\* createAuthedFetch: the organization is fixed when the client is made, the
\* access token is read when the request leaves.
send(c) == [calls[c] EXCEPT !.pc = "flying", !.bearer = token, !.second = FALSE]

\* A screen makes a call: OrgGuard and the organization pages on /o, the
\* invitation page, the security page.
Start(c, kind) ==
    /\ Spend
    /\ calls[c].pc = "unused" /\ \A d \in Calls : d < c => calls[d].pc # "unused"
    /\ CASE kind \in OrgKinds -> page.path = "/o"
         [] kind = "accept" -> page.path = "/invite" /\ screen # None /\ session = "authed"
         [] kind \in {"changePassword", "logoutAll"} -> page.path = "/settings"
    /\ kind = "rename" => decideOrgShell = "ready"
    /\ calls' = [calls EXCEPT ![c] =
                   [send(c) EXCEPT !.kind = kind, !.org = IF kind \in OrgKinds THEN page.org ELSE None,
                                   !.link = IF kind = "accept" THEN screen ELSE None]]
    /\ UNCHANGED <<serverVars, cookie, token, session, inflight, flights, auth, journeyVars,
                   cache, excuse>>

\* External: the API answers a call.  Whatever it answers but 401, it has carried
\* it out; a wrong current password is a 401 of its own.
Serve(c) ==
    /\ calls[c].pc = "flying"
    /\ LET call == calls[c]
           refused == call.bearer < floor \/ call.bearer = 0
           answers == IF refused THEN {"401"}
                      ELSE IF call.kind \in OrgKinds /\ call.org \notin member THEN {"denied"}
                      ELSE IF call.kind = "changePassword" THEN {"ok", "wrongPassword"}
                      ELSE {"ok"}
       IN  /\ \E a \in answers : calls' = [calls EXCEPT ![c].pc = "back", ![c].answer = a]
           /\ ran' = IF refused \/ call.kind \in Queries THEN ran ELSE [ran EXCEPT ![c] = @ + 1]
           /\ tips' = IF call.kind = "logoutAll" /\ ~refused THEN [s \in Sessions |-> 0] ELSE tips
           /\ excuse' = (excuse \/ (call.kind = "logoutAll" /\ ~refused))
    /\ UNCHANGED <<floor, issued, logins, member, cookie, token, session, inflight, flights, auth,
                   journeyVars, cache, events>>

\* The request or the answer is lost, or the server fails with a 5xx.
LoseCall(c) ==
    /\ calls[c].pc \in {"flying", "back"}
    /\ Spend
    /\ calls' = [calls EXCEPT ![c].pc = "back", ![c].answer = "network"]
    /\ UNCHANGED <<serverVars, cookie, token, session, inflight, flights, auth, journeyVars,
                   cache, excuse>>

\* defaultIsAuthExpiry, and isChangePasswordAuthExpiry, which leaves
\* INVALID_CREDENTIALS to the form.
isAuthExpiry(call) == call.answer = "401"

\* requestWithRefresh on the first 401: one refresh, shared.
AwaitRefresh(c) ==
    /\ calls[c].pc = "back" /\ isAuthExpiry(calls[c]) /\ ~calls[c].second
    /\ silentRefresh(c, cookie)
    /\ calls' = [calls EXCEPT ![c].pc = "refreshing", ![c].joined = inflight']
    /\ UNCHANGED <<serverVars, cookie, token, session, auth, journeyVars, cache, events, excuse>>

MAX_QUERY_RETRIES == 2

\* Mutant: mutations are retried like queries.
retriesAll(call) == call.answer = "network" /\ call.count < MAX_QUERY_RETRIES

\* shouldRetryQuery, and mutations: retry false.
retries(call) ==
    call.kind \in Queries /\ call.answer = "network" /\ call.count < MAX_QUERY_RETRIES

\* The query client sends a failed query again.
Retry(c) ==
    /\ calls[c].pc = "back" /\ retries(calls[c])
    /\ calls' = [calls EXCEPT ![c] = [send(c) EXCEPT !.count = @ + 1]]
    /\ UNCHANGED <<serverVars, cookie, token, session, inflight, flights, auth, journeyVars,
                   cache, events, excuse>>

\* What a settled call leaves in the cache under its organization's key: the
\* data of the organization it was sent for, or, beside older data, the failure
\* decideOrgShell reads.
Cached(call) ==
    IF call.kind \in OrgKinds /\ call.answer = "ok"
    THEN [cache EXCEPT ![orgKey(call.org)] = [data |-> call.org, failure |-> "none"]]
    ELSE IF call.kind = "profile"
    THEN [cache EXCEPT ![orgKey(call.org)].failure = call.answer]
    ELSE cache

\* requestWithRefresh on a second 401: no further refresh.
GiveUp(c) ==
    /\ calls[c].pc = "back" /\ isAuthExpiry(calls[c]) /\ calls[c].second
    /\ token' = 0
    /\ calls' = [calls EXCEPT ![c].answer = "expired"]
    /\ UNCHANGED <<serverVars, cookie, session, inflight, flights, auth, journeyVars, cache,
                   events, excuse>>

\* The security page ends in a full load of /login: redirectToLoginSessionExpired,
\* and the success of logout-all.
Ejects(call) ==
    \/ call.kind \in {"changePassword", "logoutAll"} /\ call.answer = "expired"
    \/ call.kind = "logoutAll" /\ call.answer = "ok"

\* The call is over.  The callbacks of a page that was left do not run; those of
\* the query client do.
Settle(c) ==
    /\ calls[c].pc = "back" /\ ~retries(calls[c]) /\ ~isAuthExpiry(calls[c])
    /\ LET call == calls[c]
       IN  IF Ejects(call) /\ page.path = "/settings"
           THEN /\ cookie' = IF call.answer = "ok" THEN None ELSE cookie
                /\ Load("/login", None, cookie')
                /\ excuse' = TRUE
           ELSE /\ calls' = [calls EXCEPT ![c] = Finished(call)]
                /\ token' = IF call.kind = "logoutAll" /\ call.answer = "ok" THEN 0 ELSE token
                /\ cookie' = IF call.kind = "logoutAll" /\ call.answer = "ok" THEN None ELSE cookie
                /\ cache' = Cached(call)
                /\ excuse' = (excuse \/ (call.kind = "logoutAll" /\ call.answer = "ok"))
                /\ UNCHANGED <<session, inflight, flights, auth, page, held, screen, trail>>
    /\ UNCHANGED <<serverVars, events>>

-----------------------------------------------------------------------------
\* Logging in and out.

\* The login form, the sign-out of the shell (this session) and of a row of the
\* session list (another session) each have one request at a time.
StartAuth(op) ==
    /\ Spend
    /\ auth.pc = "none"
    /\ page.path = CASE op = "login" -> "/login" [] op = "signOut" -> "/o"
                     [] op = "logoutOther" -> "/settings"
    /\ op \in {"signOut", "logoutOther"} => session = "authed"
    /\ auth' = [Quiet EXCEPT !.pc = "flying", !.op = op, !.cookie = cookie]
    /\ UNCHANGED <<serverVars, cookie, token, session, inflight, flights, calls, journeyVars,
                   cache, excuse>>

\* External: POST /auth/login opens a session or refuses; POST /auth/logout ends
\* the session of the cookie, or another one of the same user, and always says 204.
ServeAuth ==
    /\ auth.pc = "flying"
    /\ \/ /\ auth.op = "login" /\ logins < MaxSessions
          /\ logins' = logins + 1 /\ issued' = issued + 1
          /\ tips' = [tips EXCEPT ![logins + 1] = 1]
          /\ auth' = [auth EXCEPT !.pc = "ok", !.next = <<logins + 1, 1>>, !.access = issued + 1]
          /\ UNCHANGED excuse
       \/ /\ auth.op = "login"
          /\ auth' = [auth EXCEPT !.pc = "no"]
          /\ UNCHANGED <<tips, issued, logins, excuse>>
       \/ /\ auth.op = "signOut"
          /\ tips' = IF auth.cookie = None THEN tips ELSE [tips EXCEPT ![auth.cookie[1]] = 0]
          /\ auth' = [auth EXCEPT !.pc = "ok"]
          /\ excuse' = TRUE
          /\ UNCHANGED <<issued, logins>>
       \/ /\ auth.op = "logoutOther"
          /\ auth' = [auth EXCEPT !.pc = "ok"]
          /\ UNCHANGED <<tips, issued, logins, excuse>>
    /\ UNCHANGED <<floor, member, ran, cookie, token, session, inflight, flights, calls,
                   journeyVars, cache, events>>

\* A refresh, or a call that was sent again after one, is still on its way and may
\* clear the access token when it fails.
Late ==
    \/ \E w \in Waiters : flights[w].pc # "none"
    \/ \E c \in Calls : calls[c].second /\ calls[c].pc \in {"flying", "back"}

\* The login page: setAccessToken, beginSession, on to destinationAfterLogin.
login ==
    /\ auth.op = "login" /\ auth.pc = "ok"
    /\ cookie' = auth.next /\ token' = auth.access
    /\ session' = "authed"
    /\ Go(destinationAfterLogin, None)
    /\ excuse' = (tips[auth.next[1]] = 0 \/ Late)
    /\ auth' = Quiet
    /\ UNCHANGED <<serverVars, inflight, flights, calls, cache, events>>

\* AppShell.signOut: the token goes, endSession drops the held invitation.
signOut ==
    /\ auth.op = "signOut" /\ auth.pc = "ok"
    /\ cookie' = None /\ token' = 0
    /\ session' = "none"
    /\ page' = [path |-> "/login", org |-> None]
    /\ held' = NotHeld /\ screen' = None /\ trail' = None
    /\ auth' = Quiet
    /\ UNCHANGED <<serverVars, inflight, flights, calls, cache, events, excuse>>

\* SessionList.confirmLogoutDevice: the answer clears the cookies of this
\* browser as well, and logoutDevice its access token.
logoutDevice ==
    /\ auth.op = "logoutOther" /\ auth.pc = "ok"
    /\ cookie' = None /\ token' = 0
    /\ excuse' = TRUE
    /\ auth' = Quiet
    /\ UNCHANGED <<serverVars, session, inflight, flights, calls, journeyVars, cache, events>>

\* A refused login, or an answer that never comes: a banner or a toast.
AuthFails ==
    /\ \/ auth.pc = "no" /\ UNCHANGED events
       \/ auth.pc \in {"flying", "ok"} /\ Spend
    /\ auth' = Quiet
    /\ UNCHANGED <<serverVars, cookie, token, session, inflight, flights, calls, journeyVars,
                   cache, excuse>>

-----------------------------------------------------------------------------
\* The redirects of the pages.

\* The effects of HomePage and of OrgGuard.
Redirect ==
    /\ \/ page.path = "/" /\ decideRoot = "sign-in" /\ Go("/login", None)
       \/ page.path = "/" /\ decideRoot = "pick-shop" /\ Go("/select-org", None)
       \/ page.path = "/o" /\ decideOrgShell = "sign-in" /\ Go("/login", None)
       \/ page.path = "/o" /\ decideOrgShell = "leave-org" /\ Go("/select-org", None)
    /\ UNCHANGED <<serverVars, cookie, token, session, inflight, flights, calls, auth, cache,
                   events, excuse>>

-----------------------------------------------------------------------------
\* What happens elsewhere.

\* External: the access token runs out.  It outlives an exchange, unless the
\* computer slept during one: then even a new token may come too late.
ExpireAccess ==
    /\ Spend
    /\ floor' = issued + 1
    /\ excuse' = (excuse \/ auth.pc # "none" \/ Late)
    /\ UNCHANGED <<tips, issued, logins, member, ran, cookie, token, session, inflight, flights,
                   calls, auth, journeyVars, cache>>

\* External: the user is removed from an organization, or another device ends
\* this session.
ChangedElsewhere ==
    /\ Spend
    /\ \/ \E o \in member : member' = member \ {o} /\ UNCHANGED <<tips, excuse>>
       \/ /\ \E s \in Sessions : tips[s] # 0 /\ tips' = [tips EXCEPT ![s] = 0]
          /\ excuse' = TRUE /\ UNCHANGED member
    /\ UNCHANGED <<floor, issued, logins, ran, cookie, token, session, inflight, flights, calls,
                   auth, journeyVars, cache>>

-----------------------------------------------------------------------------
\* A page has just been loaded, in a browser with or without a session.
Init ==
    /\ \E signedIn \in BOOLEAN :
          /\ cookie = IF signedIn THEN <<1, 1>> ELSE None
          /\ tips = [s \in Sessions |-> IF signedIn /\ s = 1 THEN 1 ELSE 0]
          /\ logins = IF signedIn THEN 1 ELSE 0
          /\ excuse = ~signedIn
          /\ flights = [w \in Waiters |->
                IF w = Boot THEN [Grounded EXCEPT !.pc = "flying", !.cookie = cookie] ELSE Grounded]
    /\ floor = 1 /\ issued = 0 /\ member = Orgs
    /\ ran = [c \in Calls |-> 0]
    /\ events = 0
    /\ token = 0 /\ session = "unknown" /\ inflight = Boot
    /\ calls = [c \in Calls |-> Unused]
    /\ auth = Quiet
    /\ page \in {[path |-> "/", org |-> None]} \union [path : {"/o"}, org : Orgs]
    /\ cache = [o \in Orgs |-> Empty]
    /\ held = NotHeld /\ screen = None /\ trail = None

\* What the user does.
User ==
    \/ \E link \in Links : OpenLink(link)
    \/ \E path \in Paths, o \in Orgs \union {None} : Navigate(path, o)
    \/ holdForReturn
    \/ \E c \in Calls, kind \in Kinds : Start(c, kind)
    \/ \E op \in {"login", "signOut", "logoutOther"} : StartAuth(op)

\* What the network and the page do of themselves.
Refreshing(w) == Rotate(w) \/ RefreshSettles(w)
Calling(c) == Serve(c) \/ AwaitRefresh(c) \/ Retry(c) \/ GiveUp(c) \/ Settle(c)
Authing == ServeAuth \/ login \/ signOut \/ logoutDevice \/ AuthFails

Faults ==
    \/ \E w \in Waiters : RefuseForLoad(w) \/ LoseRefresh(w)
    \/ \E c \in Calls : LoseCall(c)

Next ==
    \/ User
    \/ \E w \in Waiters : Refreshing(w)
    \/ \E c \in Calls : Calling(c)
    \/ Authing \/ Redirect
    \/ Faults \/ HoldLapses \/ ExpireAccess \/ ChangedElsewhere

Spec == Init /\ [][Next]_vars

\* Every exchange ends, with an answer or with the browser giving it up, and the
\* page runs its continuations.
FairSpec ==
    /\ Spec
    /\ \A w \in Waiters : WF_vars(Refreshing(w))
    /\ \A c \in Calls : WF_vars(Calling(c))

-----------------------------------------------------------------------------
\* Type correctness of the tab and of what it knows of the server.
TypeOK ==
    /\ tips \in [Sessions -> Nat] /\ floor \in Nat /\ issued \in Nat
    /\ member \subseteq Orgs /\ ran \in [Calls -> Nat]
    /\ cookie \in (Sessions \X Nat) \union {None}
    /\ token \in 0 .. issued
    /\ session \in {"unknown", "none", "authed"}
    /\ inflight \in Waiters \union {None}
    /\ page \in [path : Paths, org : Orgs \union {None}]
    /\ \A c \in Calls : calls[c].pc = "refreshing" => flights[calls[c].joined].pc # "none"
    /\ held.link \in Links \union {None} /\ screen \in Links \union {None}

\* Nobody is signed out without a reason: a call ends in SessionExpired, and the
\* session turns to none, only if the session ended, a refresh was lost or
\* refused for load, or a refresh raced a login or a sleep.  However many calls meet the
\* same expired token, the refresh they share spends one refresh token.
SignedOutForAReason ==
    [][\/ excuse
       \/ /\ \A c \in Calls : calls'[c].answer = "expired" => calls[c].answer = "expired"
          /\ session' = "none" => session = "none"]_vars

\* The server carries a mutation out at most once, whatever is refreshed, sent
\* again or lost on the way: the retry after a 401 is the only one.
AtMostOnce ==
    /\ TypeOK
    /\ \A c \in Calls : calls[c].kind \notin Queries => ran[c] <= 1

\* The page of an organization shows that organization's data: profile answers
\* and renames that arrive after the user has switched land under their own key.
ShowsItsOwnOrg ==
    page.path = "/o" /\ decideOrgShell = "ready" => cache[orgKey(page.org)].data = page.org

\* An invitation token is used only on the journey its link started: not after
\* the user has been on another page, signed out or let the hold lapse.
InviteStaysOnTrail ==
    /\ screen \in {None, trail}
    /\ held.live => held.link = trail

\* Every call that was started ends, although calls wait for a refresh that
\* another call, or the bootstrap, started.
CallsSettle == \A c \in Calls : calls[c].pc # "unused" ~> calls[c].pc = "done"

\* The session never stays unknown: the pages that wait for it move on.
SessionSettles == session = "unknown" ~> session # "unknown"

\* Nothing hangs: every call ends and the session becomes known.
Settles == CallsSettle /\ SessionSettles

\* Signing out another device leaves this browser signed in.
OtherDeviceOnly == [][logoutDevice /\ Alive => Alive']_vars
=============================================================================
