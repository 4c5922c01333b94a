-------------------------- MODULE WebClientProofs --------------------------
(***************************************************************************)
(* Theorems about WebClient, for every set of organizations and links and  *)
(* every number of calls, logins and events.                               *)
(***************************************************************************)
EXTENDS WebClient, TLAPS

Cookies == (Sessions \X Nat) \union {None}
Flight == [pc : {"none", "flying", "ok", "no", "lost"}, cookie : Cookies, next : Cookies,
           access : Nat]
Answers == {"none", "ok", "401", "denied", "wrongPassword", "network", "expired"}
Call == [pc : {"unused", "flying", "back", "refreshing", "done"}, kind : AllKinds,
         org : Orgs \union {None}, link : Links \union {None}, bearer : Nat, second : BOOLEAN,
         count : Nat, answer : Answers, joined : Waiters \union {None}]
Auth == [pc : {"none", "flying", "ok", "no"}, op : {"login", "signOut", "logoutOther"},
         cookie : Cookies, next : Cookies, access : Nat]
Page == [path : Paths, org : Orgs \union {None}]
Held == [link : Links \union {None}, live : BOOLEAN]
Entry == [data : Orgs \union {None}, failure : Answers]

\* The journey: a live hold belongs to the link that is followed, and only
\* between its page and the login page.
Journey ==
    /\ page \in Page /\ (page.path = "/o" => page.org \in Orgs)
    /\ held \in Held /\ screen \in Links \union {None}
    /\ screen \in {None, trail}
    /\ held.live => /\ held.link = trail /\ screen = None
                    /\ isInviteJourneyRoute(page.path)

\* Under the key of an organization there is nothing or its own data.
OwnData == cache \in [Orgs -> Entry] /\ \A o \in Orgs : cache[o].data \in {None, o}

\* A mutation that can still be sent, or sent again, has not been carried out.
CallFits(call, n) ==
    /\ n <= 1
    /\ call.kind \in Queries => n = 0
    /\ call.pc \in {"unused", "flying", "refreshing"} => n = 0
    /\ call.pc = "back" /\ call.answer = "401" => n = 0
    /\ call.kind \in OrgKinds /\ call.pc \notin {"unused", "done"} => call.org \in Orgs

CallsFit ==
    /\ calls \in [Calls -> Call] /\ ran \in [Calls -> Nat]
    /\ \A c \in Calls : CallFits(calls[c], ran[c])

\* There is at most one refresh, the one in the single flight, and whoever
\* waits waits for that one.
OneFlight ==
    /\ flights \in [Waiters -> Flight] /\ inflight \in Waiters \union {None}
    /\ \A w \in Waiters : flights[w].pc # "none" <=> inflight = w
    /\ \A c \in Calls : calls[c].pc = "refreshing" =>
          calls[c].joined \in Waiters /\ flights[calls[c].joined].pc # "none"

\* Types of the server's tokens and of what the browser and the page have of them.
TokenTypes ==
    /\ tips \in [Sessions -> Nat] /\ floor \in Nat /\ issued \in Nat
    /\ logins \in 0 .. MaxSessions /\ member \subseteq Orgs
    /\ cookie \in Cookies /\ session \in {"unknown", "none", "authed"} /\ auth \in Auth
    /\ token \in 0 .. issued /\ auth.access <= issued /\ floor <= issued + 1
    /\ \A w \in Waiters : flights[w].access <= issued

\* A refresh token of a session that was opened; the one of a login that has
\* not been answered yet is nowhere else.
Opened(c, n) == c # None => c[1] <= n
Apart(c, d) == c # None => c[1] # d[1]

Answered == auth.op = "login" /\ auth.pc = "ok"

Sessional ==
    /\ Opened(cookie, logins)
    /\ \A w \in Waiters : Opened(flights[w].cookie, logins) /\ Opened(flights[w].next, logins)
    /\ Answered =>
          /\ auth.next # None /\ auth.next[1] <= logins /\ auth.next[2] = 1
          /\ tips[auth.next[1]] \in {0, 1}
          /\ Apart(cookie, auth.next)
          /\ \A w \in Waiters :
                Apart(flights[w].cookie, auth.next) /\ Apart(flights[w].next, auth.next)

\* Without an excuse the browser has, or is about to get, the current token of
\* its session, and what the refresh brought is not expired.
Good(c, table) == c # None /\ c[2] # 0 /\ table[c[1]] = c[2]

FlightGood(f, table, oldest) ==
    /\ f.pc \in {"none", "flying", "ok"}
    /\ f.pc = "flying" => Good(f.cookie, table)
    /\ f.pc = "ok" => Good(f.next, table) /\ f.access >= oldest /\ f.access # 0

SecondGood(call, oldest) ==
    call.second => /\ call.pc = "flying" => call.bearer >= oldest /\ call.bearer # 0
                   /\ call.pc = "back" => call.answer # "401"

Unexcused ==
    /\ inflight = None => Good(cookie, tips)
    /\ \A w \in Waiters : FlightGood(flights[w], tips, floor)
    /\ \A c \in Calls : SecondGood(calls[c], floor)
    /\ ~ (auth.op = "signOut" /\ auth.pc = "ok")

Excused == ~ excuse => Unexcused

IInv ==
    /\ Journey
    /\ OwnData
    /\ CallsFit
    /\ OneFlight
    /\ TokenTypes
    /\ Sessional
    /\ Excused

-----------------------------------------------------------------------------
\* The journey.
LEMMA GoKeepsJourney ==
    ASSUME Journey, NEW path \in Paths, NEW o \in Orgs \union {None},
           path = "/o" => o \in Orgs, Go(path, o)
    PROVE  Journey'
<1>1. page' = [path |-> path, org |-> o] /\ page' \in Page /\ page'.path = path
  BY DEF Go, Page
<1>2. (page'.path = "/o" => page'.org \in Orgs)
  BY <1>1
<1>3. NotHeld \in Held /\ NotHeld.live = FALSE
  BY DEF NotHeld, Held
<1>4. /\ held \in Held /\ screen \in Links \union {None} /\ screen \in {None, trail}
      /\ held.link \in Links \union {None} /\ held.live \in BOOLEAN
      /\ held.live => held.link = trail /\ screen = None /\ isInviteJourneyRoute(page.path)
  BY DEF Journey, Held
<1>5. CASE path = page.path
  <2>1. held' = held /\ (screen' = None \/ screen' = screen)
    BY <1>5 DEF Go
  <2>2. isInviteJourneyRoute(path) => trail' = trail
    BY DEF Go, isInviteJourneyRoute
  <2>3. screen' # None => trail' = trail
    BY DEF Go
  <2> QED
    BY <1>1, <1>2, <1>4, <1>5, <2>1, <2>2, <2>3 DEF Journey, isInviteJourneyRoute
<1>6. CASE path # page.path
  <2>1. CASE path = "/invite"
    <3>1. held' = NotHeld /\ screen' = takeInviteToken /\ trail' = trail
      BY <1>6, <2>1 DEF Go
    <3>2. screen' \in Links \union {None} /\ screen' \in {None, trail}
      BY <1>4, <3>1 DEF takeInviteToken
    <3> QED
      BY <1>1, <1>2, <1>3, <3>1, <3>2 DEF Journey
  <2>2. CASE path = "/login"
    <3>1. held' = held /\ screen' = None /\ trail' = trail
      BY <1>6, <2>2 DEF Go, isInviteJourneyRoute
    <3> QED
      BY <1>1, <1>2, <1>4, <2>2, <3>1 DEF Journey, isInviteJourneyRoute
  <2>3. CASE path \notin {"/invite", "/login"}
    <3>1. held' = NotHeld /\ screen' = None
      BY <1>6, <2>3 DEF Go, isInviteJourneyRoute
    <3> QED
      BY <1>1, <1>2, <1>3, <3>1 DEF Journey
  <2> QED
    BY <2>1, <2>2, <2>3
<1> QED
  BY <1>5, <1>6

LEMMA LoadStartsJourney ==
    ASSUME NEW path \in Paths, path # "/o", NEW link \in Links \union {None}, NEW who,
           Load(path, link, who)
    PROVE  Journey'
<1>1. page' = [path |-> path, org |-> None] /\ screen' = link /\ trail' = link /\ held' = NotHeld
  BY DEF Load
<1>2. page' \in Page /\ page'.path = path
  BY <1>1 DEF Page
<1>3. NotHeld \in Held /\ NotHeld.live = FALSE
  BY DEF NotHeld, Held
<1> QED
  BY <1>1, <1>2, <1>3 DEF Journey

LEMMA JourneyStep ==
    ASSUME IInv, [Next]_vars
    PROVE  Journey'
<1>0. Journey
  BY DEF IInv
<1>1. ASSUME NEW link \in Links, OpenLink(link) PROVE Journey'
  <2>1. Load("/invite", link, cookie)
    BY <1>1 DEF OpenLink
  <2> QED
    BY <2>1, LoadStartsJourney DEF Paths
<1>2. ASSUME NEW path \in Paths, NEW o \in Orgs \union {None}, Navigate(path, o) PROVE Journey'
  <2>1. Go(path, o) /\ (path = "/o" => o \in Orgs)
    BY <1>2 DEF Navigate
  <2> QED
    BY <1>0, <2>1, GoKeepsJourney
<1>3. CASE holdForReturn
  <2>1. /\ page' = [path |-> "/login", org |-> None] /\ screen' = None /\ trail' = trail
        /\ held' = IF screen = None THEN held ELSE [link |-> screen, live |-> TRUE]
    BY <1>3 DEF holdForReturn
  <2>2. page' \in Page /\ page'.path = "/login"
    BY <2>1 DEF Page, Paths
  <2>3. CASE screen = None
    BY <1>0, <2>1, <2>2, <2>3 DEF Journey, isInviteJourneyRoute
  <2>4. CASE screen # None
    <3>1. held' = [link |-> screen, live |-> TRUE] /\ screen = trail /\ screen \in Links
      BY <1>0, <2>1, <2>4 DEF Journey
    <3>2. held' \in Held /\ held'.link = trail
      BY <3>1 DEF Held
    <3> QED
      BY <2>1, <2>2, <3>2 DEF Journey, isInviteJourneyRoute
  <2> QED
    BY <2>3, <2>4
<1>4. CASE HoldLapses
  <2>1. /\ held.live /\ held' = [held EXCEPT !.live = FALSE] /\ UNCHANGED <<page, screen>>
    BY <1>4 DEF HoldLapses
  <2>2. held' \in Held /\ held'.live = FALSE
    BY <1>0, <2>1 DEF Journey, Held
  <2>3. screen = None
    BY <1>0, <2>1 DEF Journey
  <2> QED
    BY <1>0, <2>1, <2>2, <2>3 DEF Journey
<1>5. ASSUME NEW c \in Calls, Settle(c) PROVE Journey'
  <2>1. CASE Load("/login", None, cookie')
    BY <2>1, LoadStartsJourney DEF Paths
  <2>2. CASE UNCHANGED <<page, held, screen, trail>>
    BY <1>0, <2>2 DEF Journey
  <2> QED
    BY <1>5, <2>1, <2>2 DEF Settle
<1>6. CASE login
  <2>1. Go(destinationAfterLogin, None)
    BY <1>6 DEF login
  <2>2. destinationAfterLogin \in Paths /\ destinationAfterLogin # "/o"
    BY DEF destinationAfterLogin, Paths
  <2> QED
    BY <1>0, <2>1, <2>2, GoKeepsJourney
<1>7. CASE signOut
  <2>1. page' = [path |-> "/login", org |-> None] /\ held' = NotHeld /\ screen' = None
    BY <1>7 DEF signOut
  <2>2. page' \in Page /\ page'.path = "/login" /\ NotHeld \in Held /\ NotHeld.live = FALSE
    BY <2>1 DEF Page, Paths, NotHeld, Held
  <2> QED
    BY <2>1, <2>2 DEF Journey
<1>8. CASE Redirect
  <2>1. PICK path \in {"/login", "/select-org"} : Go(path, None)
    BY <1>8 DEF Redirect
  <2> QED
    BY <1>0, <2>1, GoKeepsJourney DEF Paths
<1>9. ASSUME UNCHANGED journeyVars PROVE Journey'
  BY <1>0, <1>9 DEF Journey, journeyVars
<1>10. ASSUME NEW c \in Calls,
              (\E kind \in Kinds : Start(c, kind)) \/ Serve(c) \/ AwaitRefresh(c) \/ Retry(c)
              \/ GiveUp(c) \/ LoseCall(c)
       PROVE  UNCHANGED journeyVars
  BY <1>10 DEF Start, Serve, AwaitRefresh, Retry, GiveUp, LoseCall
<1>11. ASSUME NEW w \in Waiters, Refreshing(w) \/ RefuseForLoad(w) \/ LoseRefresh(w)
       PROVE  UNCHANGED journeyVars
  BY <1>11 DEF Refreshing, Rotate, RefreshSettles, RefuseForLoad, LoseRefresh
<1>12. ASSUME \/ \E op \in {"login", "signOut", "logoutOther"} : StartAuth(op)
              \/ ServeAuth \/ logoutDevice \/ AuthFails \/ ExpireAccess \/ ChangedElsewhere
              \/ UNCHANGED vars
       PROVE  UNCHANGED journeyVars
  BY <1>12 DEF StartAuth, ServeAuth, logoutDevice, AuthFails, ExpireAccess, ChangedElsewhere, vars
<1> QED
  BY <1>1, <1>2, <1>3, <1>4, <1>5, <1>6, <1>7, <1>8, <1>9, <1>10, <1>11, <1>12
     DEF Next, User, Calling, Authing, Faults

-----------------------------------------------------------------------------
\* The query cache.
LEMMA OwnDataStep ==
    ASSUME IInv, [Next]_vars
    PROVE  OwnData'
<1>0. OwnData /\ CallsFit
  BY DEF IInv
<1>1. Empty \in Entry /\ Empty.data = None
  BY DEF Empty, Entry, Answers
<1>2. ASSUME cache' = [o \in Orgs |-> Empty] PROVE OwnData'
  BY <1>1, <1>2 DEF OwnData
<1>3. ASSUME UNCHANGED cache PROVE OwnData'
  BY <1>0, <1>3 DEF OwnData
<1>4. ASSUME NEW o \in Orgs, NEW entry \in Entry, entry.data \in {None, o},
             cache' = [cache EXCEPT ![o] = entry]
      PROVE  OwnData'
  BY <1>0, <1>4 DEF OwnData
<1>5. ASSUME NEW link \in Links, OpenLink(link) PROVE OwnData'
  BY <1>2, <1>5 DEF OpenLink, Load
<1>6. ASSUME NEW path \in Paths, NEW o \in Orgs \union {None}, Navigate(path, o) PROVE OwnData'
  <2>1. \/ cache' = cache
        \/ o \in Orgs /\ cache' = [cache EXCEPT ![o] = Empty]
    BY <1>6 DEF Navigate, orgKey
  <2> QED
    BY <1>1, <1>3, <1>4, <2>1
<1>7. ASSUME NEW c \in Calls, Settle(c) PROVE OwnData'
  <2> DEFINE call == calls[c]
  <2>1. call \in Call /\ (call.kind \in OrgKinds => call.org \in Orgs)
    BY <1>0, <1>7 DEF CallsFit, CallFits, Settle
  <2>2. CASE Load("/login", None, cookie')
    BY <1>2, <2>2 DEF Load
  <2>3. CASE cache' = Cached(call)
    <3>1. CASE call.kind \in OrgKinds /\ call.answer = "ok"
      <4>1. cache' = [cache EXCEPT ![call.org] = [data |-> call.org, failure |-> "none"]]
        BY <2>3, <3>1 DEF Cached, orgKey
      <4>2. [data |-> call.org, failure |-> "none"] \in Entry
        BY <2>1, <3>1 DEF Entry, Answers
      <4> QED
        BY <1>4, <2>1, <3>1, <4>1, <4>2
    <3>2. CASE call.kind = "profile" /\ call.answer # "ok"
      <4> DEFINE entry == [cache[call.org] EXCEPT !.failure = call.answer]
      <4>1. call.org \in Orgs /\ cache[call.org] \in Entry /\ cache[call.org].data \in {None, call.org}
        BY <1>0, <2>1, <3>2 DEF OwnData, OrgKinds
      <4>2. cache' = [cache EXCEPT ![call.org] = entry]
        BY <1>0, <2>3, <3>2 DEF Cached, orgKey, OwnData
      <4>3. entry \in Entry /\ entry.data = cache[call.org].data
        BY <2>1, <4>1 DEF Entry, Call
      <4> HIDE DEF entry
      <4> QED
        BY <1>4, <4>1, <4>2, <4>3
    <3>3. CASE call.kind \notin OrgKinds
      BY <1>3, <2>3, <3>3 DEF Cached, OrgKinds
    <3>4. CASE call.kind = "rename" /\ call.answer # "ok"
      BY <1>3, <2>3, <3>4 DEF Cached
    <3> QED
      BY <3>1, <3>2, <3>3, <3>4 DEF OrgKinds
  <2> QED
    BY <1>7, <2>2, <2>3 DEF Settle
<1>8. ASSUME NEW c \in Calls,
             (\E kind \in Kinds : Start(c, kind)) \/ Serve(c) \/ AwaitRefresh(c) \/ Retry(c)
             \/ GiveUp(c) \/ LoseCall(c)
      PROVE  UNCHANGED cache
  BY <1>8 DEF Start, Serve, AwaitRefresh, Retry, GiveUp, LoseCall
<1>9. ASSUME NEW w \in Waiters, Refreshing(w) \/ RefuseForLoad(w) \/ LoseRefresh(w)
      PROVE  UNCHANGED cache
  BY <1>9 DEF Refreshing, Rotate, RefreshSettles, RefuseForLoad, LoseRefresh
<1>10. ASSUME \/ \E op \in {"login", "signOut", "logoutOther"} : StartAuth(op)
              \/ Authing \/ ExpireAccess \/ ChangedElsewhere \/ holdForReturn \/ HoldLapses
              \/ Redirect \/ UNCHANGED vars
       PROVE  UNCHANGED cache
  BY <1>10 DEF StartAuth, Authing, ServeAuth, login, signOut, logoutDevice, AuthFails, ExpireAccess,
             ChangedElsewhere, holdForReturn, HoldLapses, Redirect, vars
<1> QED
  BY <1>3, <1>5, <1>6, <1>7, <1>8, <1>9, <1>10 DEF Next, User, Calling, Faults

-----------------------------------------------------------------------------
\* The calls and what the server carried out of them.
LEMMA CallMoves ==
    ASSUME CallsFit, NEW c \in Calls, NEW new \in Call, NEW n \in Nat, CallFits(new, n),
           calls' = [calls EXCEPT ![c] = new], ran' = [ran EXCEPT ![c] = n]
    PROVE  CallsFit'
  BY DEF CallsFit

LEMMA CallMovesOnly ==
    ASSUME CallsFit, NEW c \in Calls, NEW new \in Call, CallFits(new, ran[c]),
           calls' = [calls EXCEPT ![c] = new], ran' = ran
    PROVE  CallsFit'
  BY DEF CallsFit

LEMMA FinishedFits ==
    ASSUME NEW call \in Call, NEW n, CallFits(call, n)
    PROVE  Finished(call) \in Call /\ CallFits(Finished(call), n) /\ Finished(call).pc = "done"
           /\ Finished(call).second = FALSE
<1>1. Unused \in Call /\ Unused.second = FALSE
  BY DEF Unused, Call, Answers, AllKinds
<1>2. /\ Finished(call) \in Call /\ Finished(call).pc = "done" /\ Finished(call).kind = call.kind
      /\ Finished(call).second = FALSE
  BY <1>1 DEF Finished, Call
<1> QED
  BY <1>2 DEF CallFits

LEMMA LoadEndsCalls ==
    ASSUME CallsFit, NEW path, NEW link, NEW who, Load(path, link, who), ran' = ran
    PROVE  CallsFit' /\ \A c \in Calls : calls'[c].pc \in {"unused", "done"}
<1>1. calls' = [c \in Calls |-> IF calls[c].pc \in {"unused", "done"} THEN calls[c]
                                ELSE Finished(calls[c])]
  BY DEF Load
<1>2. ASSUME NEW c \in Calls
      PROVE  calls'[c] \in Call /\ CallFits(calls'[c], ran[c]) /\ calls'[c].pc \in {"unused", "done"}
  <2>1. calls[c] \in Call /\ CallFits(calls[c], ran[c])
    BY DEF CallsFit
  <2>2. CASE calls[c].pc \in {"unused", "done"}
    BY <1>1, <2>1, <2>2
  <2>3. CASE calls[c].pc \notin {"unused", "done"}
    BY <1>1, <2>1, <2>3, FinishedFits
  <2> QED
    BY <2>2, <2>3
<1>3. calls' \in [Calls -> Call]
  BY <1>1, <1>2
<1>4. ran' \in [Calls -> Nat] /\ \A c \in Calls : ran'[c] = ran[c]
  BY DEF CallsFit
<1> QED
  BY <1>2, <1>3, <1>4 DEF CallsFit

LEMMA ResumeFits ==
    ASSUME IInv, NEW c \in Calls, NEW w \in Waiters, calls[c].pc = "refreshing"
    PROVE  /\ resume(c, w, flights[w].access) \in Call
           /\ CallFits(resume(c, w, flights[w].access), ran[c])
           /\ flights[w].pc = "ok" =>
                 /\ resume(c, w, flights[w].access).pc = "flying"
                 /\ resume(c, w, flights[w].access).bearer = flights[w].access
                 /\ resume(c, w, flights[w].access).answer = calls[c].answer
           /\ resume(c, w, flights[w].access).pc # "refreshing"
<1>1. calls[c] \in Call /\ CallFits(calls[c], ran[c]) /\ flights[w].access \in Nat
  BY DEF IInv, CallsFit, OneFlight, Flight
<1>2. CASE flights[w].pc = "ok"
  <2> DEFINE new == [calls[c] EXCEPT !.pc = "flying", !.second = TRUE,
                                     !.bearer = flights[w].access, !.joined = None]
  <2>1. resume(c, w, flights[w].access) = new
    BY <1>2 DEF resume
  <2>2. /\ new \in Call /\ new.pc = "flying" /\ new.bearer = flights[w].access
        /\ new.answer = calls[c].answer /\ new.kind = calls[c].kind /\ new.org = calls[c].org
    BY <1>1 DEF Call
  <2> HIDE DEF new
  <2> QED
    BY <1>1, <2>1, <2>2 DEF CallFits
<1>3. CASE flights[w].pc # "ok"
  <2> DEFINE answer == IF flights[w].pc = "no" THEN "expired" ELSE "network"
             new == [calls[c] EXCEPT !.pc = "back", !.joined = None, !.answer = answer]
  <2>1. resume(c, w, flights[w].access) = new
    BY <1>3 DEF resume
  <2>2. answer \in Answers /\ answer # "401"
    BY DEF Answers
  <2> HIDE DEF answer
  <2>3. /\ new \in Call /\ new.pc = "back" /\ new.answer = answer
        /\ new.kind = calls[c].kind /\ new.org = calls[c].org
    BY <1>1, <2>2 DEF Call
  <2> HIDE DEF new
  <2> QED
    BY <1>1, <1>3, <2>1, <2>2, <2>3 DEF CallFits
<1> QED
  BY <1>2, <1>3

LEMMA RefreshSettlesCalls ==
    ASSUME IInv, NEW w \in Waiters, RefreshSettles(w)
    PROVE  CallsFit'
<1>1. /\ ran' = ran
      /\ calls' = [c \in Calls |-> IF calls[c].pc = "refreshing" /\ calls[c].joined = w
                                   THEN resume(c, w, flights[w].access) ELSE calls[c]]
  BY DEF RefreshSettles, serverVars
<1>2. calls \in [Calls -> Call] /\ ran \in [Calls -> Nat]
      /\ \A c \in Calls : CallFits(calls[c], ran[c])
  BY DEF IInv, CallsFit
<1>3. ASSUME NEW c \in Calls PROVE calls'[c] \in Call /\ CallFits(calls'[c], ran[c])
  <2>1. CASE calls[c].pc = "refreshing" /\ calls[c].joined = w
    BY <1>1, <2>1, ResumeFits
  <2>2. CASE ~ (calls[c].pc = "refreshing" /\ calls[c].joined = w)
    BY <1>1, <1>2, <2>2
  <2> QED
    BY <2>1, <2>2
<1>4. calls' \in [Calls -> Call]
  BY <1>1, <1>3
<1> QED
  BY <1>1, <1>2, <1>3, <1>4 DEF CallsFit

LEMMA StartCalls ==
    ASSUME IInv, NEW c \in Calls, NEW kind \in Kinds, Start(c, kind)
    PROVE  CallsFit' /\ calls'[c].pc = "flying" /\ ~ calls'[c].second
           /\ calls'[c].answer = calls[c].answer
<1> DEFINE o == IF kind \in OrgKinds THEN page.org ELSE None
           l == IF kind = "accept" THEN screen ELSE None
           sent == send(c)
           new == [sent EXCEPT !.kind = kind, !.org = o, !.link = l]
<1>1. CallsFit /\ calls[c] \in Call /\ CallFits(calls[c], ran[c]) /\ token \in Nat
  BY DEF IInv, CallsFit, TokenTypes
<1>2. kind \in AllKinds /\ o \in Orgs \union {None} /\ l \in Links \union {None}
      /\ (kind \in OrgKinds => o \in Orgs)
  <2>1. page.org \in Orgs \union {None} /\ (page.path = "/o" => page.org \in Orgs)
        /\ screen \in Links \union {None}
    BY DEF IInv, Journey, Page
  <2>2. kind \in OrgKinds => page.path = "/o"
    BY DEF Start, OrgKinds
  <2> QED
    BY <2>1, <2>2, WebAssumption
<1>3. calls[c].pc = "unused" /\ ran' = ran /\ calls' = [calls EXCEPT ![c] = new]
  BY DEF Start, serverVars
<1>4. sent \in Call /\ sent.pc = "flying" /\ sent.second = FALSE /\ sent.answer = calls[c].answer
  BY <1>1 DEF send, Call
<1> HIDE DEF o, l, sent
<1>5. /\ new \in Call /\ new.pc = "flying" /\ new.second = FALSE /\ new.answer = calls[c].answer
      /\ new.kind = kind /\ new.org = o
  BY <1>2, <1>4 DEF Call
<1> HIDE DEF new
<1>6. CallFits(new, ran[c])
  BY <1>1, <1>2, <1>3, <1>5 DEF CallFits
<1>7. calls'[c] = new
  BY <1>1, <1>3 DEF CallsFit
<1> QED
  BY <1>1, <1>3, <1>5, <1>6, <1>7, CallMovesOnly

LEMMA ServeCalls ==
    ASSUME IInv, NEW c \in Calls, Serve(c)
    PROVE  CallsFit' /\ \E a \in Answers \ {"expired"} :
               /\ calls' = [calls EXCEPT ![c].pc = "back", ![c].answer = a]
               /\ a = "401" <=> calls[c].bearer < floor \/ calls[c].bearer = 0
<1> DEFINE call == calls[c]
           refused == call.bearer < floor \/ call.bearer = 0
<1>1. CallsFit /\ call \in Call /\ CallFits(call, ran[c]) /\ call.pc = "flying"
      /\ ran \in [Calls -> Nat] /\ calls \in [Calls -> Call]
  BY DEF IInv, CallsFit, Serve
<1>2. PICK a \in Answers \ {"expired"} :
         /\ calls' = [calls EXCEPT ![c].pc = "back", ![c].answer = a]
         /\ a = "401" <=> refused
  BY DEF Serve, Answers
<1> DEFINE new == [call EXCEPT !.pc = "back", !.answer = a]
<1>3. /\ new \in Call /\ new.pc = "back" /\ new.answer = a
      /\ new.kind = call.kind /\ new.org = call.org
  BY <1>1 DEF Call
<1>4. calls' = [calls EXCEPT ![c] = new]
  BY <1>1, <1>2
<1>5. ran' = IF refused \/ call.kind \in Queries THEN ran ELSE [ran EXCEPT ![c] = @ + 1]
  BY DEF Serve
<1> HIDE DEF new
<1>6. ran[c] = 0
  BY <1>1 DEF CallFits
<1>7. CASE refused \/ call.kind \in Queries
  <2>1. CallFits(new, ran[c])
    BY <1>1, <1>3, <1>6 DEF CallFits
  <2> QED
    BY <1>1, <1>2, <1>3, <1>4, <1>5, <1>7, <2>1, CallMovesOnly
<1>8. CASE ~ (refused \/ call.kind \in Queries)
  <2>1. ran' = [ran EXCEPT ![c] = 1]
    BY <1>1, <1>5, <1>6, <1>8
  <2>2. CallFits(new, 1)
    BY <1>1, <1>2, <1>3, <1>8 DEF CallFits
  <2> QED
    BY <1>1, <1>2, <1>3, <1>4, <2>1, <2>2, CallMoves
<1> QED
  BY <1>7, <1>8

LEMMA CallsFitStep ==
    ASSUME IInv, [Next]_vars
    PROVE  CallsFit'
<1>0. CallsFit /\ calls \in [Calls -> Call]
  BY DEF IInv, CallsFit
<1>1. ASSUME UNCHANGED <<calls, ran>> PROVE CallsFit'
  BY <1>0, <1>1 DEF CallsFit
<1>2. ASSUME NEW link \in Links, OpenLink(link) PROVE CallsFit'
  <2>1. Load("/invite", link, cookie) /\ ran' = ran
    BY <1>2 DEF OpenLink, serverVars
  <2> QED
    BY <1>0, <2>1, LoadEndsCalls
<1>3. ASSUME NEW c \in Calls, Settle(c) PROVE CallsFit'
  <2>1. ran' = ran
    BY <1>3 DEF Settle, serverVars
  <2>2. CASE Load("/login", None, cookie')
    BY <1>0, <2>1, <2>2, LoadEndsCalls
  <2>3. CASE calls' = [calls EXCEPT ![c] = Finished(calls[c])]
    <3>1. calls[c] \in Call /\ CallFits(calls[c], ran[c])
      BY <1>0 DEF CallsFit
    <3>2. Finished(calls[c]) \in Call /\ CallFits(Finished(calls[c]), ran[c])
      BY <3>1, FinishedFits
    <3> QED
      BY <1>0, <2>1, <2>3, <3>2, CallMovesOnly
  <2> QED
    BY <1>3, <2>2, <2>3 DEF Settle
<1>4. ASSUME NEW c \in Calls, LoseCall(c) \/ GiveUp(c) PROVE CallsFit'
  <2>1. PICK a \in {"network", "expired"} :
           \/ calls' = [calls EXCEPT ![c].pc = "back", ![c].answer = a]
           \/ calls[c].pc = "back" /\ calls' = [calls EXCEPT ![c].answer = a]
    BY <1>4 DEF LoseCall, GiveUp
  <2> DEFINE new == calls'[c]
  <2>2. calls[c] \in Call /\ CallFits(calls[c], ran[c]) /\ calls[c].pc \in {"flying", "back"}
        /\ ran' = ran
    BY <1>0, <1>4 DEF CallsFit, LoseCall, GiveUp, serverVars
  <2>3. /\ new \in Call /\ new.pc = "back" /\ new.answer = a
        /\ new.kind = calls[c].kind /\ new.org = calls[c].org
    <3>1. CASE calls' = [calls EXCEPT ![c].pc = "back", ![c].answer = a]
      BY <1>0, <2>2, <3>1 DEF Call, Answers
    <3>2. CASE calls[c].pc = "back" /\ calls' = [calls EXCEPT ![c].answer = a]
      BY <1>0, <2>2, <3>2 DEF Call, Answers
    <3> QED
      BY <2>1, <3>1, <3>2
  <2>4. calls' = [calls EXCEPT ![c] = new]
    BY <1>0, <2>1
  <2> HIDE DEF new
  <2>5. CallFits(new, ran[c])
    BY <2>2, <2>3 DEF CallFits
  <2> QED
    BY <1>0, <2>2, <2>3, <2>4, <2>5, CallMovesOnly
<1>5. ASSUME NEW c \in Calls, AwaitRefresh(c) PROVE CallsFit'
  <2> DEFINE new == [calls[c] EXCEPT !.pc = "refreshing", !.joined = inflight']
  <2>1. calls[c] \in Call /\ CallFits(calls[c], ran[c]) /\ calls[c].pc = "back"
        /\ calls[c].answer = "401" /\ ran' = ran
    BY <1>0, <1>5 DEF CallsFit, AwaitRefresh, isAuthExpiry, serverVars
  <2>2. inflight' \in Waiters \union {None}
    BY <1>5 DEF AwaitRefresh, silentRefresh, IInv, OneFlight, Waiters
  <2>3. new \in Call /\ new.pc = "refreshing" /\ new.kind = calls[c].kind /\ new.org = calls[c].org
    BY <2>1, <2>2 DEF Call
  <2>4. calls' = [calls EXCEPT ![c] = new]
    BY <1>0, <1>5 DEF AwaitRefresh
  <2> HIDE DEF new
  <2>5. CallFits(new, ran[c])
    BY <2>1, <2>3 DEF CallFits
  <2> QED
    BY <1>0, <2>1, <2>3, <2>4, <2>5, CallMovesOnly
<1>6. ASSUME NEW c \in Calls, Retry(c) PROVE CallsFit'
  <2> DEFINE sent == send(c)
             new == [sent EXCEPT !.count = @ + 1]
  <2>1. calls[c] \in Call /\ CallFits(calls[c], ran[c]) /\ calls[c].kind \in Queries
        /\ calls[c].pc = "back" /\ ran' = ran
    BY <1>0, <1>6 DEF CallsFit, Retry, retries, serverVars
  <2>2. sent \in Call /\ sent.pc = "flying" /\ sent.kind = calls[c].kind /\ sent.org = calls[c].org
    <3>1. token \in Nat
      BY DEF IInv, TokenTypes
    <3> QED
      BY <2>1, <3>1 DEF send, Call
  <2>3. calls' = [calls EXCEPT ![c] = new]
    BY <1>6 DEF Retry
  <2> HIDE DEF sent
  <2>4. new \in Call /\ new.pc = "flying" /\ new.kind = calls[c].kind /\ new.org = calls[c].org
    BY <2>2 DEF Call
  <2> HIDE DEF new
  <2>5. CallFits(new, ran[c])
    BY <2>1, <2>4 DEF CallFits
  <2> QED
    BY <1>0, <2>1, <2>3, <2>4, <2>5, CallMovesOnly
<1>7. ASSUME NEW w \in Waiters, Rotate(w) \/ RefuseForLoad(w) \/ LoseRefresh(w)
      PROVE  UNCHANGED <<calls, ran>>
  BY <1>7 DEF Rotate, RefuseForLoad, LoseRefresh, serverVars
<1>8. ASSUME \/ \E path \in Paths, o \in Orgs \union {None} : Navigate(path, o)
             \/ \E op \in {"login", "signOut", "logoutOther"} : StartAuth(op)
             \/ Authing \/ ExpireAccess \/ ChangedElsewhere \/ holdForReturn \/ HoldLapses
             \/ Redirect \/ UNCHANGED vars
       PROVE  UNCHANGED <<calls, ran>>
  BY <1>8 DEF Navigate, StartAuth, Authing, ServeAuth, login, signOut, logoutDevice, AuthFails,
              ExpireAccess, ChangedElsewhere, holdForReturn, HoldLapses, Redirect, vars, serverVars
<1> QED
  BY <1>1, <1>2, <1>3, <1>4, <1>5, <1>6, <1>7, <1>8, RefreshSettlesCalls, StartCalls, ServeCalls
     DEF Next, User, Refreshing, Calling, Faults

-----------------------------------------------------------------------------
\* The single flight.
LEMMA FlightForms ==
    ASSUME NEW who \in Cookies
    PROVE  /\ Grounded \in Flight /\ Grounded.pc = "none"
           /\ [Grounded EXCEPT !.pc = "flying", !.cookie = who] \in Flight
           /\ [Grounded EXCEPT !.pc = "flying", !.cookie = who].pc = "flying"
           /\ [Grounded EXCEPT !.pc = "flying", !.cookie = who].cookie = who
           /\ [Grounded EXCEPT !.pc = "flying", !.cookie = who].next = None
           /\ [Grounded EXCEPT !.pc = "flying", !.cookie = who].access = 0
<1>1. Grounded \in Flight /\ Grounded.pc = "none" /\ Grounded.next = None /\ Grounded.access = 0
  BY DEF Grounded, Flight, Cookies
<1> QED
  BY <1>1 DEF Flight

LEMMA FlightFrame ==
    ASSUME OneFlight, UNCHANGED <<flights, inflight>>,
           \A c \in Calls : calls'[c].pc = "refreshing" => calls'[c] = calls[c]
    PROVE  OneFlight'
  BY DEF OneFlight

LEMMA NobodyIsNone == None \notin Waiters /\ Boot \notin Calls
  BY WebAssumption DEF Waiters, Calls

LEMMA LoadStartsFlight ==
    ASSUME CallsFit, NEW path, NEW link, NEW who \in Cookies, Load(path, link, who), ran' = ran
    PROVE  /\ OneFlight'
           /\ flights'[Boot] = [Grounded EXCEPT !.pc = "flying", !.cookie = who]
           /\ \A w \in Waiters \ {Boot} : flights'[w] = Grounded
<1>1. /\ inflight' = Boot
      /\ flights' = [w \in Waiters |->
                       IF w = Boot THEN [Grounded EXCEPT !.pc = "flying", !.cookie = who]
                       ELSE Grounded]
  BY DEF Load
<1>2. \A c \in Calls : calls'[c].pc \in {"unused", "done"}
  BY LoadEndsCalls
<1>3. Boot \in Waiters
  BY DEF Waiters
<1> DEFINE new == [Grounded EXCEPT !.pc = "flying", !.cookie = who]
<1>4. Grounded \in Flight /\ Grounded.pc = "none" /\ new \in Flight /\ new.pc = "flying"
  BY FlightForms
<1> HIDE DEF new
<1>5. flights' \in [Waiters -> Flight]
      /\ \A w \in Waiters : flights'[w] = IF w = Boot THEN new ELSE Grounded
  BY <1>1, <1>4 DEF new
<1> QED
  BY <1>1, <1>2, <1>3, <1>4, <1>5 DEF OneFlight, new

\* One refresh moves on.
LEMMA FlightMoves ==
    ASSUME OneFlight, NEW w \in Waiters, NEW new \in Flight, flights[w].pc # "none", new.pc # "none",
           flights' = [flights EXCEPT ![w] = new], UNCHANGED <<inflight, calls>>
    PROVE  OneFlight' /\ flights'[w] = new /\ \A v \in Waiters \ {w} : flights'[v] = flights[v]
  BY DEF OneFlight

LEMMA CookieParts ==
    ASSUME NEW c \in Cookies, c # None
    PROVE  c = <<c[1], c[2]>> /\ c[1] \in Sessions /\ c[2] \in Nat
  BY DEF Cookies

LEMMA SessionCookie ==
    ASSUME NEW s \in Sessions, NEW n \in Nat
    PROVE  <<s, n>> \in Cookies /\ <<s, n>> # None
  BY WebAssumption DEF Cookies, Sessions

Renewed(f, d, a) == [f EXCEPT !.pc = "ok", !.next = d, !.access = a]

LEMMA RenewedForm ==
    ASSUME NEW f \in Flight, NEW d \in Cookies, NEW a \in Nat
    PROVE  /\ Renewed(f, d, a) \in Flight /\ Renewed(f, d, a).pc = "ok"
           /\ Renewed(f, d, a).next = d /\ Renewed(f, d, a).access = a
           /\ Renewed(f, d, a).cookie = f.cookie
  BY DEF Flight, Renewed

\* What the server makes of a refresh.
Rotated(w) ==
    LET c == flights[w].cookie IN
    /\ tips' = [tips EXCEPT ![c[1]] = @ + 1] /\ issued' = issued + 1
    /\ flights'[w].pc = "ok" /\ flights'[w].next = <<c[1], c[2] + 1>>
    /\ flights'[w].access = issued + 1

LEMMA RotateFlights ==
    ASSUME IInv, NEW w \in Waiters, Rotate(w)
    PROVE  /\ OneFlight' /\ \A v \in Waiters \ {w} : flights'[v] = flights[v]
           /\ flights[w].pc = "flying" /\ flights'[w].cookie = flights[w].cookie
           /\ IF Good(flights[w].cookie, tips) THEN Rotated(w)
              ELSE /\ flights'[w].pc = "no" /\ issued' = issued
                   /\ flights'[w].next = flights[w].next /\ flights'[w].access = flights[w].access
                   /\ \/ tips' = tips
                      \/ flights[w].cookie # None /\ tips' = [tips EXCEPT ![flights[w].cookie[1]] = 0]
<1> DEFINE c == flights[w].cookie
<1>1. /\ OneFlight /\ flights[w] \in Flight /\ flights[w].pc = "flying" /\ c \in Cookies /\ issued \in Nat
      /\ tips \in [Sessions -> Nat] /\ flights \in [Waiters -> Flight]
      /\ UNCHANGED <<inflight, calls>>
  BY DEF IInv, OneFlight, Flight, TokenTypes, Rotate
<1>2. CASE Good(c, tips)
  <2>1. <<c[1], c[2] + 1>> \in Cookies /\ issued + 1 \in Nat
    BY <1>1, <1>2, CookieParts, SessionCookie DEF Good
  <2>2. PICK d \in Cookies, a \in Nat : d = <<c[1], c[2] + 1>> /\ a = issued + 1
    BY <2>1
  <2>3. tips' = [tips EXCEPT ![c[1]] = @ + 1] /\ issued' = a
        /\ flights' = [flights EXCEPT ![w].pc = "ok", ![w].next = d, ![w].access = a]
    BY <1>2, <2>2 DEF Rotate, Good
  <2> DEFINE new == Renewed(flights[w], d, a)
  <2>4. /\ new \in Flight /\ new.pc = "ok" /\ new.next = d
        /\ new.access = a /\ new.cookie = c
    <3>1. flights[w] \in Flight
      BY <1>1
    <3> QED
      BY <3>1, RenewedForm
  <2>5. flights' = [flights EXCEPT ![w] = new]
    BY <1>1, <2>3 DEF Renewed
  <2> HIDE DEF new
  <2>6. OneFlight' /\ flights'[w] = new /\ \A v \in Waiters \ {w} : flights'[v] = flights[v]
    BY <1>1, <2>4, <2>5, FlightMoves
  <2>7. Rotated(w)
    BY <2>2, <2>3, <2>4, <2>6 DEF Rotated
  <2> QED
    BY <1>1, <1>2, <2>4, <2>6, <2>7
<1>3. CASE ~ Good(c, tips)
  <2> DEFINE new == [flights[w] EXCEPT !.pc = "no"]
  <2>1. /\ issued' = issued /\ flights' = [flights EXCEPT ![w].pc = "no"]
        /\ tips' = tips \/ (c # None /\ tips' = [tips EXCEPT ![c[1]] = 0])
    BY <1>3 DEF Rotate, Good
  <2>2. /\ new \in Flight /\ new.pc = "no" /\ new.next = flights[w].next
        /\ new.access = flights[w].access /\ new.cookie = c
    BY <1>1 DEF Flight
  <2>3. flights' = [flights EXCEPT ![w] = new]
    BY <1>1, <2>1
  <2> HIDE DEF new
  <2>4. OneFlight' /\ flights'[w] = new /\ \A v \in Waiters \ {w} : flights'[v] = flights[v]
    BY <1>1, <2>2, <2>3, FlightMoves
  <2> QED
    BY <1>1, <1>3, <2>1, <2>2, <2>4
<1> QED
  BY <1>2, <1>3

LEMMA LostFlights ==
    ASSUME IInv, NEW w \in Waiters, RefuseForLoad(w) \/ LoseRefresh(w)
    PROVE  /\ OneFlight' /\ \A v \in Waiters \ {w} : flights'[v] = flights[v]
           /\ flights'[w].cookie = flights[w].cookie /\ flights'[w].next = flights[w].next
           /\ flights'[w].access = flights[w].access
<1>1. PICK pc \in {"no", "lost"} : flights' = [flights EXCEPT ![w].pc = pc]
  BY DEF RefuseForLoad, LoseRefresh
<1>2. /\ OneFlight /\ flights[w] \in Flight /\ flights \in [Waiters -> Flight]
      /\ flights[w].pc # "none" /\ UNCHANGED <<inflight, calls>>
  BY DEF IInv, OneFlight, RefuseForLoad, LoseRefresh
<1> DEFINE new == [flights[w] EXCEPT !.pc = pc]
<1>3. /\ new \in Flight /\ new.pc # "none" /\ new.cookie = flights[w].cookie
      /\ new.next = flights[w].next /\ new.access = flights[w].access
  BY <1>2 DEF Flight
<1>4. flights' = [flights EXCEPT ![w] = new]
  BY <1>1, <1>2
<1> HIDE DEF new
<1> QED
  BY <1>2, <1>3, <1>4, FlightMoves

LEMMA RefreshSettlesFlights ==
    ASSUME IInv, NEW w \in Waiters, RefreshSettles(w)
    PROVE  /\ OneFlight' /\ inflight' = None
           /\ \A v \in Waiters : flights'[v] = Grounded \/ (v # w /\ flights'[v] = flights[v])
           /\ \A v \in Waiters : flights'[v].pc = "none"
           /\ \A c \in Calls :
                 \/ calls'[c] = calls[c]
                 \/ calls[c].pc = "refreshing" /\ calls'[c] = resume(c, w, flights[w].access)
<1>1. /\ inflight' = None /\ flights' = [flights EXCEPT ![w] = Grounded]
      /\ flights[w].pc # "none"
      /\ calls' = [c \in Calls |-> IF calls[c].pc = "refreshing" /\ calls[c].joined = w
                                   THEN resume(c, w, flights[w].access) ELSE calls[c]]
  BY DEF RefreshSettles
<1>2. /\ flights \in [Waiters -> Flight]
      /\ \A v \in Waiters : flights[v].pc # "none" <=> inflight = v
      /\ \A c \in Calls : calls[c].pc = "refreshing" =>
            calls[c].joined \in Waiters /\ flights[calls[c].joined].pc # "none"
  BY DEF IInv, OneFlight
<1>3. Grounded \in Flight /\ Grounded.pc = "none"
  BY FlightForms DEF Cookies
<1>4. \A v \in Waiters \ {w} : flights'[v] = flights[v] /\ flights[v].pc = "none"
  BY <1>1, <1>2
<1>5. flights' \in [Waiters -> Flight] /\ flights'[w] = Grounded
  BY <1>1, <1>2, <1>3
<1>6. ASSUME NEW c \in Calls
      PROVE  /\ \/ calls'[c] = calls[c]
                \/ calls[c].pc = "refreshing" /\ calls'[c] = resume(c, w, flights[w].access)
             /\ calls'[c].pc # "refreshing"
  <2>1. CASE calls[c].pc = "refreshing" /\ calls[c].joined = w
    BY <1>1, <2>1, ResumeFits
  <2>2. CASE ~ (calls[c].pc = "refreshing" /\ calls[c].joined = w)
    BY <1>1, <1>2, <2>2
  <2> QED
    BY <2>1, <2>2
<1> QED
  BY <1>1, <1>3, <1>4, <1>5, <1>6, NobodyIsNone DEF OneFlight

LEMMA AwaitRefreshFlights ==
    ASSUME IInv, NEW c \in Calls, AwaitRefresh(c)
    PROVE  /\ OneFlight'
           /\ \/ inflight # None /\ UNCHANGED flights
              \/ /\ inflight = None /\ flights'[c] = [Grounded EXCEPT !.pc = "flying", !.cookie = cookie]
                 /\ \A w \in Waiters \ {c} : flights'[w] = flights[w]
           /\ calls'[c].pc = "refreshing" /\ calls'[c].answer = "401"
           /\ \A d \in Calls \ {c} : calls'[d] = calls[d]
<1> DEFINE new == [Grounded EXCEPT !.pc = "flying", !.cookie = cookie]
<1>1. /\ flights \in [Waiters -> Flight] /\ inflight \in Waiters \union {None}
      /\ \A v \in Waiters : flights[v].pc # "none" <=> inflight = v
      /\ \A d \in Calls : calls[d].pc = "refreshing" =>
            calls[d].joined \in Waiters /\ flights[calls[d].joined].pc # "none"
      /\ calls \in [Calls -> Call] /\ cookie \in Cookies
  BY DEF IInv, OneFlight, CallsFit, TokenTypes
<1>2. /\ calls' = [calls EXCEPT ![c].pc = "refreshing", ![c].joined = inflight']
      /\ calls[c].answer = "401" /\ silentRefresh(c, cookie)
  BY DEF AwaitRefresh, isAuthExpiry
<1>3. /\ calls'[c].pc = "refreshing" /\ calls'[c].joined = inflight' /\ calls'[c].answer = "401"
      /\ \A d \in Calls \ {c} : calls'[d] = calls[d]
  BY <1>1, <1>2 DEF Call
<1>4. c \in Waiters
  BY DEF Waiters
<1>5. CASE inflight # None
  <2>1. inflight' = inflight /\ flights' = flights
    BY <1>2, <1>5 DEF silentRefresh
  <2> QED
    BY <1>1, <1>3, <1>5, <2>1 DEF OneFlight
<1>6. CASE inflight = None
  <2>1. inflight' = c /\ flights' = [flights EXCEPT ![c] = new]
    BY <1>2, <1>6 DEF silentRefresh
  <2>2. new \in Flight /\ new.pc = "flying"
    BY <1>1, FlightForms
  <2> HIDE DEF new
  <2>3. flights' \in [Waiters -> Flight] /\ flights'[c] = new
        /\ \A w \in Waiters \ {c} : flights'[w] = flights[w]
    BY <1>1, <1>4, <2>1, <2>2
  <2>4. \A w \in Waiters : flights[w].pc = "none"
    BY <1>1, <1>6, NobodyIsNone
  <2>5. \A d \in Calls \ {c} : calls[d].pc # "refreshing"
    BY <1>1, <2>4
  <2>6. OneFlight'
    BY <1>3, <1>4, <2>1, <2>2, <2>3, <2>4, <2>5 DEF OneFlight
  <2> QED
    BY <1>3, <1>6, <2>3, <2>6 DEF new
<1> QED
  BY <1>5, <1>6

\* A call moves by itself.
LEMMA CallAlone ==
    ASSUME IInv, NEW c \in Calls,
           \/ \E kind \in Kinds : Start(c, kind)
           \/ Serve(c) \/ Retry(c) \/ GiveUp(c) \/ LoseCall(c)
    PROVE  /\ UNCHANGED <<flights, inflight>> /\ calls'[c].pc # "refreshing"
           /\ \A d \in Calls \ {c} : calls'[d] = calls[d]
<1>1. calls \in [Calls -> Call]
  BY DEF IInv, CallsFit
<1>2. UNCHANGED <<flights, inflight>>
  BY DEF Start, Serve, Retry, GiveUp, LoseCall
<1>3. CASE \E kind \in Kinds : Start(c, kind)
  <2>1. calls'[c].pc = "flying" /\ \E new : calls' = [calls EXCEPT ![c] = new]
    BY <1>3, StartCalls DEF Start
  <2> QED
    BY <1>1, <1>2, <2>1
<1>4. CASE Serve(c)
  <2>1. PICK a \in Answers : calls' = [calls EXCEPT ![c].pc = "back", ![c].answer = a]
    BY <1>4, ServeCalls
  <2> QED
    BY <1>1, <1>2, <2>1 DEF Call
<1>5. CASE LoseCall(c)
  BY <1>1, <1>2, <1>5 DEF LoseCall, Call
<1>6. CASE GiveUp(c)
  BY <1>1, <1>2, <1>6 DEF GiveUp, Call
<1>7. CASE Retry(c)
  <2> DEFINE sent == send(c)
             new == [sent EXCEPT !.count = @ + 1]
  <2>1. calls' = [calls EXCEPT ![c] = new]
    BY <1>7 DEF Retry
  <2>2. sent \in Call /\ sent.pc = "flying"
    <3>1. token \in Nat
      BY DEF IInv, TokenTypes
    <3> QED
      BY <1>1, <3>1 DEF send, Call
  <2> HIDE DEF sent
  <2>3. new.pc = "flying"
    BY <2>2 DEF Call
  <2> HIDE DEF new
  <2> QED
    BY <1>1, <1>2, <2>1, <2>3
<1> QED
  BY <1>3, <1>4, <1>5, <1>6, <1>7

LEMMA OneFlightStep ==
    ASSUME IInv, [Next]_vars
    PROVE  OneFlight'
<1>0. OneFlight /\ CallsFit /\ cookie \in Cookies
  BY DEF IInv, TokenTypes
<1>1. ASSUME NEW link \in Links, OpenLink(link) PROVE OneFlight'
  <2>1. Load("/invite", link, cookie) /\ ran' = ran
    BY <1>1 DEF OpenLink, serverVars
  <2> QED
    BY <1>0, <2>1, LoadStartsFlight
<1>2. ASSUME NEW c \in Calls, Settle(c) PROVE OneFlight'
  <2>1. ran' = ran /\ (cookie' = None \/ cookie' = cookie)
    BY <1>2 DEF Settle, serverVars
  <2>2. CASE Load("/login", None, cookie')
    <3>1. PICK who \in Cookies : who = cookie'
      BY <1>0, <2>1 DEF Cookies
    <3>2. Load("/login", None, who)
      BY <2>2, <3>1
    <3> QED
      BY <1>0, <2>1, <3>2, LoadStartsFlight
  <2>3. CASE calls' = [calls EXCEPT ![c] = Finished(calls[c])] /\ UNCHANGED <<flights, inflight>>
    <3>1. calls[c] \in Call /\ CallFits(calls[c], ran[c]) /\ calls \in [Calls -> Call]
      BY <1>0 DEF CallsFit
    <3>2. Finished(calls[c]).pc = "done"
      BY <3>1, FinishedFits
    <3> QED
      BY <1>0, <2>3, <3>1, <3>2, FlightFrame
  <2> QED
    BY <1>2, <2>2, <2>3 DEF Settle
<1>3. ASSUME NEW c \in Calls, (\E kind \in Kinds : Start(c, kind)) \/ Serve(c) \/ Retry(c)
             \/ GiveUp(c) \/ LoseCall(c)
      PROVE  OneFlight'
  BY <1>0, <1>3, CallAlone, FlightFrame
<1>4. ASSUME \/ \E path \in Paths, o \in Orgs \union {None} : Navigate(path, o)
             \/ \E op \in {"login", "signOut", "logoutOther"} : StartAuth(op)
             \/ Authing \/ ExpireAccess \/ ChangedElsewhere \/ holdForReturn \/ HoldLapses
             \/ Redirect \/ UNCHANGED vars
       PROVE  UNCHANGED <<calls, flights, inflight>>
  BY <1>4 DEF Navigate, StartAuth, Authing, ServeAuth, login, signOut, logoutDevice, AuthFails,
              ExpireAccess, ChangedElsewhere, holdForReturn, HoldLapses, Redirect, vars
<1>5. ASSUME UNCHANGED <<calls, flights, inflight>> PROVE OneFlight'
  BY <1>0, <1>5, FlightFrame
<1> QED
  BY <1>1, <1>2, <1>3, <1>4, <1>5, AwaitRefreshFlights, RotateFlights, LostFlights,
     RefreshSettlesFlights
     DEF Next, User, Refreshing, Calling, Faults

-----------------------------------------------------------------------------
\* The tokens: their types, the sessions they belong to, and whether the
\* browser has the current one.
Tokens == TokenTypes /\ Sessional /\ Excused

\* A step that leaves the tokens alone; a call may move.
LEMMA TokensFrame ==
    ASSUME IInv, UNCHANGED <<tips, floor, issued, logins, cookie, session, auth, inflight, flights, excuse>>,
           member' \subseteq Orgs, token' \in 0 .. issued,
           ~ excuse => \A c \in Calls : SecondGood(calls'[c], floor)
    PROVE  Tokens'
<1>1. TokenTypes /\ Sessional /\ Excused
  BY DEF IInv
<1>2. TokenTypes'
  BY <1>1 DEF TokenTypes
<1>3. Sessional'
  BY <1>1 DEF Sessional, Answered
<1>4. Excused'
  BY <1>1 DEF Excused, Unexcused
<1> QED
  BY <1>2, <1>3, <1>4 DEF Tokens

\* Steps that have nothing to do with tokens.
LEMMA OtherTokens ==
    ASSUME IInv,
           \/ \E path \in Paths, o \in Orgs \union {None} : Navigate(path, o)
           \/ holdForReturn \/ HoldLapses \/ Redirect \/ UNCHANGED vars
    PROVE  Tokens'
<1>1. UNCHANGED <<tips, floor, issued, logins, cookie, session, auth, inflight, flights, excuse,
                  member, token, calls>>
  BY DEF Navigate, holdForReturn, HoldLapses, Redirect, vars, serverVars
<1>2. member \subseteq Orgs /\ token \in 0 .. issued
      /\ (~ excuse => \A c \in Calls : SecondGood(calls[c], floor))
  BY DEF IInv, TokenTypes, Excused, Unexcused
<1> QED
  BY <1>1, <1>2, TokensFrame

LEMMA CallTokens ==
    ASSUME IInv, NEW c \in Calls,
           \/ \E kind \in Kinds : Start(c, kind)
           \/ Retry(c) \/ LoseCall(c)
    PROVE  Tokens'
<1>1. UNCHANGED <<tips, floor, issued, logins, cookie, session, auth, inflight, flights, excuse,
                  member, token>>
  BY DEF Start, Retry, LoseCall, serverVars
<1>2. /\ member \subseteq Orgs /\ token \in 0 .. issued /\ calls \in [Calls -> Call]
      /\ ~ excuse => \A d \in Calls : SecondGood(calls[d], floor)
  BY DEF IInv, TokenTypes, Excused, Unexcused, CallsFit
<1>3. SecondGood(calls'[c], floor)
  <2>1. CASE \E kind \in Kinds : Start(c, kind)
    BY <2>1, StartCalls DEF SecondGood
  <2>2. CASE Retry(c)
    <3> DEFINE sent == send(c)
               new == [sent EXCEPT !.count = @ + 1]
    <3>1. sent \in Call /\ sent.second = FALSE
      <4>1. token \in Nat
        BY DEF IInv, TokenTypes
      <4> QED
        BY <1>2, <4>1 DEF send, Call
    <3>2. calls' = [calls EXCEPT ![c] = new]
      BY <2>2 DEF Retry
    <3> HIDE DEF sent
    <3>3. new.second = FALSE
      BY <3>1 DEF Call
    <3> HIDE DEF new
    <3> QED
      BY <1>2, <3>2, <3>3 DEF SecondGood
  <2>3. CASE LoseCall(c)
    <3>1. calls'[c].pc = "back" /\ calls'[c].answer = "network"
      BY <1>2, <2>3 DEF LoseCall, Call
    <3> QED
      BY <3>1 DEF SecondGood
  <2> QED
    BY <2>1, <2>2, <2>3
<1>4. \A d \in Calls \ {c} : calls'[d] = calls[d]
  BY CallAlone
<1>5. ~ excuse => \A d \in Calls : SecondGood(calls'[d], floor)
  BY <1>2, <1>3, <1>4
<1> QED
  BY <1>1, <1>2, <1>5, TokensFrame

\* A step that only ends sessions.
LEMMA SessionsEnded ==
    ASSUME IInv, tips' \in [Sessions -> Nat], \A s \in Sessions : tips'[s] \in {tips[s], 0},
           UNCHANGED <<floor, issued, logins, cookie, session, auth, token, flights>>,
           member' \subseteq Orgs
    PROVE  TokenTypes' /\ Sessional'
<1>1. TokenTypes /\ Sessional
  BY DEF IInv
<1>2. TokenTypes'
  BY <1>1 DEF TokenTypes
<1>3. Answered => tips'[auth.next[1]] \in {0, 1}
  <2> SUFFICES ASSUME Answered PROVE tips'[auth.next[1]] \in {0, 1}
    OBVIOUS
  <2>1. auth.next # None /\ auth.next \in Cookies /\ tips[auth.next[1]] \in {0, 1}
    BY <1>1 DEF Sessional, TokenTypes, Auth
  <2>2. auth.next[1] \in Sessions
    BY <2>1, CookieParts
  <2> QED
    BY <2>1, <2>2
<1> QED
  BY <1>1, <1>2, <1>3 DEF Sessional, Answered

LEMMA ServeTokens ==
    ASSUME IInv, NEW c \in Calls, Serve(c)
    PROVE  Tokens'
<1> DEFINE call == calls[c]
           refused == call.bearer < floor \/ call.bearer = 0
<1>1. /\ UNCHANGED <<floor, issued, logins, cookie, session, auth, token, inflight, flights, member>>
      /\ tips' = IF call.kind = "logoutAll" /\ ~refused THEN [s \in Sessions |-> 0] ELSE tips
      /\ excuse' = (excuse \/ (call.kind = "logoutAll" /\ ~refused))
      /\ call.pc = "flying"
  BY DEF Serve
<1>2. TokenTypes /\ Excused /\ call \in Call /\ calls \in [Calls -> Call]
  BY DEF IInv, CallsFit
<1>3. tips \in [Sessions -> Nat] /\ member \subseteq Orgs
  BY <1>2 DEF TokenTypes
<1>4. tips' \in [Sessions -> Nat] /\ \A s \in Sessions : tips'[s] \in {tips[s], 0}
  BY <1>1, <1>3
<1>5. TokenTypes' /\ Sessional'
  BY <1>1, <1>3, <1>4, SessionsEnded
<1>6. Excused'
  <2> SUFFICES ASSUME ~ excuse' PROVE Unexcused'
    BY DEF Excused
  <2>1. ~ excuse /\ tips' = tips
    BY <1>1
  <2>2. Unexcused
    BY <1>2, <2>1 DEF Excused
  <2>3. PICK a \in Answers : /\ calls' = [calls EXCEPT ![c].pc = "back", ![c].answer = a]
                             /\ a = "401" <=> refused
    BY ServeCalls
  <2>4. calls'[c].pc = "back" /\ calls'[c].answer = a /\ calls'[c].second = call.second
        /\ \A d \in Calls \ {c} : calls'[d] = calls[d]
    BY <1>2, <2>3 DEF Call
  <2>5. SecondGood(calls'[c], floor)
    <3> SUFFICES ASSUME call.second PROVE a # "401"
      BY <2>4 DEF SecondGood
    <3>1. call.bearer >= floor /\ call.bearer # 0
      BY <1>1, <2>2 DEF Unexcused, SecondGood
    <3>2. call.bearer \in Nat /\ floor \in Nat
      BY <1>2 DEF Call, TokenTypes
    <3> QED
      BY <2>3, <3>1, <3>2
  <2> QED
    BY <1>1, <2>1, <2>2, <2>4, <2>5 DEF Unexcused
<1> QED
  BY <1>5, <1>6 DEF Tokens

LEMMA GiveUpTokens ==
    ASSUME IInv, NEW c \in Calls, GiveUp(c)
    PROVE  Tokens' /\ excuse
<1>1. excuse
  <2> SUFFICES ASSUME ~ excuse PROVE FALSE
    OBVIOUS
  <2>1. SecondGood(calls[c], floor)
    BY DEF IInv, Excused, Unexcused
  <2> QED
    BY <2>1 DEF GiveUp, isAuthExpiry, SecondGood
<1>2. UNCHANGED <<tips, floor, issued, logins, cookie, session, auth, inflight, flights, excuse,
                  member>> /\ token' = 0
  BY DEF GiveUp, serverVars
<1>3. member' \subseteq Orgs /\ token' \in 0 .. issued
  BY <1>2 DEF IInv, TokenTypes
<1> QED
  BY <1>1, <1>2, <1>3, TokensFrame

LEMMA ElsewhereTokens ==
    ASSUME IInv, ChangedElsewhere
    PROVE  Tokens'
<1>1. UNCHANGED <<floor, issued, logins, cookie, session, auth, token, inflight, flights, calls>>
  BY DEF ChangedElsewhere
<1>2. TokenTypes /\ Excused /\ tips \in [Sessions -> Nat] /\ member \subseteq Orgs
  BY DEF IInv, TokenTypes
<1>3. CASE UNCHANGED <<tips, excuse>> /\ \E o \in member : member' = member \ {o}
  <2>1. member' \subseteq Orgs /\ token' \in 0 .. issued
        /\ (~ excuse => \A c \in Calls : SecondGood(calls'[c], floor))
    BY <1>1, <1>2, <1>3 DEF TokenTypes, Excused, Unexcused
  <2> QED
    BY <1>1, <1>3, <2>1, TokensFrame
<1>4. CASE excuse' = TRUE /\ member' = member /\ \E s \in Sessions : tips' = [tips EXCEPT ![s] = 0]
  <2>1. tips' \in [Sessions -> Nat] /\ \A s \in Sessions : tips'[s] \in {tips[s], 0}
    BY <1>2, <1>4
  <2>2. TokenTypes' /\ Sessional'
    BY <1>1, <1>2, <1>4, <2>1, SessionsEnded
  <2> QED
    BY <1>4, <2>2 DEF Tokens, Excused
<1> QED
  BY <1>3, <1>4 DEF ChangedElsewhere

LEMMA ExpireTokens ==
    ASSUME IInv, ExpireAccess
    PROVE  Tokens'
<1>1. /\ UNCHANGED <<tips, issued, logins, cookie, session, auth, token, inflight, flights, member, calls>>
      /\ floor' = issued + 1 /\ excuse' = (excuse \/ auth.pc # "none" \/ Late)
  BY DEF ExpireAccess
<1>2. TokenTypes /\ Sessional /\ Excused /\ issued \in Nat
  BY DEF IInv, TokenTypes
<1>3. TokenTypes'
  BY <1>1, <1>2 DEF TokenTypes
<1>4. Sessional'
  BY <1>1, <1>2 DEF Sessional, Answered
<1>5. Excused'
  <2> SUFFICES ASSUME ~ excuse' PROVE Unexcused'
    BY DEF Excused
  <2>1. Unexcused /\ ~ Late
    BY <1>1, <1>2 DEF Excused
  <2>2. \A w \in Waiters : flights[w].pc = "none"
    BY <2>1 DEF Late
  <2>3. \A w \in Waiters : FlightGood(flights[w], tips, floor')
    BY <2>2 DEF FlightGood
  <2>4. \A c \in Calls : SecondGood(calls[c], floor')
    BY <2>1 DEF Late, SecondGood
  <2> QED
    BY <1>1, <2>1, <2>3, <2>4 DEF Unexcused
<1> QED
  BY <1>3, <1>4, <1>5 DEF Tokens

\* Facts about one refresh.
LEMMA FlightParts ==
    ASSUME IInv, NEW w \in Waiters
    PROVE  /\ flights[w] \in Flight /\ flights[w].access \in Nat /\ flights[w].access <= issued
           /\ flights[w].cookie \in Cookies /\ flights[w].next \in Cookies
           /\ Opened(flights[w].cookie, logins) /\ Opened(flights[w].next, logins)
           /\ Answered => Apart(flights[w].cookie, auth.next) /\ Apart(flights[w].next, auth.next)
           /\ ~ excuse => FlightGood(flights[w], tips, floor)
<1>1. flights[w] \in Flight
  BY DEF IInv, OneFlight
<1>2. flights[w].access \in Nat /\ flights[w].cookie \in Cookies /\ flights[w].next \in Cookies
  BY <1>1 DEF Flight
<1> QED
  BY <1>1, <1>2 DEF IInv, TokenTypes, Sessional, Excused, Unexcused

LEMMA GroundedParts ==
    /\ Grounded.access = 0 /\ Grounded.cookie = None /\ Grounded.next = None /\ Grounded.pc = "none"
    /\ Quiet \in Auth /\ Quiet.access = 0 /\ Quiet.pc = "none"
  BY DEF Grounded, Quiet, Auth, Cookies

LEMMA AwaitTokens ==
    ASSUME IInv, NEW c \in Calls, AwaitRefresh(c)
    PROVE  Tokens'
<1>1. UNCHANGED <<tips, floor, issued, logins, member, cookie, token, session, auth, excuse>>
  BY DEF AwaitRefresh, serverVars
<1>2. /\ TokenTypes /\ Sessional /\ Excused /\ cookie \in Cookies /\ issued \in Nat
      /\ OneFlight' /\ OneFlight
  BY AwaitRefreshFlights DEF IInv, TokenTypes
<1>3. /\ calls'[c].pc = "refreshing" /\ \A d \in Calls \ {c} : calls'[d] = calls[d]
      /\ \/ inflight # None /\ UNCHANGED flights
         \/ /\ inflight = None /\ flights'[c] = [Grounded EXCEPT !.pc = "flying", !.cookie = cookie]
            /\ \A w \in Waiters \ {c} : flights'[w] = flights[w]
  BY AwaitRefreshFlights
<1>4. ASSUME NEW w \in Waiters
      PROVE  /\ flights'[w].access <= issued
             /\ Opened(flights'[w].cookie, logins) /\ Opened(flights'[w].next, logins)
             /\ Answered => Apart(flights'[w].cookie, auth.next) /\ Apart(flights'[w].next, auth.next)
             /\ ~ excuse => FlightGood(flights'[w], tips, floor)
  <2>1. CASE flights'[w] = flights[w]
    BY <2>1, FlightParts
  <2>2. CASE inflight = None /\ flights'[w] = [Grounded EXCEPT !.pc = "flying", !.cookie = cookie]
    <3>1. /\ flights'[w].pc = "flying" /\ flights'[w].cookie = cookie /\ flights'[w].next = None
          /\ flights'[w].access = 0
      BY <1>2, <2>2, FlightForms
    <3>2. ~ excuse => Good(cookie, tips)
      BY <1>2, <2>2 DEF Excused, Unexcused
    <3>3. Opened(cookie, logins) /\ (Answered => Apart(cookie, auth.next))
      BY <1>2 DEF Sessional
    <3>4. 0 <= issued
      BY <1>2
    <3> QED
      BY <3>1, <3>2, <3>3, <3>4 DEF FlightGood, Opened, Apart
  <2> QED
    BY <1>3, <2>1, <2>2
<1>5. TokenTypes'
  BY <1>1, <1>2, <1>4 DEF TokenTypes
<1>6. Sessional'
  BY <1>1, <1>2, <1>4 DEF Sessional, Answered
<1>7. Excused'
  <2> SUFFICES ASSUME ~ excuse PROVE Unexcused'
    BY <1>1 DEF Excused
  <2>1. Unexcused
    BY <1>2 DEF Excused
  <2>2. SecondGood(calls'[c], floor)
    BY <1>3 DEF SecondGood
  <2>3. inflight' # None
    <3>1. c \in Waiters /\ (inflight # None => inflight' = inflight) /\ (inflight = None => inflight' = c)
      BY DEF AwaitRefresh, silentRefresh, Waiters
    <3> QED
      BY <3>1, NobodyIsNone
  <2> QED
    BY <1>1, <1>3, <1>4, <2>1, <2>2, <2>3 DEF Unexcused
<1> QED
  BY <1>5, <1>6, <1>7 DEF Tokens

LEMMA LostTokens ==
    ASSUME IInv, NEW w \in Waiters, RefuseForLoad(w) \/ LoseRefresh(w)
    PROVE  Tokens' /\ excuse'
<1>1. UNCHANGED <<tips, floor, issued, logins, member, cookie, token, session, auth>> /\ excuse' = TRUE
  BY DEF RefuseForLoad, LoseRefresh, serverVars
<1>2. \A v \in Waiters : flights'[v].cookie = flights[v].cookie /\ flights'[v].next = flights[v].next
                         /\ flights'[v].access = flights[v].access
  BY LostFlights
<1>3. TokenTypes /\ Sessional
  BY DEF IInv
<1>4. TokenTypes'
  BY <1>1, <1>2, <1>3 DEF TokenTypes
<1>5. Sessional'
  BY <1>1, <1>2, <1>3 DEF Sessional, Answered
<1> QED
  BY <1>1, <1>4, <1>5 DEF Tokens, Excused

LEMMA RotateTokens ==
    ASSUME IInv, NEW w \in Waiters, Rotate(w)
    PROVE  Tokens'
<1> DEFINE c == flights[w].cookie
<1>1. UNCHANGED <<floor, logins, member, cookie, token, session, auth, inflight, calls, excuse>>
  BY DEF Rotate
<1>2. TokenTypes /\ Sessional /\ Excused /\ OneFlight
  BY DEF IInv
<1>3. /\ tips \in [Sessions -> Nat] /\ issued \in Nat /\ floor \in Nat /\ floor <= issued + 1
      /\ token \in Nat /\ token <= issued /\ auth.access \in Nat /\ auth.access <= issued
      /\ logins \in Nat /\ (Answered => auth.next[1] \in Sessions)
  <2>1. Answered => auth.next # None /\ auth.next \in Cookies
    BY <1>2 DEF Sessional, TokenTypes, Auth
  <2>2. Answered => auth.next[1] \in Sessions
    BY <2>1, CookieParts
  <2> QED
    BY <1>2, <2>2, WebAssumption DEF TokenTypes, Auth
<1>4. /\ \A v \in Waiters \ {w} : flights'[v] = flights[v]
      /\ flights[w].pc = "flying" /\ flights'[w].cookie = c
  BY RotateFlights
<1>5. CASE Good(c, tips)
  <2>1. Rotated(w)
    BY <1>5, RotateFlights
  <2>2. c # None /\ c[1] \in Sessions /\ c[2] \in Nat /\ tips[c[1]] = c[2] /\ c[1] <= logins
        /\ (Answered => c[1] # auth.next[1])
    BY <1>5, FlightParts, CookieParts DEF Good, Opened, Apart
  <2>3. /\ tips' \in [Sessions -> Nat] /\ tips'[c[1]] = c[2] + 1 /\ issued' = issued + 1
        /\ \A s \in Sessions \ {c[1]} : tips'[s] = tips[s]
        /\ flights'[w].next = <<c[1], c[2] + 1>> /\ flights'[w].access = issued + 1
        /\ flights'[w].pc = "ok"
    BY <1>3, <2>1, <2>2 DEF Rotated
  <2>4. \A v \in Waiters : flights'[v].access <= issued'
    <3> SUFFICES ASSUME NEW v \in Waiters PROVE flights'[v].access <= issued'
      OBVIOUS
    <3>1. CASE v = w
      BY <1>3, <2>3, <3>1
    <3>2. CASE v # w
      BY <1>3, <1>4, <2>3, <3>2, FlightParts
    <3> QED
      BY <3>1, <3>2
  <2>5. TokenTypes'
    BY <1>1, <1>2, <1>3, <2>3, <2>4 DEF TokenTypes
  <2>6. Opened(flights'[w].next, logins) /\ (Answered => Apart(flights'[w].next, auth.next))
    BY <2>2, <2>3 DEF Opened, Apart
  <2>7. Answered => tips'[auth.next[1]] = tips[auth.next[1]]
    BY <1>3, <2>2, <2>3
  <2>8. Sessional'
    BY <1>1, <1>2, <1>4, <2>6, <2>7 DEF Sessional, Answered
  <2>9. Excused'
    <3> SUFFICES ASSUME ~ excuse PROVE Unexcused'
      BY <1>1 DEF Excused
    <3>1. Unexcused
      BY <1>2 DEF Excused
    <3>2. inflight = w /\ \A v \in Waiters \ {w} : flights[v].pc = "none"
      BY <1>2, <1>4 DEF OneFlight
    <3>3. Good(flights'[w].next, tips')
      <4>1. <<c[1], c[2] + 1>> # None
        BY <2>2, SessionCookie
      <4> QED
        BY <2>2, <2>3, <4>1 DEF Good
    <3>4. FlightGood(flights'[w], tips', floor)
      BY <1>3, <2>3, <3>3 DEF FlightGood
    <3>5. \A v \in Waiters \ {w} : FlightGood(flights'[v], tips', floor)
      BY <1>4, <3>2 DEF FlightGood
    <3> QED
      BY <1>1, <3>1, <3>2, <3>4, <3>5, NobodyIsNone DEF Unexcused
  <2> QED
    BY <2>5, <2>8, <2>9 DEF Tokens
<1>6. CASE ~ Good(c, tips)
  <2>1. /\ issued' = issued /\ flights'[w].next = flights[w].next /\ flights'[w].access = flights[w].access
        /\ \/ tips' = tips
           \/ c # None /\ tips' = [tips EXCEPT ![c[1]] = 0]
    BY <1>6, RotateFlights
  <2>2. tips' \in [Sessions -> Nat] /\ \A s \in Sessions : tips'[s] \in {tips[s], 0}
    BY <1>3, <2>1
  <2>3. \A v \in Waiters : flights'[v].cookie = flights[v].cookie /\ flights'[v].next = flights[v].next
                           /\ flights'[v].access = flights[v].access
    BY <1>4, <2>1
  <2>4. TokenTypes'
    BY <1>1, <1>2, <2>1, <2>2, <2>3 DEF TokenTypes
  <2>5. Answered => tips'[auth.next[1]] \in {0, 1}
    BY <1>2, <1>3, <2>2 DEF Sessional
  <2>6. Sessional'
    BY <1>1, <1>2, <2>3, <2>5 DEF Sessional, Answered
  <2>7. excuse
    BY <1>2, <1>4, <1>6 DEF Excused, Unexcused, FlightGood
  <2> QED
    BY <1>1, <2>4, <2>6, <2>7 DEF Tokens, Excused
<1> QED
  BY <1>5, <1>6

LEMMA SettlesTokens ==
    ASSUME IInv, NEW w \in Waiters, RefreshSettles(w)
    PROVE  Tokens' /\ (~ excuse => flights[w].pc = "ok")
<1> DEFINE f == flights[w]
<1>1. /\ UNCHANGED <<tips, floor, issued, logins, member, auth, excuse>>
      /\ token' = CASE f.pc = "ok" -> f.access [] f.pc = "no" -> 0 [] f.pc = "lost" -> token
      /\ cookie' = IF f.pc = "ok" THEN f.next ELSE cookie
      /\ session' = bootstrap(w) /\ f.pc \in {"ok", "no", "lost"}
  BY DEF RefreshSettles, serverVars
<1>2. TokenTypes /\ Sessional /\ Excused /\ issued \in Nat /\ token \in Nat /\ token <= issued
  BY DEF IInv, TokenTypes
<1>3. /\ \A v \in Waiters : flights'[v] = Grounded \/ (v # w /\ flights'[v] = flights[v])
      /\ \A v \in Waiters : flights'[v].pc = "none"
      /\ \A c \in Calls :
            \/ calls'[c] = calls[c]
            \/ calls[c].pc = "refreshing" /\ calls'[c] = resume(c, w, f.access)
  BY RefreshSettlesFlights
<1>4. token' \in 0 .. issued /\ cookie' \in Cookies /\ session' \in {"unknown", "none", "authed"}
  <2>1. token' \in 0 .. issued
    BY <1>1, <1>2, FlightParts
  <2>2. cookie' \in Cookies
    BY <1>1, <1>2, FlightParts DEF TokenTypes
  <2>3. session' \in {"unknown", "none", "authed"}
    BY <1>1, <1>2 DEF bootstrap, TokenTypes
  <2> QED
    BY <2>1, <2>2, <2>3
<1>5. ASSUME NEW v \in Waiters
      PROVE  /\ flights'[v].access <= issued
             /\ Opened(flights'[v].cookie, logins) /\ Opened(flights'[v].next, logins)
             /\ Answered => Apart(flights'[v].cookie, auth.next) /\ Apart(flights'[v].next, auth.next)
  <2>1. CASE flights'[v] = Grounded
    BY <1>2, <2>1, GroundedParts DEF Opened, Apart
  <2>2. CASE flights'[v] = flights[v]
    BY <2>2, FlightParts
  <2> QED
    BY <1>3, <2>1, <2>2
<1>6. TokenTypes'
  BY <1>1, <1>2, <1>4, <1>5 DEF TokenTypes
<1>7. Opened(cookie', logins) /\ (Answered => Apart(cookie', auth.next))
  BY <1>1, <1>2, FlightParts DEF Sessional
<1>8. Sessional'
  BY <1>1, <1>2, <1>5, <1>7 DEF Sessional, Answered
<1>9. ASSUME ~ excuse PROVE Unexcused' /\ f.pc = "ok"
  <2>1. Unexcused
    BY <1>2, <1>9 DEF Excused
  <2>2. f.pc = "ok" /\ Good(f.next, tips) /\ f.access >= floor /\ f.access # 0
    BY <1>1, <1>9, FlightParts DEF FlightGood
  <2>3. Good(cookie', tips)
    BY <1>1, <2>2
  <2>4. \A v \in Waiters : FlightGood(flights'[v], tips, floor)
    BY <1>3 DEF FlightGood
  <2>5. ASSUME NEW c \in Calls PROVE SecondGood(calls'[c], floor)
    <3>1. CASE calls'[c] = calls[c]
      BY <2>1, <3>1 DEF Unexcused
    <3>2. CASE calls[c].pc = "refreshing" /\ calls'[c] = resume(c, w, f.access)
      <4>1. calls'[c].pc = "flying" /\ calls'[c].bearer = f.access
        BY <2>2, <3>2, ResumeFits
      <4> QED
        BY <2>2, <4>1 DEF SecondGood
    <3> QED
      BY <1>3, <3>1, <3>2
  <2> QED
    BY <1>1, <2>1, <2>2, <2>3, <2>4, <2>5 DEF Unexcused
<1> QED
  BY <1>1, <1>6, <1>8, <1>9 DEF Tokens, Excused

LEMMA LoadTokens ==
    ASSUME IInv, NEW path, NEW link, NEW who \in Cookies, Load(path, link, who),
           UNCHANGED serverVars, cookie' = who, who \in {cookie, None},
           ~ excuse' => ~ excuse /\ inflight = None /\ who = cookie
    PROVE  Tokens'
<1> DEFINE new == [Grounded EXCEPT !.pc = "flying", !.cookie = who]
<1>1. /\ UNCHANGED <<tips, floor, issued, logins, member, ran>> /\ token' = 0 /\ session' = "unknown"
      /\ auth' = Quiet /\ inflight' = Boot
  BY DEF Load, serverVars
<1>2. TokenTypes /\ Sessional /\ Excused /\ CallsFit /\ issued \in Nat
  BY DEF IInv, TokenTypes
<1>3. flights'[Boot] = new /\ \A w \in Waiters \ {Boot} : flights'[w] = Grounded
  BY <1>1, <1>2, LoadStartsFlight
<1>4. new.pc = "flying" /\ new.cookie = who /\ new.next = None /\ new.access = 0
  BY FlightForms
<1> HIDE DEF new
<1>5. Opened(who, logins)
  BY <1>2 DEF Sessional, Opened
<1>6. ASSUME NEW w \in Waiters
      PROVE  /\ flights'[w].access <= issued
             /\ Opened(flights'[w].cookie, logins) /\ Opened(flights'[w].next, logins)
  <2>1. CASE w = Boot
    BY <1>2, <1>3, <1>4, <1>5, <2>1 DEF Opened
  <2>2. CASE w # Boot
    BY <1>2, <1>3, <2>2, GroundedParts DEF Opened
  <2> QED
    BY <2>1, <2>2
<1>7. TokenTypes'
  <2>1. Quiet \in Auth /\ Quiet.access <= issued /\ 0 \in 0 .. issued
    BY <1>2, GroundedParts
  <2> QED
    BY <1>1, <1>2, <1>6, <2>1 DEF TokenTypes
<1>8. Sessional'
  <2>1. ~ Answered'
    BY <1>1, GroundedParts DEF Answered
  <2> QED
    BY <1>1, <1>5, <1>6, <2>1 DEF Sessional
<1>9. Excused'
  <2> SUFFICES ASSUME ~ excuse' PROVE Unexcused'
    BY DEF Excused
  <2>1. Unexcused /\ inflight = None /\ who = cookie
    BY <1>2 DEF Excused
  <2>2. Good(who, tips)
    BY <2>1 DEF Unexcused
  <2>3. \A w \in Waiters : FlightGood(flights'[w], tips, floor)
    BY <1>3, <1>4, <2>2, GroundedParts DEF FlightGood
  <2>4. \A c \in Calls : calls'[c].pc \in {"unused", "done"}
    BY <1>1, <1>2, LoadEndsCalls
  <2>5. \A c \in Calls : SecondGood(calls'[c], floor)
    BY <2>4 DEF SecondGood
  <2> QED
    BY <1>1, <2>3, <2>5, GroundedParts, NobodyIsNone DEF Unexcused, Waiters
<1> QED
  BY <1>7, <1>8, <1>9 DEF Tokens

LEMMA OpenLinkTokens ==
    ASSUME IInv, NEW link \in Links, OpenLink(link)
    PROVE  Tokens'
<1>1. /\ Load("/invite", link, cookie) /\ UNCHANGED serverVars /\ cookie' = cookie
      /\ excuse' = (excuse \/ auth.pc # "none" \/ \E w \in Waiters : flights[w].pc # "none")
  BY DEF OpenLink
<1>2. PICK who \in Cookies : who = cookie
  BY DEF IInv, TokenTypes
<1>3. ~ excuse' => ~ excuse /\ inflight = None
  BY <1>1 DEF IInv, OneFlight
<1>4. Load("/invite", link, who)
  BY <1>1, <1>2
<1> QED
  BY <1>1, <1>2, <1>3, <1>4, LoadTokens

LEMMA SettleTokens ==
    ASSUME IInv, NEW c \in Calls, Settle(c)
    PROVE  Tokens' /\ (~ excuse' => session' = session)
<1>1. UNCHANGED serverVars /\ cookie' \in {cookie, None} /\ cookie \in Cookies
  BY DEF Settle, IInv, TokenTypes
<1>2. CASE Load("/login", None, cookie') /\ excuse' = TRUE
  <2>1. PICK who \in Cookies : who = cookie'
    BY <1>1 DEF Cookies
  <2>2. Load("/login", None, who)
    BY <1>2, <2>1
  <2> QED
    BY <1>1, <1>2, <2>1, <2>2, LoadTokens
<1>3. CASE /\ calls' = [calls EXCEPT ![c] = Finished(calls[c])]
           /\ token' = IF calls[c].kind = "logoutAll" /\ calls[c].answer = "ok" THEN 0 ELSE token
           /\ cookie' = IF calls[c].kind = "logoutAll" /\ calls[c].answer = "ok" THEN None ELSE cookie
           /\ excuse' = (excuse \/ (calls[c].kind = "logoutAll" /\ calls[c].answer = "ok"))
           /\ UNCHANGED <<session, inflight, flights, auth>>
  <2>1. TokenTypes /\ Sessional /\ Excused /\ CallsFit /\ issued \in Nat
    BY DEF IInv, TokenTypes
  <2>2. UNCHANGED <<tips, floor, issued, logins, member>>
    BY <1>1 DEF serverVars
  <2>3. TokenTypes'
    <3>1. token' \in 0 .. issued /\ cookie' \in Cookies
      BY <1>3, <2>1 DEF TokenTypes, Cookies
    <3> QED
      BY <1>3, <2>1, <2>2, <3>1 DEF TokenTypes
  <2>4. Sessional'
    <3>1. Opened(cookie', logins) /\ (Answered => Apart(cookie', auth.next))
      BY <1>3, <2>1 DEF Sessional, Opened, Apart
    <3> QED
      BY <1>3, <2>1, <2>2, <3>1 DEF Sessional, Answered
  <2>5. Excused'
    <3> SUFFICES ASSUME ~ excuse' PROVE Unexcused'
      BY DEF Excused
    <3>1. ~ excuse /\ cookie' = cookie
      BY <1>3
    <3>2. Unexcused
      BY <2>1, <3>1 DEF Excused
    <3>3. calls[c] \in Call /\ CallFits(calls[c], ran[c]) /\ calls \in [Calls -> Call]
      BY <2>1 DEF CallsFit
    <3>4. Finished(calls[c]).pc = "done"
      BY <3>3, FinishedFits
    <3>5. calls'[c].pc = "done" /\ \A d \in Calls \ {c} : calls'[d] = calls[d]
      BY <1>3, <3>3, <3>4
    <3>6. SecondGood(calls'[c], floor)
      BY <3>5 DEF SecondGood
    <3> QED
      BY <1>3, <2>2, <3>1, <3>2, <3>5, <3>6 DEF Unexcused
  <2> QED
    BY <1>3, <2>3, <2>4, <2>5 DEF Tokens
<1> QED
  BY <1>2, <1>3 DEF Settle

\* Logging in and out: the exchange moves, the tokens stand.
LEMMA AuthFrame ==
    ASSUME IInv, NEW a \in Auth, auth' = a, a.access <= issued,
           ~ (a.op \in {"login", "signOut"} /\ a.pc = "ok"),
           UNCHANGED <<tips, floor, issued, logins, member, cookie, token, session, inflight, flights,
                       calls, excuse>>
    PROVE  Tokens'
<1>1. TokenTypes /\ Sessional /\ Excused
  BY DEF IInv
<1>2. TokenTypes'
  BY <1>1 DEF TokenTypes
<1>3. ~ Answered' /\ ~ (auth'.op = "signOut" /\ auth'.pc = "ok")
  BY DEF Answered
<1>4. Sessional'
  BY <1>1, <1>3 DEF Sessional
<1>5. Excused'
  BY <1>1, <1>3 DEF Excused, Unexcused
<1> QED
  BY <1>2, <1>4, <1>5 DEF Tokens

LEMMA AuthParts ==
    ASSUME IInv
    PROVE  /\ auth \in Auth /\ auth.access \in Nat /\ auth.access <= issued /\ auth.next \in Cookies
           /\ auth.cookie \in Cookies
           /\ issued \in Nat /\ logins \in Nat /\ cookie \in Cookies /\ tips \in [Sessions -> Nat]
  BY WebAssumption DEF IInv, TokenTypes, Auth

LEMMA StartAuthTokens ==
    ASSUME IInv, NEW op \in {"login", "signOut", "logoutOther"}, StartAuth(op)
    PROVE  Tokens'
<1> DEFINE a == [Quiet EXCEPT !.pc = "flying", !.op = op, !.cookie = cookie]
<1>1. a \in Auth /\ a.pc = "flying" /\ a.access = 0
  BY AuthParts, GroundedParts DEF Auth
<1>2. auth' = a
      /\ UNCHANGED <<tips, floor, issued, logins, member, cookie, token, session, inflight, flights,
                     calls, excuse>>
  BY DEF StartAuth, serverVars
<1>3. 0 <= issued
  BY AuthParts
<1> QED
  <2>1. PICK b \in Auth : b = a
    BY <1>1
  <2> HIDE DEF a
  <2> QED
    BY <1>1, <1>2, <1>3, <2>1, AuthFrame

LEMMA AuthFailsTokens ==
    ASSUME IInv, AuthFails
    PROVE  Tokens'
<1>1. auth' = Quiet
      /\ UNCHANGED <<tips, floor, issued, logins, member, cookie, token, session, inflight, flights,
                     calls, excuse>>
  BY DEF AuthFails, serverVars
<1>2. Quiet \in Auth /\ Quiet.access <= issued /\ Quiet.pc # "ok"
  BY AuthParts, GroundedParts
<1> QED
  BY <1>1, <1>2, AuthFrame

\* The token of a session that has just been opened is nobody's yet.
LEMMA NewSession ==
    ASSUME NEW n \in Nat, n < MaxSessions, NEW table \in [Sessions -> Nat], NEW c \in Cookies, Opened(c, n)
    PROVE  /\ Opened(c, n + 1) /\ Apart(c, <<n + 1, 1>>)
           /\ Good(c, table) => Good(c, [table EXCEPT ![n + 1] = 1])
<1>1. CASE c = None
  BY <1>1 DEF Opened, Apart, Good
<1>2. CASE c # None
  <2>1. c[1] \in Sessions /\ c[1] <= n
    BY <1>2, CookieParts DEF Opened
  <2>2. c[1] \in Nat /\ c[1] # n + 1 /\ c[1] <= n + 1
    BY <2>1 DEF Sessions
  <2>3. [table EXCEPT ![n + 1] = 1][c[1]] = table[c[1]]
    BY <2>1, <2>2
  <2> QED
    BY <2>2, <2>3 DEF Opened, Apart, Good
<1> QED
  BY <1>1, <1>2

LEMMA LoggedInTokens ==
    ASSUME IInv, logins < MaxSessions, auth.op = "login", auth.pc = "flying",
           logins' = logins + 1, issued' = issued + 1, tips' = [tips EXCEPT ![logins + 1] = 1],
           auth' = [auth EXCEPT !.pc = "ok", !.next = <<logins + 1, 1>>, !.access = issued + 1],
           UNCHANGED <<floor, member, cookie, token, session, inflight, flights, calls, excuse>>
    PROVE  Tokens'
<1>1. PICK n \in Nat, i \in Nat : n = logins /\ i = issued
  BY AuthParts
<1>2. n + 1 \in Sessions /\ <<n + 1, 1>> \in Cookies /\ <<n + 1, 1>> # None /\ i + 1 \in Nat
  <2>1. n + 1 \in Sessions
    BY <1>1, WebAssumption DEF Sessions
  <2> QED
    BY <2>1, SessionCookie
<1>3. PICK d \in Cookies : d = <<n + 1, 1>>
  BY <1>2
<1>4. /\ auth' \in Auth /\ auth'.pc = "ok" /\ auth'.op = "login" /\ auth'.next = d
      /\ auth'.access = i + 1
  <2>1. auth' = [auth EXCEPT !.pc = "ok", !.next = d, !.access = i + 1]
    BY <1>1, <1>3
  <2>2. auth \in Auth
    BY AuthParts
  <2> QED
    BY <1>2, <2>1, <2>2 DEF Auth
<1>5. TokenTypes /\ Sessional /\ Excused
  BY DEF IInv
<1>6. tips' \in [Sessions -> Nat] /\ tips'[n + 1] = 1
  BY <1>1, <1>2, AuthParts
<1>7. ASSUME NEW c \in Cookies, Opened(c, logins)
      PROVE  Opened(c, n + 1) /\ Apart(c, d) /\ (Good(c, tips) => Good(c, tips'))
  <2>1. n < MaxSessions /\ Opened(c, n) /\ tips \in [Sessions -> Nat]
    BY <1>1, <1>7, AuthParts
  <2>2. Opened(c, n + 1) /\ Apart(c, <<n + 1, 1>>)
        /\ (Good(c, tips) => Good(c, [tips EXCEPT ![n + 1] = 1]))
    BY <2>1, NewSession
  <2> QED
    BY <1>1, <1>3, <2>2
<1>8. TokenTypes'
  <2>1. \A w \in Waiters : flights[w].access <= i + 1
    BY <1>1, FlightParts
  <2>2. token \in 0 .. (i + 1) /\ floor <= (i + 1) + 1 /\ n + 1 \in 0 .. MaxSessions
    BY <1>1, <1>5, WebAssumption DEF TokenTypes
  <2> QED
    BY <1>1, <1>4, <1>5, <1>6, <2>1, <2>2 DEF TokenTypes
<1>9. Sessional'
  <2>1. Opened(cookie, n + 1) /\ Apart(cookie, d)
    BY <1>5, <1>7, AuthParts DEF Sessional
  <2>2. \A w \in Waiters :
           /\ Opened(flights[w].cookie, n + 1) /\ Opened(flights[w].next, n + 1)
           /\ Apart(flights[w].cookie, d) /\ Apart(flights[w].next, d)
    BY <1>7, FlightParts
  <2>3. d # None /\ d[1] = n + 1 /\ d[2] = 1 /\ n + 1 <= n + 1
    BY <1>2, <1>3
  <2> QED
    BY <1>1, <1>4, <1>6, <2>1, <2>2, <2>3 DEF Sessional
<1>10. Excused'
  <2> SUFFICES ASSUME ~ excuse PROVE Unexcused'
    BY DEF Excused
  <2>1. Unexcused
    BY <1>5 DEF Excused
  <2>2. inflight = None => Good(cookie, tips')
    BY <1>5, <1>7, <2>1, AuthParts DEF Sessional, Unexcused
  <2>3. ASSUME NEW w \in Waiters PROVE FlightGood(flights[w], tips', floor)
    <3>1. FlightGood(flights[w], tips, floor)
      BY <2>1 DEF Unexcused
    <3>2. /\ Good(flights[w].cookie, tips) => Good(flights[w].cookie, tips')
          /\ Good(flights[w].next, tips) => Good(flights[w].next, tips')
      BY <1>7, FlightParts
    <3> QED
      BY <3>1, <3>2 DEF FlightGood
  <2> QED
    BY <1>4, <2>1, <2>2, <2>3 DEF Unexcused
<1> QED
  BY <1>8, <1>9, <1>10 DEF Tokens

LEMMA ServeAuthTokens ==
    ASSUME IInv, ServeAuth
    PROVE  Tokens'
<1>1. /\ UNCHANGED <<floor, member, cookie, token, session, inflight, flights, calls>>
      /\ auth.pc = "flying"
  BY DEF ServeAuth
<1>2. CASE /\ auth.op = "login" /\ logins < MaxSessions
           /\ logins' = logins + 1 /\ issued' = issued + 1
           /\ tips' = [tips EXCEPT ![logins + 1] = 1]
           /\ auth' = [auth EXCEPT !.pc = "ok", !.next = <<logins + 1, 1>>, !.access = issued + 1]
           /\ UNCHANGED excuse
  BY <1>1, <1>2, LoggedInTokens
<1>3. CASE /\ auth.op \in {"login", "logoutOther"}
           /\ \/ auth.op = "login" /\ auth' = [auth EXCEPT !.pc = "no"]
              \/ auth.op = "logoutOther" /\ auth' = [auth EXCEPT !.pc = "ok"]
           /\ UNCHANGED <<tips, issued, logins, excuse>>
  <2>1. PICK a \in Auth : /\ auth' = a /\ a.access = auth.access
                          /\ ~ (a.op \in {"login", "signOut"} /\ a.pc = "ok")
    BY <1>3, AuthParts DEF Auth
  <2> QED
    BY <1>1, <1>3, <2>1, AuthParts, AuthFrame
<1>4. CASE /\ auth.op = "signOut"
           /\ tips' = IF auth.cookie = None THEN tips ELSE [tips EXCEPT ![auth.cookie[1]] = 0]
           /\ auth' = [auth EXCEPT !.pc = "ok"]
           /\ excuse' = TRUE
           /\ UNCHANGED <<issued, logins>>
  <2>1. auth' \in Auth /\ auth'.op = "signOut" /\ auth'.access = auth.access
    BY <1>4, AuthParts DEF Auth
  <2>2. tips' \in [Sessions -> Nat]
    BY <1>4, AuthParts
  <2>3. TokenTypes /\ Sessional
    BY DEF IInv
  <2>4. TokenTypes'
    BY <1>1, <1>4, <2>1, <2>2, <2>3 DEF TokenTypes
  <2>5. Sessional'
    BY <1>1, <1>4, <2>1, <2>3 DEF Sessional, Answered
  <2> QED
    BY <1>4, <2>4, <2>5 DEF Tokens, Excused
<1> QED
  BY <1>2, <1>3, <1>4 DEF ServeAuth

\* The end of an exchange: the browser and the page get what it brought.
LEMMA AuthEndsTokens ==
    ASSUME IInv, login \/ signOut \/ logoutDevice
    PROVE  Tokens'
<1>1. UNCHANGED <<tips, floor, issued, logins, member, inflight, flights, calls>> /\ auth' = Quiet
  BY DEF login, signOut, logoutDevice, serverVars
<1>2. TokenTypes /\ Sessional /\ Excused
  BY DEF IInv
<1>3. Quiet \in Auth /\ Quiet.access <= issued /\ ~ Answered' /\ auth'.pc = "none"
  BY <1>1, AuthParts, GroundedParts DEF Answered
<1>4. cookie' \in Cookies /\ token' \in 0 .. issued /\ session' \in {"unknown", "none", "authed"}
      /\ Opened(cookie', logins)
  <2>1. CASE login
    <3>1. cookie' = auth.next /\ token' = auth.access /\ session' = "authed" /\ Answered
      BY <2>1 DEF login, Answered
    <3>2. Opened(auth.next, logins)
      BY <1>2, <3>1 DEF Sessional, Opened
    <3> QED
      BY <3>1, <3>2, AuthParts
  <2>2. CASE signOut \/ logoutDevice
    <3>1. cookie' = None /\ token' = 0 /\ session' \in {session, "none"}
      BY <2>2 DEF signOut, logoutDevice
    <3> QED
      BY <1>2, <3>1, AuthParts DEF Cookies, Opened, TokenTypes
  <2> QED
    BY <2>1, <2>2
<1>5. TokenTypes'
  BY <1>1, <1>2, <1>3, <1>4 DEF TokenTypes
<1>6. Sessional'
  BY <1>1, <1>2, <1>3, <1>4 DEF Sessional
<1>7. Excused'
  <2>1. CASE login
    <3> SUFFICES ASSUME ~ excuse' PROVE Unexcused'
      BY DEF Excused
    <3>1. cookie' = auth.next /\ Answered /\ ~ (tips[auth.next[1]] = 0) /\ ~ Late
      BY <2>1 DEF login, Answered
    <3>2. auth.next # None /\ auth.next[2] = 1 /\ tips[auth.next[1]] = 1
      BY <1>2, <3>1 DEF Sessional
    <3>3. Good(cookie', tips)
      BY <3>1, <3>2 DEF Good
    <3>4. \A w \in Waiters : FlightGood(flights[w], tips, floor)
      BY <3>1 DEF Late, FlightGood
    <3>5. \A c \in Calls : SecondGood(calls[c], floor)
      BY <3>1 DEF Late, SecondGood
    <3> QED
      BY <1>1, <1>3, <3>3, <3>4, <3>5 DEF Unexcused
  <2>2. CASE signOut
    <3>1. excuse' = excuse /\ auth.op = "signOut" /\ auth.pc = "ok"
      BY <2>2 DEF signOut
    <3>2. excuse
      BY <1>2, <3>1 DEF Excused, Unexcused
    <3> QED
      BY <3>1, <3>2 DEF Excused
  <2>3. CASE logoutDevice
    <3>1. excuse' = TRUE
      BY <2>3 DEF logoutDevice
    <3> QED
      BY <3>1 DEF Excused
  <2> QED
    BY <2>1, <2>2, <2>3
<1> QED
  BY <1>5, <1>6, <1>7 DEF Tokens

LEMMA TokensStep ==
    ASSUME IInv, [Next]_vars
    PROVE  Tokens'
  BY OtherTokens, CallTokens, ServeTokens, GiveUpTokens, ElsewhereTokens, ExpireTokens, AwaitTokens,
     LostTokens, RotateTokens, SettlesTokens, OpenLinkTokens, SettleTokens, StartAuthTokens,
     AuthFailsTokens, ServeAuthTokens, AuthEndsTokens
     DEF Next, User, Refreshing, Calling, Authing, Faults

-----------------------------------------------------------------------------
LEMMA InitIInv == Init => IInv
<1> SUFFICES ASSUME Init PROVE IInv
  OBVIOUS
<1>1. Journey
  <2>1. page \in Page /\ (page.path = "/o" => page.org \in Orgs)
    BY DEF Init, Page, Paths
  <2>2. held \in Held /\ held.live = FALSE /\ screen = None
    BY DEF Init, Held, NotHeld
  <2> QED
    BY <2>1, <2>2 DEF Journey
<1>2. OwnData
  <2>1. Empty \in Entry /\ Empty.data = None
    BY DEF Empty, Entry, Answers
  <2> QED
    BY <2>1 DEF Init, OwnData
<1>3. Unused \in Call /\ Unused.pc = "unused" /\ Unused.second = FALSE
  BY DEF Unused, Call, Answers, AllKinds
<1>4. CallsFit
  <2>1. CallFits(Unused, 0)
    BY <1>3 DEF CallFits
  <2> QED
    BY <1>3, <2>1 DEF Init, CallsFit
<1> DEFINE first == [Grounded EXCEPT !.pc = "flying", !.cookie = cookie]
<1>5. /\ cookie \in Cookies /\ logins \in {0, 1} /\ tips \in [Sessions -> Nat]
      /\ Opened(cookie, logins) /\ (~ excuse => Good(cookie, tips))
  <2>1. 1 \in Sessions
    BY WebAssumption DEF Sessions
  <2>2. <<1, 1>> \in Cookies /\ <<1, 1>> # None
    BY <2>1, SessionCookie
  <2>3. CASE /\ cookie = <<1, 1>> /\ logins = 1 /\ excuse = FALSE
             /\ tips = [s \in Sessions |-> IF s = 1 THEN 1 ELSE 0]
    BY <2>1, <2>2, <2>3 DEF Opened, Good
  <2>4. CASE /\ cookie = None /\ logins = 0 /\ excuse = TRUE
             /\ tips = [s \in Sessions |-> 0]
    BY <2>4 DEF Opened, Cookies
  <2>5. PICK signedIn \in BOOLEAN :
          /\ cookie = IF signedIn THEN <<1, 1>> ELSE None
          /\ tips = [s \in Sessions |-> IF signedIn /\ s = 1 THEN 1 ELSE 0]
          /\ logins = IF signedIn THEN 1 ELSE 0
          /\ excuse = ~signedIn
    BY DEF Init
  <2> QED
    BY <2>3, <2>4, <2>5
<1>6. flights = [w \in Waiters |-> IF w = Boot THEN first ELSE Grounded] /\ inflight = Boot
  BY DEF Init
<1>7. /\ first \in Flight /\ first.pc = "flying" /\ first.cookie = cookie /\ first.next = None
      /\ first.access = 0 /\ Grounded \in Flight
  BY <1>5, FlightForms
<1> HIDE DEF first
<1>8. Boot \in Waiters
  BY DEF Waiters
<1>9. flights \in [Waiters -> Flight] /\ \A w \in Waiters : flights[w] = IF w = Boot THEN first ELSE Grounded
  BY <1>6, <1>7
<1>10. OneFlight
  <2>1. \A c \in Calls : calls[c].pc # "refreshing"
    BY <1>3 DEF Init
  <2> QED
    BY <1>6, <1>7, <1>8, <1>9, <2>1, GroundedParts DEF OneFlight
<1>11. /\ floor = 1 /\ issued = 0 /\ member = Orgs /\ token = 0 /\ session = "unknown" /\ auth = Quiet
       /\ \A c \in Calls : calls[c] = Unused
  BY DEF Init
<1>12. TokenTypes
  <2>1. \A w \in Waiters : flights[w].access = 0
    BY <1>7, <1>9, GroundedParts
  <2>2. logins \in 0 .. MaxSessions
    BY <1>5, WebAssumption
  <2> QED
    BY <1>5, <1>11, <2>1, <2>2, GroundedParts DEF TokenTypes
<1>13. Sessional
  <2>1. ~ Answered
    BY <1>11, GroundedParts DEF Answered
  <2>2. \A w \in Waiters : flights[w].cookie \in {cookie, None} /\ flights[w].next = None
    BY <1>7, <1>9, GroundedParts
  <2> QED
    BY <1>5, <2>1, <2>2 DEF Sessional, Opened
<1>14. Excused
  <2> SUFFICES ASSUME ~ excuse PROVE Unexcused
    BY DEF Excused
  <2>1. \A w \in Waiters : FlightGood(flights[w], tips, floor)
    BY <1>5, <1>7, <1>9, GroundedParts DEF FlightGood
  <2>2. \A c \in Calls : SecondGood(calls[c], floor)
    BY <1>3, <1>11 DEF SecondGood
  <2> QED
    BY <1>5, <1>11, <2>1, <2>2, GroundedParts DEF Unexcused
<1> QED
  BY <1>1, <1>2, <1>4, <1>10, <1>12, <1>13, <1>14 DEF IInv

\* The inductive invariant holds of every reachable state of the tab.
THEOREM Invariant == Spec => []IInv
<1>1. IInv /\ [Next]_vars => IInv'
  BY JourneyStep, OwnDataStep, CallsFitStep, OneFlightStep, TokensStep DEF IInv, Tokens
<1> QED
  BY InitIInv, <1>1, PTL DEF Spec

\* requestWithRefresh and the query client: the retry after a 401 and the retries of
\* queries never make the server carry a mutation out twice; TypeOK holds.
THEOREM MutationsRunOnce == Spec => []AtMostOnce
<1>1. IInv => AtMostOnce
  <2> SUFFICES ASSUME IInv PROVE AtMostOnce
    OBVIOUS
  <2>1. \A c \in Calls : ran[c] <= 1
    BY DEF IInv, CallsFit, CallFits
  <2>2. TypeOK
    BY DEF IInv, TypeOK, Journey, Held, CallsFit, OneFlight, TokenTypes, Cookies, Page
  <2> QED
    BY <2>1, <2>2 DEF AtMostOnce
<1> QED
  BY Invariant, <1>1, PTL

\* orgKey and the shell of an organization: what a page shows is the data of its own
\* organization, however late an answer for another one arrives.
THEOREM PagesShowTheirOwn == Spec => []ShowsItsOwnOrg
<1>1. IInv => ShowsItsOwnOrg
  <2> SUFFICES ASSUME IInv, page.path = "/o", decideOrgShell = "ready"
               PROVE  cache[orgKey(page.org)].data = page.org
    BY DEF ShowsItsOwnOrg
  <2>1. page.org \in Orgs
    BY DEF IInv, Journey
  <2>2. cache[page.org].data \in {None, page.org}
    BY <2>1 DEF IInv, OwnData
  <2>3. cache[page.org].data # None
    BY DEF decideOrgShell, orgKey
  <2> QED
    BY <2>2, <2>3 DEF orgKey
<1> QED
  BY Invariant, <1>1, PTL

\* pending-invite: the token of a link is used on the journey of that link only.
THEOREM InvitesStayOnTrail == Spec => []InviteStaysOnTrail
<1>1. IInv => InviteStaysOnTrail
  BY DEF IInv, Journey, InviteStaysOnTrail
<1> QED
  BY Invariant, <1>1, PTL

-----------------------------------------------------------------------------
\* What a step without an excuse may not do to a call and to the session.
NobodyExpires == \A c \in Calls : calls'[c].answer = "expired" => calls[c].answer = "expired"
StaysSigned == session' = "none" => session = "none"

LEMMA FinishedAnswer ==
    ASSUME NEW call
    PROVE  Finished(call).answer = "none"
  BY DEF Finished, Unused

LEMMA LoadExpiresNobody ==
    ASSUME NEW path, NEW link, NEW who, Load(path, link, who)
    PROVE  NobodyExpires /\ StaysSigned
<1>1. /\ session' = "unknown"
      /\ \A c \in Calls : calls'[c] = calls[c] \/ calls'[c] = Finished(calls[c])
  BY DEF Load
<1> QED
  BY <1>1, FinishedAnswer DEF NobodyExpires, StaysSigned

LEMMA CallExpiresNobody ==
    ASSUME IInv, ~ excuse, NEW c \in Calls,
           \/ \E kind \in Kinds : Start(c, kind)
           \/ Calling(c) \/ LoseCall(c)
    PROVE  NobodyExpires /\ StaysSigned
<1>0. calls \in [Calls -> Call]
  BY DEF IInv, CallsFit
<1>1. CASE Settle(c)
  <2>1. CASE Load("/login", None, cookie')
    BY <2>1, LoadExpiresNobody
  <2>2. CASE calls' = [calls EXCEPT ![c] = Finished(calls[c])] /\ session' = session
    BY <1>0, <2>2, FinishedAnswer DEF NobodyExpires, StaysSigned
  <2> QED
    BY <1>1, <2>1, <2>2 DEF Settle
<1>2. CASE ~ Settle(c)
  <2>1. session' = session /\ ~ GiveUp(c)
    BY <1>2, GiveUpTokens DEF Start, Calling, Serve, AwaitRefresh, Retry, GiveUp, LoseCall
  <2>2. \A d \in Calls \ {c} : calls'[d] = calls[d]
    BY <1>2, <2>1, CallAlone, AwaitRefreshFlights DEF Calling
  <2>3. calls'[c].answer = "expired" => calls[c].answer = "expired"
    <3>1. CASE \E kind \in Kinds : Start(c, kind)
      BY <3>1, StartCalls
    <3>2. CASE Serve(c)
      <4>1. PICK a \in Answers \ {"expired"} : calls' = [calls EXCEPT ![c].pc = "back", ![c].answer = a]
        BY <3>2, ServeCalls
      <4>2. calls'[c].answer = a
        BY <1>0, <4>1 DEF Call
      <4> QED
        BY <4>2
    <3>3. CASE AwaitRefresh(c)
      BY <3>3, AwaitRefreshFlights
    <3>4. CASE LoseCall(c)
      BY <1>0, <3>4 DEF LoseCall, Call
    <3>5. CASE Retry(c)
      <4> DEFINE sent == send(c)
                 new == [sent EXCEPT !.count = @ + 1]
      <4>1. sent \in Call /\ sent.answer = calls[c].answer
        <5>1. token \in Nat
          BY DEF IInv, TokenTypes
        <5> QED
          BY <1>0, <5>1 DEF send, Call
      <4>2. calls' = [calls EXCEPT ![c] = new]
        BY <3>5 DEF Retry
      <4> HIDE DEF sent
      <4>3. new.answer = sent.answer
        BY <4>1 DEF Call
      <4> HIDE DEF new
      <4> QED
        BY <1>0, <4>1, <4>2, <4>3
    <3> QED
      BY <1>2, <2>1, <3>1, <3>2, <3>3, <3>4, <3>5 DEF Calling
  <2> QED
    BY <2>1, <2>2, <2>3 DEF NobodyExpires, StaysSigned
<1> QED
  BY <1>1, <1>2

LEMMA RefreshExpiresNobody ==
    ASSUME IInv, ~ excuse, NEW w \in Waiters, RefreshSettles(w)
    PROVE  NobodyExpires /\ StaysSigned
<1>1. flights[w].pc = "ok"
  BY SettlesTokens
<1>2. session' \in {session, "authed"}
  BY <1>1 DEF RefreshSettles, bootstrap
<1>3. ASSUME NEW c \in Calls PROVE calls'[c].answer = calls[c].answer
  <2>1. \/ calls'[c] = calls[c]
        \/ calls[c].pc = "refreshing" /\ calls'[c] = resume(c, w, flights[w].access)
    BY RefreshSettlesFlights
  <2> QED
    BY <1>1, <2>1, ResumeFits
<1> QED
  BY <1>2, <1>3 DEF NobodyExpires, StaysSigned

\* silentRefresh, requestWithRefresh and SessionProvider: without a lost or refused
\* refresh, an ended session or a race with a login or a sleep, no call ends in
\* SessionExpired and no session turns to none.
THEOREM NoSignOutWithoutReason == Spec => SignedOutForAReason
<1>1. IInv /\ [Next]_vars =>
        [\/ excuse
         \/ /\ \A c \in Calls : calls'[c].answer = "expired" => calls[c].answer = "expired"
            /\ session' = "none" => session = "none"]_vars
  <2> SUFFICES ASSUME IInv, [Next]_vars, ~ excuse PROVE NobodyExpires /\ StaysSigned
    BY DEF NobodyExpires, StaysSigned
  <2>1. ASSUME NEW link \in Links, OpenLink(link) PROVE NobodyExpires /\ StaysSigned
    BY <2>1, LoadExpiresNobody DEF OpenLink
  <2>2. ASSUME UNCHANGED calls, session' \in {session, "authed"} PROVE NobodyExpires /\ StaysSigned
    BY <2>2 DEF NobodyExpires, StaysSigned
  <2>3. ASSUME \/ \E path \in Paths, o \in Orgs \union {None} : Navigate(path, o)
               \/ \E op \in {"login", "signOut", "logoutOther"} : StartAuth(op)
               \/ ServeAuth \/ login \/ logoutDevice \/ AuthFails
               \/ holdForReturn \/ HoldLapses \/ Redirect \/ ExpireAccess \/ ChangedElsewhere
               \/ UNCHANGED vars
        PROVE  UNCHANGED calls /\ session' \in {session, "authed"}
    BY <2>3 DEF Navigate, StartAuth, ServeAuth, login, logoutDevice, AuthFails, holdForReturn, HoldLapses,
                Redirect, ExpireAccess, ChangedElsewhere, vars
  <2>4. ~ signOut
    BY DEF signOut, IInv, Excused, Unexcused
  <2>5. ASSUME NEW w \in Waiters, Rotate(w) \/ RefuseForLoad(w) \/ LoseRefresh(w)
        PROVE  UNCHANGED calls /\ session' \in {session, "authed"}
    BY <2>5 DEF Rotate, RefuseForLoad, LoseRefresh
  <2> QED
    BY <2>1, <2>2, <2>3, <2>4, <2>5, CallExpiresNobody, RefreshExpiresNobody
       DEF Next, User, Refreshing, Authing, Faults
<1> QED
  BY Invariant, <1>1, PTL DEF Spec, SignedOutForAReason
=============================================================================
