----------------------------------- MODULE HttpShell ----------------------------------
(* The HTTP shell of the server and what it records about its use.  Every request      *)
(* first passes a counter per route and address; what it then does leaves events and   *)
(* a user behind, which the dashboard counts, and raw events are pruned every day.     *)
(* Where the code counts, the model keeps the set that is counted.                     *)
EXTENDS Naturals, FiniteSets, Sequences

CONSTANTS
  Browsers,    \* a browser, its address and its cookies
  Users,       \* pseudonyms of connected users
  Campaigns,
  NoCampaign, NoCookie, NoUser, NoBucket,
  Routes,      \* bound: the limited routes that are called
  Max,         \* requests a window admits, by route
  Window,      \* length of a window
  CookieTtl, Retention, PruneEvery,
  MaxBuckets,  \* expired buckets are swept when there are more
  MaxBusy,     \* bound: routes called within a window's time
  MaxTime      \* bound

LimitedRoutes ==
  {"oauth-approve", "vault-pair", "sign-request", "submit-signed", "mcp", "analytics"}

Bucket == [count: Nat, resetAt: Nat]

ASSUME ShellAssumption ==
  /\ Routes \subseteq LimitedRoutes /\ Max \in [Routes -> Nat \ {0}]
  /\ {Window, CookieTtl, Retention, PruneEvery, MaxBuckets, MaxBusy, MaxTime}
       \subseteq Nat
  /\ Window > 0 /\ PruneEvery > 0
  /\ NoCampaign \notin Campaigns /\ NoBucket \notin Bucket

ServerEvents == {"connector_connected", "vault_connected", "wallet_opened",
                 "signing_request_opened", "transaction_signed", "transaction_broadcast",
                 "stage_error"}
UiEvents == {"widget_loaded"}

VARIABLES
  now,
  rateBuckets,
  cookie,      \* afp_src, by browser
  users,       \* table analytics_users
  events,      \* table analytics_events
  waiting,     \* signing requests that wait for the network
  nextPrune,   \* when the timer of this process fires
  admitted,    \* history: when this process admitted the requests of the last window
  clicks,      \* history: when a campaign's link was last opened in a browser, plus one
  earned,      \* history: users who approved or paired soon after a campaign's link
  recorded     \* history: events inserted, as long as they are to be kept

histories == <<admitted, clicks, earned, recorded>>
shellVars == <<now, rateBuckets, cookie, users, events, waiting, nextPrune, histories>>

Cookie == [src: Campaigns, exp: Nat]
User == [referral: Campaigns \cup {NoCampaign}]
Event == [ts: Nat, event: ServerEvents \cup UiEvents, source: {"server", "ui"},
          user: Users \cup {NoUser}]
Waits == {"prepare", "check", "broadcast"} \X Users

ShellInit ==
  /\ now = 0
  /\ rateBuckets = [k \in Routes \X Browsers |-> NoBucket]
  /\ cookie = [b \in Browsers |-> NoCookie]
  /\ users = [u \in Users |-> NoUser] /\ events = {}
  /\ waiting = {} /\ nextPrune = PruneEvery
  /\ admitted = [k \in Routes \X Browsers |-> << >>]
  /\ clicks = [k \in Browsers \X Campaigns |-> 0]
  /\ earned = {} /\ recorded = {}

---------------------------------------------------------------------------------------
(* rateLimit                                                                           *)

\* The bucket a request is counted in: a new one when its window is over.
Current(r, b) ==
  IF rateBuckets[<<r, b>>] = NoBucket \/ rateBuckets[<<r, b>>].resetAt <= now
  THEN [count |-> 0, resetAt |-> now + Window] ELSE rateBuckets[<<r, b>>]

\* Mutant of Swept: the sweep takes every bucket.
SweptAll(buckets) ==
  IF Cardinality({k \in DOMAIN buckets : buckets[k] # NoBucket}) > MaxBuckets
  THEN [k \in DOMAIN buckets |-> NoBucket] ELSE buckets

\* The buckets whose window is over go, once there are too many.
Swept(buckets) ==
  IF Cardinality({k \in DOMAIN buckets : buckets[k] # NoBucket}) > MaxBuckets
  THEN [k \in DOMAIN buckets |->
          IF buckets[k] # NoBucket /\ buckets[k].resetAt <= now THEN NoBucket
          ELSE buckets[k]]
  ELSE buckets

Counted(r, b) == [Current(r, b) EXCEPT !.count = @ + 1]

\* A refused request counts too.  Bound: it counts up to one above the limit.
Refuse(r, b) ==
  /\ Counted(r, b).count = Max[r] + 1
  /\ rateBuckets' = [rateBuckets EXCEPT ![<<r, b>>] = Counted(r, b)]
  /\ UNCHANGED <<now, cookie, users, events, waiting, nextPrune, admitted, clicks,
                 earned, recorded>>

\* Bound: so many routes are called within a window's time.
Busy(r, b) ==
  Cardinality({k \in DOMAIN admitted : admitted[k] # << >>} \cup {<<r, b>>}) <= MaxBusy

Admit(r, b) ==
  /\ r \in Routes /\ Busy(r, b)
  /\ Counted(r, b).count <= Max[r]
  /\ rateBuckets' = Swept([rateBuckets EXCEPT ![<<r, b>>] = Counted(r, b)])
  /\ admitted' = [admitted EXCEPT ![<<r, b>>] = Append(@, now)]
  /\ UNCHANGED <<now, nextPrune>>

---------------------------------------------------------------------------------------
(* AnalyticsService                                                                    *)

\* touchUser: a user is kept for ever, with the first referral that comes with it.
Touched(us, u, referral) ==
  IF us[u] = NoUser \/ (us[u].referral = NoCampaign /\ referral # NoCampaign)
  THEN [us EXCEPT ![u] = [referral |-> referral]] ELSE us

\* record: user first, if it is about one, then event.  A failed write is swallowed
\* wherever it happens.
Record(names, source, u, referral) ==
  LET new == [ts: {now}, event: names, source: {source}, user: {u}]
  IN \E written \in {"all", "half", "nothing"} :
       /\ users' = IF u # NoUser /\ written # "nothing" THEN Touched(users, u, referral) ELSE users
       /\ events' = IF written = "all" THEN events \cup new ELSE events
       /\ recorded' = IF written = "all" THEN recorded \cup new ELSE recorded

\* Mutant of Unexpired: an event goes when its last day begins.
UnexpiredBefore(es, at) == {e \in es : e.ts + Retention > at}

\* pruneOldEvents keeps what is not older than the retention.
Unexpired(es, at) == {e \in es : e.ts + Retention >= at}

Did(name) == {e.user : e \in {x \in events : x.event = name}}

Referred(campaign) == {u \in Users : users[u] # NoUser /\ users[u].referral = campaign}

\* communitySlice: whose events are counted is read from the users' table.
CommunitySlice(campaign) ==
  [users |-> Referred(campaign),
   walletOpens |-> Referred(campaign) \cap Did("wallet_opened")]

---------------------------------------------------------------------------------------
(* Requests                                                                            *)

\* Mutant of Landing: Max-Age is given in milliseconds.
LandingForEver(b, campaign) ==
  /\ cookie' = [cookie EXCEPT ![b] = [src |-> campaign, exp |-> now + 1000 * CookieTtl]]
  /\ clicks' = [clicks EXCEPT ![<<b, campaign>>] = now + 1]
  /\ UNCHANGED <<now, rateBuckets, users, events, waiting, nextPrune, admitted, earned,
                 recorded>>

\* GET /?src=: the newest link replaces the cookie of an older one.
Landing(b, campaign) ==
  /\ cookie' = [cookie EXCEPT ![b] = [src |-> campaign, exp |-> now + CookieTtl]]
  /\ clicks' = [clicks EXCEPT ![<<b, campaign>>] = now + 1]
  /\ UNCHANGED <<now, rateBuckets, users, events, waiting, nextPrune, admitted, earned,
                 recorded>>

\* Mutant of ReferralFromCookie: the whole match and not its group.
ReferralIsCookie(b) ==
  IF cookie[b] # NoCookie /\ now < cookie[b].exp THEN cookie[b] ELSE NoCampaign

\* What the browser sends: it drops an expired cookie.
ReferralFromCookie(b) ==
  IF cookie[b] # NoCookie /\ now < cookie[b].exp THEN cookie[b].src ELSE NoCampaign

\* The campaigns whose cookie the browser still has to have, unless a later one replaced it.
Recalled(b) ==
  {c \in Campaigns : clicks[<<b, c>>] > 0 /\ now < clicks[<<b, c>>] - 1 + CookieTtl}

\* A connection made in a browser credits the campaign in its cookie.
Connect(r, names, b, u) ==
  /\ Admit(r, b)
  /\ Record(names, "server", u, ReferralFromCookie(b))
  /\ earned' = earned \cup {<<u, c>> : c \in Recalled(b)}
  /\ UNCHANGED <<cookie, waiting, clicks>>

\* POST /api/oauth/approve: the callback records two events for the approved identity.
ApproveConnection(b, u) ==
  Connect("oauth-approve", {"connector_connected", "vault_connected"}, b, u)

\* POST /api/vault/pair with the token of an open pairing, of which an older release may
\* have left any number (Sessions): no approval precedes it.
PairVault(b, u) == Connect("vault-pair", {"vault_connected"}, b, u)

\* open_wallet and render_wallet.  Calls come without cookies.
OpenWalletCall(b, u) ==
  /\ Admit("mcp", b)
  /\ Record({"wallet_opened"}, "server", u, NoCampaign)
  /\ UNCHANGED <<cookie, waiting, clicks, earned>>

\* track_ui_event: the schema admits the names of the widget's events only.
TrackUiEvent(b, u) ==
  /\ Admit("mcp", b)
  /\ \E name \in UiEvents : Record({name}, "ui", u, NoCampaign)
  /\ UNCHANGED <<cookie, waiting, clicks, earned>>

\* The Vault's two signing requests are counted when they come; what they record comes
\* after the network has been waited for.
SigningRequest(b, u) ==
  /\ \/ Admit("sign-request", b) /\ waiting' = waiting \cup {<<"prepare", u>>}
     \/ Admit("submit-signed", b) /\ waiting' = waiting \cup {<<"check", u>>}
  /\ UNCHANGED <<cookie, users, events, clicks, earned, recorded>>

\* The wait is over: the stage that is reached is recorded for the user, and a failure of
\* any of them without a user.
SigningStage(stage, u) ==
  /\ <<stage, u>> \in waiting
  /\ LET others == waiting \ {<<stage, u>>}
     IN \/ /\ stage = "prepare" /\ waiting' = others
           /\ Record({"signing_request_opened"}, "server", u, NoCampaign)
        \/ /\ stage = "check" /\ waiting' = others \cup {<<"broadcast", u>>}
           /\ Record({"transaction_signed"}, "server", u, NoCampaign)
        \/ /\ stage = "broadcast" /\ waiting' = others
           /\ Record({"transaction_broadcast"}, "server", u, NoCampaign)
        \/ /\ waiting' = others
           /\ Record({"stage_error"}, "server", NoUser, NoCampaign)
  /\ UNCHANGED <<now, rateBuckets, cookie, nextPrune, admitted, clicks, earned>>

\* Requests that record nothing: GET /internal/analytics(.json), with or without its token,
\* and on the other routes those that are answered with an error.
AnswerOnly(r, b) ==
  /\ Admit(r, b)
  /\ UNCHANGED <<cookie, users, events, waiting, clicks, earned, recorded>>

---------------------------------------------------------------------------------------
(* Time                                                                                *)

\* History: what the retention still covers.
StillDue(at) == {e \in recorded : at - e.ts <= Retention}

\* History: the times, which come in order, without those at their head that are a window old.
Recent(times, at) ==
  LET first == CHOOSE i \in 1 .. Len(times) + 1 :
                 \A j \in DOMAIN times : j < i <=> times[j] + Window <= at
  IN SubSeq(times, first, Len(times))

\* The timer runs before the clock passes its moment.
Tick ==
  /\ now < MaxTime /\ now < nextPrune
  /\ now' = now + 1
  /\ recorded' = StillDue(now')
  /\ admitted' = [k \in DOMAIN admitted |-> Recent(admitted[k], now')]
  /\ UNCHANGED <<rateBuckets, cookie, users, events, waiting, nextPrune, clicks, earned>>

Prune ==
  /\ now = nextPrune
  /\ events' = Unexpired(events, now) /\ nextPrune' = now + PruneEvery
  /\ UNCHANGED <<now, rateBuckets, cookie, users, waiting, histories>>

\* Mutant of Start: only the timer prunes.
StartWithoutPruning ==
  /\ now < MaxTime /\ now' = now + 1
  /\ rateBuckets' = [k \in DOMAIN rateBuckets |-> NoBucket]
  /\ nextPrune' = now' + PruneEvery
  /\ admitted' = [k \in DOMAIN admitted |-> << >>]
  /\ recorded' = StillDue(now') /\ waiting' = {}
  /\ UNCHANGED <<cookie, users, events, clicks, earned>>

\* A process ends and the next one starts.  The buckets are gone and the timer begins
\* again, but the new process prunes at once.  Bound: it takes a unit of time.
Start ==
  /\ now < MaxTime /\ now' = now + 1
  /\ rateBuckets' = [k \in DOMAIN rateBuckets |-> NoBucket]
  /\ events' = Unexpired(events, now') /\ nextPrune' = now' + PruneEvery
  /\ admitted' = [k \in DOMAIN admitted |-> << >>]
  /\ recorded' = StillDue(now') /\ waiting' = {}
  /\ UNCHANGED <<cookie, users, clicks, earned>>

ShellNext ==
  \/ Tick \/ Prune \/ Start
  \/ \E b \in Browsers :
       \/ \E c \in Campaigns : Landing(b, c)
       \/ \E u \in Users : \/ ApproveConnection(b, u) \/ PairVault(b, u)
                          \/ OpenWalletCall(b, u) \/ TrackUiEvent(b, u)
                          \/ SigningRequest(b, u)
       \/ \E r \in Routes : AnswerOnly(r, b) \/ Refuse(r, b)
  \/ \E w \in Waits : SigningStage(w[1], w[2])

ShellSpec == ShellInit /\ [][ShellNext]_shellVars

---------------------------------------------------------------------------------------

\* Types of the state.
ShellTypeOK ==
  /\ now \in 0..MaxTime /\ nextPrune \in Nat
  /\ rateBuckets \in [Routes \X Browsers -> Bucket \cup {NoBucket}]
  /\ cookie \in [Browsers -> Cookie \cup {NoCookie}]
  /\ users \in [Users -> User \cup {NoUser}]
  /\ events \subseteq Event /\ recorded \subseteq Event /\ waiting \subseteq Waits
  /\ admitted \in [Routes \X Browsers -> Seq(0..MaxTime)]
  /\ clicks \in [Browsers \X Campaigns -> Nat] /\ earned \subseteq Users \X Campaigns

\* Windows are fixed and not sliding, but each begins with a request: in no stretch of
\* a window's length, also across two windows, is twice the limit admitted as long as
\* the process lives.
LessThanTwiceTheLimit ==
  \A r \in Routes, b \in Browsers : Len(admitted[<<r, b>>]) < 2 * Max[r]

\* Whoever the dashboard shows a community approved a connection, or paired a Vault, in a
\* browser that opened that campaign's link no longer than the cookie's life before.
AttributionIsEarned ==
  \A c \in Campaigns, u \in Users :
    u \in CommunitySlice(c).users \cup CommunitySlice(c).walletOpens => <<u, c>> \in earned

\* No event within the retention is lost, and none is kept longer than the retention
\* and the timer's period, however often the process is restarted.
EventsLiveAsLongAsPromised ==
  /\ recorded \subseteq events
  /\ \A e \in events : now <= e.ts + Retention + PruneEvery
=======================================================================================
