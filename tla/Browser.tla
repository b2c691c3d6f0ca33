--------------------------------- MODULE Browser ---------------------------------
(***********************************************************************************)
(* The HTML surface as one browser sees it: a cookie jar shared by several tabs,    *)
(* requests that any process may serve, responses that arrive in any order,         *)
(* redirects between the login page and the rest, and the signed double-submit CSRF *)
(* token: once in the jar, once in a hidden field of every page.  Meanwhile the     *)
(* operator rotates the secret that cookies and tokens are signed with.            *)
(* (Names leave those of Credentials free: RotationProofs extends both modules.)   *)
(***********************************************************************************)
EXTENDS SecretRotation, FiniteSets

CONSTANTS Tab, Nobody,
          MaxUses, \* bound: links followed and forms submitted by the user
          Nonce    \* bound: random values

\* There is a fresh nonce at any moment: the jar holds one token, each tab at most one and
\* each response another.
ASSUME BrowserAssumption ==
    /\ Nobody \notin Tab /\ MaxUses \in Nat /\ Nonce \subseteq Nat
    /\ IsFiniteSet(Tab) /\ (IsFiniteSet(Nonce) => Cardinality(Nonce) > 2 * Cardinality(Tab) + 1)

VARIABLES jar,        \* the cookies: the secret that signed the session (0: none), the token
          doc,        \* the document each tab shows
          uses,       \* how many requests the user has started
          net,        \* what each tab waits for: a response, or a redirect to be followed
          latest,     \* history: the tab whose page came last with a token, and the secret
                      \* of the process that rendered it
          overlapped  \* history: two first visits overlapped

browser == <<jar, doc, uses, net, latest, overlapped>>
browserVars == <<rotation, browser>>

NoToken == [secret |-> 0, nonce |-> 0]
Token == [secret: Secret, nonce: Nonce] \cup {NoToken}

\* "items" stands for every page of a signed-in user, "post" for a GET of a path that
\* only accepts POST.  "search" and "write" are htmx requests, the others navigate.
Gets == {"home", "login", "items", "post", "search"}

\* The hidden field of a page is its token; that of the login form is left out, because
\* POST /login does not look at it.
Items(token) == [kind |-> "items", token |-> token]
Login == [kind |-> "login"]
NoForms == [kind |-> "none"]     \* an empty tab or an error page
Docs == [kind: {"items"}, token: Token \ {NoToken}] \cup {Login, NoForms}

Idle == [state |-> "idle"]
Follow(route) == [state |-> "redirected", route |-> route]

\* A response sets at most one cookie.
NoCookie == [name |-> "none"]
SessionCookie(secret) == [name |-> "session", secret |-> secret]
CsrfCookie(p, token) == [name |-> "csrf", token |-> token, by |-> config[p].current]

\* A response: the cookie it sets, and the document it brings or the redirect it is.
Response(document, next, cookie, refused) ==
    [state |-> "arriving", doc |-> document, then |-> next, cookie |-> cookie, refused |-> refused]
Shows(document, cookie) == Response(document, Idle, cookie, FALSE)
Goes(t, route, cookie) == Response(doc[t], Follow(route), cookie, FALSE)
CsrfError(document) == Response(document, Idle, NoCookie, TRUE)

NoPage == [tab |-> Nobody, by |-> 0]

BrowserInit ==
    /\ RotationInit
    /\ jar = [session |-> 0, csrf |-> NoToken]
    /\ doc = [t \in Tab |-> NoForms] /\ uses = 0 /\ net = [t \in Tab |-> Idle]
    /\ latest = NoPage /\ overlapped = FALSE

----------------------------------------------------------------------------------
\* get_current_user_optional: the session verifies under one of the secrets.
SignedIn(p) == jar.session # 0 /\ Readable(p, jar.session)

BouncedByCookie(p) == jar.session # 0   \* faulty: whoever has a cookie is signed in
\* login_form sends a signed-in user on.
Bounced(p) == SignedIn(p)

\* Unlike sessions and seeds, CSRF tokens are good under the current secret only.
Valid(p, token) == token # NoToken /\ token.secret = config[p].current

Shown(document) == IF document.kind = "items" THEN {document.token} ELSE {}
Carried(n) ==
    IF n.state # "arriving" THEN {}
    ELSE Shown(n.doc) \cup (IF n.cookie.name = "csrf" THEN {n.cookie.token} ELSE {})

\* issue_token: a value nobody holds.
InUse ==
    {jar.csrf} \cup UNION {Shown(doc[t]) \cup Carried(net[t]) : t \in Tab}
Free(p) == {n \in Nonce : [secret |-> config[p].current, nonce |-> n] \notin InUse}
Issued(p) == [secret |-> config[p].current, nonce |-> CHOOSE n \in Free(p) : TRUE]

TokenOfCookie(p) == jar.csrf     \* faulty: also when there is none
TokenAlwaysNew(p) == Issued(p)   \* faulty: every page gets a token of its own
TokenUnverified(p) ==            \* faulty: a superseded token is used again
    IF jar.csrf # NoToken THEN jar.csrf ELSE Issued(p)
TokenFor(p) == IF Valid(p, jar.csrf) THEN jar.csrf ELSE Issued(p)

AttachedAnother(p, document, token) ==   \* faulty: a token of its own for the cookie
    Shows(document, CsrfCookie(p, Issued(p)))
\* A document, and the token of its hidden field attached to the response as the cookie.
Attached(p, document, token) == Shows(document, CsrfCookie(p, token))
Page(p) == Attached(p, Items(TokenFor(p)), TokenFor(p))

LoginRequired(t) == Goes(t, "login", NoCookie)

\* The first request of each tab races the others for the token.
Races(t) == jar.csrf = NoToken /\ \E u \in Tab \ {t} : net[u].state = "arriving"

Get(t, p, route) ==
    CASE route = "home" -> {Goes(t, IF SignedIn(p) THEN "items" ELSE "login", NoCookie)}
      [] route = "login" -> {IF Bounced(p) THEN Goes(t, "items", NoCookie)
                               ELSE Attached(p, Login, TokenFor(p))}
      [] route = "items" -> {IF SignedIn(p) THEN Page(p) ELSE LoginRequired(t)}
      [] route = "search" -> {IF SignedIn(p) THEN Attached(p, doc[t], TokenFor(p)) ELSE LoginRequired(t)}
      [] route = "post" -> {Shows(NoForms, NoCookie)}   \* 405

\* The user comes back to the path LoginRequiredError remembered, which may be that of a
\* POST.  A failed sign-in renders the form again and attaches nothing.
LoginSubmit(t, p) ==
    {Goes(t, path, SessionCookie(config[p].current)) : path \in {"items", "post"}}
    \cup {Shows(Login, NoCookie), Shows(NoForms, NoCookie)}   \* 401, 429

\* verify.  Plain forms submit the hidden field; app.js adds the token of the jar as a
\* header to htmx forms, and the header prevails.
Field(t, route) == IF route = "write" THEN jar.csrf ELSE doc[t].token
Accepts(t, p, route) ==
    \/ jar.session = 0    \* nothing to protect
    \/ jar.csrf # NoToken /\ Field(t, route) = jar.csrf /\ Valid(p, jar.csrf)

\* csrf.verify runs before the user is looked up, and that before the route.
Post(t, p, route) ==
    CASE ~Accepts(t, p, route) -> {CsrfError(IF route = "write" THEN doc[t] ELSE NoForms)}
      [] Accepts(t, p, route) /\ route = "logout" -> {Goes(t, "login", SessionCookie(0))}
      [] Accepts(t, p, route) /\ route # "logout" /\ ~SignedIn(p) -> {LoginRequired(t)}
      [] Accepts(t, p, route) /\ route = "write" /\ SignedIn(p) ->     \* created; card or banner
             {Goes(t, "items", NoCookie), Shows(doc[t], NoCookie)}
      [] Accepts(t, p, route) /\ route = "form" /\ SignedIn(p) ->      \* registered; 403 or 422
             {Page(p), Shows(NoForms, NoCookie)}

\* Process p answers a request that carries the cookies of the moment.
Handle(t, p, route) ==
    /\ \E response \in IF route \in Gets THEN Get(t, p, route)
                       ELSE IF route = "signin" THEN LoginSubmit(t, p) ELSE Post(t, p, route) :
        net' = [net EXCEPT ![t] = response]
    /\ overlapped' = (overlapped \/ Races(t))
    /\ UNCHANGED <<rotation, jar, doc, latest>>

\* What the user can do with a tab: open a page in it, or use what it shows.
Choices(t) ==
    {"home", "login", "items"} \cup
    CASE doc[t].kind = "none" -> {}
      [] doc[t].kind = "login" -> {"signin"}
      [] doc[t].kind = "items" -> {"search", "logout", "form", "write"}

Use(t) ==
    /\ net[t] = Idle /\ uses < MaxUses
    /\ \E route \in Choices(t), p \in Process : Handle(t, p, route)
    /\ uses' = uses + 1

FollowRedirect(t) ==
    /\ net[t].state = "redirected"
    /\ \E p \in Process : Handle(t, p, net[t].route)
    /\ UNCHANGED uses

\* The response arrives.
Arrive(t) ==
    LET response == net[t] IN
    /\ response.state = "arriving"
    /\ jar' = [session |-> IF response.cookie.name = "session" THEN response.cookie.secret ELSE jar.session,
               csrf    |-> IF response.cookie.name = "csrf" THEN response.cookie.token ELSE jar.csrf]
    /\ doc' = [doc EXCEPT ![t] = response.doc]
    /\ net' = [net EXCEPT ![t] = response.then]
    /\ latest' = IF response.cookie.name # "csrf" THEN latest
                 ELSE IF response.doc = doc[t] THEN NoPage
                 ELSE [tab |-> t, by |-> response.cookie.by]
    /\ UNCHANGED <<rotation, uses, overlapped>>

RotateSecret == (Introduce \/ Retire \/ \E p \in Process : Restart(p)) /\ UNCHANGED browser

BrowserNext == RotateSecret \/ \E t \in Tab : Use(t) \/ FollowRedirect(t) \/ Arrive(t)

BrowserSpec == BrowserInit /\ [][BrowserNext]_browserVars

\* Redirects are followed and responses arrive; the user and the operator need not act.
FairSpec == BrowserSpec /\ \A t \in Tab : WF_browserVars(FollowRedirect(t)) /\ WF_browserVars(Arrive(t))

----------------------------------------------------------------------------------
Redirects == {Follow(route) : route \in Gets}
Cookies == {NoCookie} \cup [name: {"session"}, secret: Secret \cup {0}]
               \cup [name: {"csrf"}, token: Token \ {NoToken}, by: Secret]
Responses == [state: {"arriving"}, doc: Docs, then: {Idle} \cup Redirects, cookie: Cookies, refused: BOOLEAN]

\* Every variable has its type: a page always has a token, and a fresh one was found
\* whenever it was needed.
BrowserTypeOK ==
    /\ RotationTypeOK
    /\ jar \in [session: Secret \cup {0}, csrf: Token] /\ doc \in [Tab -> Docs] /\ uses \in 0..MaxUses
    /\ net \in [Tab -> {Idle} \cup Redirects \cup Responses]
    /\ latest \in [tab: Tab, by: Secret] \cup {NoPage} /\ overlapped \in BOOLEAN

\* The page that arrived last can be submitted: its hidden field is the token of the jar,
\* and the process that rendered it accepts it, whatever token the browser came with and
\* whatever was in flight for other tabs.
LatestPageWorks ==
    latest # NoPage /\ doc[latest.tab].kind = "items" =>
        doc[latest.tab].token = jar.csrf /\ jar.csrf.secret = latest.by

\* token_for uses the cookie again, so that pages opened side by side, before and after
\* signing in and out, stay submittable for as long as the browser keeps its cookies: a
\* form is refused only if two first visits overlapped or the secret has been replaced.
OldPagesWork ==
    (\E t \in Tab : net[t].state = "arriving" /\ net[t].refused) => overlapped \/ release.current > 1

\* A browser is never sent in circles between the login page and the others: once the
\* processes agree on the secrets every request ends with a document, also for a browser
\* whose cookie was signed under a secret that has been retired.
RedirectsEnd == <>[]RolledOut => \A t \in Tab : [](net[t] # Idle => <>(net[t] = Idle))

\* Along any path through the pages, by any processes, the browser and the pages it shows
\* stay well formed, and a form is refused only for one of the reasons OldPagesWork names.
PagesKeepWorking == BrowserTypeOK /\ OldPagesWork
===================================================================================
