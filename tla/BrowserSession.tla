--------------------------- MODULE BrowserSession ---------------------------
(***************************************************************************)
(* Sessions: the tokens of the server (backend/app/auth), the cookies of a *)
(* browser with several tabs of the React frontend (frontend/src/auth.tsx, *)
(* api.ts) and the workbench, and an API client that sends its token as a  *)
(* bearer.                                                                 *)
(*                                                                         *)
(* A request carries the cookies of the moment it is sent.  The server     *)
(* loads the token, then writes its activity and runs the handler.  Tabs   *)
(* share the cookies, and each remembers on its own who has signed in.     *)
(* The cookies botq_session and botq_csrf are set and deleted together.    *)
(* Sign-out stands for all the writes of the frontend: they take the same  *)
(* way through api() and validate_cookie_csrf.                             *)
(***************************************************************************)
EXTENDS Naturals, Sequences, FiniteSets

CONSTANTS
    Tabs,        \* tabs of the React frontend in one browser
    Bench,       \* the workbench in the same browser
    Cli,         \* the API client
    Users,
    Leavers,     \* users an administrator deactivates and activates again
    MaxTokens,   \* bounds on the tokens issued and
    MaxCalls,    \* on the requests under way
    None

VARIABLES
    owner,       \* the user of each token, in the order of issue
    row,         \* what each token's row says: live, revoked, expired
    active,      \* users that are active
    jar,         \* the token in the browser's cookie botq_session
    bearer,      \* the token of the API client
    shown,       \* each tab's session: the user it shows
    loading,     \* tabs that wait for their first answer
    call,        \* the requests under way, two at most from each page
    crossed      \* tabs that were signed in while their probe was out, or
                 \* whose cookie another page changed (for the properties only)

vars == <<owner, row, active, jar, bearer, shown, loading, call, crossed>>

ASSUME SessionAssumption ==
    /\ Bench \notin Tabs /\ Cli \notin Tabs /\ Bench # Cli
    /\ None \notin Users \cup Nat /\ Leavers \subseteq Users
    /\ MaxTokens \in Nat /\ MaxCalls \in Nat

Tokens == 1 .. MaxTokens
Pages  == Tabs \cup {Bench, Cli}

\* A page's request for the session, and the one its user has made.
Probe(p) == <<p, "probe">>
Act(p)   == <<p, "act">>
Slots    == (Pages \X {"probe", "act"}) \ {Probe(Bench)}

Calls == [op : {"me", "login", "logout"}, token : Tokens \cup {None},
          user : Users \cup {None}, csrf : BOOLEAN,
          step : {"sent", "loaded", "answered"},
          got : Tokens \cup Users \cup {None},
          ended : BOOLEAN]

ASSUME NoCallAssumption == None \notin Calls

TypeOK ==
    /\ owner \in Seq(Users) /\ Len(owner) <= MaxTokens
    /\ row \in [Tokens -> {"live", "revoked", "expired"}]
    /\ active \subseteq Users
    /\ jar \in DOMAIN owner \cup {None}
    /\ bearer \in DOMAIN owner \cup {None}
    /\ shown \in [Tabs -> Users \cup {None}]
    /\ loading = {p \in Tabs : call[Probe(p)] # None}
    /\ call \in [Slots -> Calls \cup {None}]
    /\ crossed \subseteq Tabs

-----------------------------------------------------------------------------
(* The server.                                                             *)

\* is_valid, and the user of the token is active.
Valid(t) == t # None /\ row[t] = "live" /\ owner[t] \in active

Answer(s, got) == call' = [call EXCEPT ![s].step = "answered", ![s].got = got]

\* load_context finds the token ...
Load(s) ==
    /\ call[s] # None /\ call[s].op # "login" /\ call[s].step = "sent"
    /\ Valid(call[s].token)
    /\ call' = [call EXCEPT ![s].step = "loaded"]
    /\ UNCHANGED <<owner, row, active, jar, bearer, shown, loading, crossed>>

\* ... or refuses the request.
Refuse(s) ==
    /\ call[s] # None /\ call[s].op # "login" /\ call[s].step = "sent"
    /\ ~Valid(call[s].token)
    /\ Answer(s, None)
    /\ UNCHANGED <<owner, row, active, jar, bearer, shown, loading, crossed>>

\* Mutant of Touched: every column of the loaded row is written.
TouchedWhole(t) == "live"

\* touch writes last_used_at and no other column of the row it has loaded.
Touched(t) == row[t]

\* validate_cookie_csrf: only the cookie needs it.
CsrfChecked(s) == s[1] = Cli \/ call[s].csrf

\* The handler, me or logout.
Serve(s) ==
    /\ call[s] # None /\ call[s].step = "loaded"
    /\ LET t == call[s].token
       IN  IF call[s].op = "me"
           THEN Answer(s, owner[t]) /\ row' = [row EXCEPT ![t] = Touched(t)]
           ELSE IF CsrfChecked(s)
           THEN Answer(s, t) /\ row' = [row EXCEPT ![t] = "revoked"]
           ELSE Answer(s, None) /\ row' = [row EXCEPT ![t] = Touched(t)]
    /\ UNCHANGED <<owner, active, jar, bearer, shown, loading, crossed>>

\* login_local, with the right password.
IssueToken(s) ==
    /\ call[s] # None /\ call[s].op = "login" /\ call[s].step = "sent"
    /\ call[s].user \in active
    /\ Len(owner) < MaxTokens
    /\ owner' = Append(owner, call[s].user)
    /\ Answer(s, Len(owner) + 1)
    /\ UNCHANGED <<row, active, jar, bearer, shown, loading, crossed>>

\* The password is wrong, the user not active, or the answer gets lost: whoever
\* wants to sign in sees an error.
SignInFailed(s) ==
    /\ call[s] # None /\ call[s].op = "login"
    /\ call' = [call EXCEPT ![s] = None]
    /\ UNCHANGED <<owner, row, active, jar, bearer, shown, loading, crossed>>

\* A token's expires_at passes.
Expire(t) ==
    /\ t \in DOMAIN owner /\ row[t] = "live"
    /\ row' = [row EXCEPT ![t] = "expired"]
    /\ UNCHANGED <<owner, active, jar, bearer, shown, loading, call, crossed>>

\* update_org_user; the tokens stay as they are.
SetActive(u) ==
    /\ active' = IF u \in active THEN active \ {u} ELSE active \cup {u}
    /\ UNCHANGED <<owner, row, jar, bearer, shown, loading, call, crossed>>

-----------------------------------------------------------------------------
(* The browser.                                                            *)

\* The cookies the server sets, none of them for the path of a page.
Cookies == {[name |-> "botq_session", httpOnly |-> TRUE, path |-> "/api/v1"],
            [name |-> "botq_csrf", httpOnly |-> FALSE, path |-> "/api/v1"]}

\* csrfToken: what a page finds in document.cookie.
CsrfFound ==
    /\ jar # None
    /\ \E c \in Cookies : ~c.httpOnly /\ c.path = "/" /\ c.name = "csrf_token"

NotTooMany == Cardinality({s \in Slots : call[s] # None}) < MaxCalls

Sent(op, t, u, csrf) ==
    [op |-> op, token |-> t, user |-> u, csrf |-> csrf, step |-> "sent",
     got |-> None, ended |-> t # None /\ row[t] # "live"]

\* Mutant of Jar: a cookie that is there is not replaced.
JarKept(t) == IF jar = None THEN t ELSE jar

\* The cookies after an answer of login.
Jar(t) == t

\* max_age: the cookie runs out, a moment after its token.  No page hears of it.
CookieExpires ==
    /\ jar # None /\ row[jar] = "expired"
    /\ jar' = None
    /\ UNCHANGED <<owner, row, active, bearer, shown, loading, call, crossed>>

\* Mutant of Mount: loading is false at first.
MountAtOnce(p, cookie) ==
    /\ shown' = [shown EXCEPT ![p] = None]
    /\ loading' = loading \ {p}
    /\ call' = [call EXCEPT ![Probe(p)] = Sent("me", cookie, None, FALSE),
                            ![Act(p)] = None]

\* AuthProvider is mounted with the cookies there are: the session is not known, and
\* the page asks for it.  A reload forgets all requests.
Mount(p, cookie) ==
    /\ shown' = [shown EXCEPT ![p] = None]
    /\ loading' = loading \cup {p}
    /\ call' = [call EXCEPT ![Probe(p)] = Sent("me", cookie, None, FALSE),
                            ![Act(p)] = None]

Open(p) ==
    /\ p \notin loading /\ NotTooMany
    /\ Mount(p, jar)
    /\ crossed' = crossed \ {p}
    /\ UNCHANGED <<owner, row, active, jar, bearer>>

\* Mutant of Settled: a failure does not end the wait.
SettledIfFound(p, user) == IF user = None THEN loading ELSE loading \ {p}

\* finally
Settled(p, user) == loading \ {p}

\* getSession().then(setSession).catch(() => setSession(null)).finally(...)
Probed(p, user) ==
    /\ shown' = [shown EXCEPT ![p] = user]
    /\ loading' = Settled(p, user)
    /\ call' = [call EXCEPT ![Probe(p)] = None]
    /\ UNCHANGED <<owner, row, active, jar, bearer, crossed>>

ProbeAnswered(p) ==
    LET c == call[Probe(p)]
    IN  c # None /\ c.step = "answered" /\ Probed(p, c.got)

ProbeLost(p) == call[Probe(p)] # None /\ Probed(p, None)

\* signIn; the login form does not wait for the probe.
SignIn(p, u) ==
    /\ shown[p] = None
    /\ call[Act(p)] = None /\ NotTooMany
    /\ call' = [call EXCEPT ![Act(p)] = Sent("login", None, u, FALSE)]
    /\ UNCHANGED <<owner, row, active, jar, bearer, shown, loading, crossed>>

SignedIn(p) ==
    LET c == call[Act(p)]
    IN  /\ c # None /\ c.op = "login" /\ c.step = "answered"
        /\ jar' = Jar(c.got)
        /\ shown' = [shown EXCEPT ![p] = owner[c.got]]
        /\ call' = [call EXCEPT ![Act(p)] = None]
        /\ crossed' = IF p \in loading THEN Tabs ELSE Tabs \ {p}
        /\ UNCHANGED <<owner, row, active, bearer, loading>>

\* signOut
SignOut(p) ==
    /\ shown[p] # None
    /\ call[Act(p)] = None /\ NotTooMany
    /\ call' = [call EXCEPT ![Act(p)] = Sent("logout", jar, None, CsrfFound)]
    /\ UNCHANGED <<owner, row, active, jar, bearer, shown, loading, crossed>>

\* Whatever the answer is, and if there is none: the page is loaded again.
SignedOut(p) ==
    LET c == call[Act(p)]
    IN  /\ c # None /\ c.op = "logout"
        /\ IF c.got # None
           THEN Mount(p, None) /\ jar' = None /\ crossed' = Tabs \ {p}
           ELSE Mount(p, jar) /\ UNCHANGED jar /\ crossed' = crossed \ {p}
        /\ UNCHANGED <<owner, row, active, bearer>>

\* oidc_callback, answered with a redirect to the frontend.
OidcSignIn(p, u) ==
    /\ u \in active
    /\ Len(owner) < MaxTokens /\ NotTooMany
    /\ owner' = Append(owner, u)
    /\ jar' = Len(owner) + 1
    /\ Mount(p, Len(owner) + 1)
    /\ crossed' = Tabs \ {p}
    /\ UNCHANGED <<row, active, bearer>>

\* login of the workbench; the answer to it sets the cookies too.  (Its sign-out
\* only drops its own copy of the token.)
BenchSignIn(u) ==
    /\ call[Act(Bench)] = None /\ NotTooMany
    /\ call' = [call EXCEPT ![Act(Bench)] = Sent("login", None, u, FALSE)]
    /\ UNCHANGED <<owner, row, active, jar, bearer, shown, loading, crossed>>

BenchAnswered ==
    LET c == call[Act(Bench)]
    IN  /\ c # None /\ c.step = "answered"
        /\ jar' = Jar(c.got)
        /\ crossed' = Tabs
        /\ call' = [call EXCEPT ![Act(Bench)] = None]
        /\ UNCHANGED <<owner, row, active, bearer, shown, loading>>

-----------------------------------------------------------------------------
(* The API client signs in, calls, and signs out.                          *)

CliAsks(s) ==
    /\ s[1] = Cli /\ call[s] = None /\ NotTooMany
    /\ \E c \in IF s = Probe(Cli)
                THEN {Sent("me", bearer, None, FALSE)}
                ELSE {Sent("logout", bearer, None, FALSE)}
                         \cup {Sent("login", None, u, FALSE) : u \in Users} :
           /\ c.op # "login" => bearer # None
           /\ call' = [call EXCEPT ![s] = c]
    /\ UNCHANGED <<owner, row, active, jar, bearer, shown, loading, crossed>>

CliAnswered(s) ==
    /\ s[1] = Cli /\ call[s] # None /\ call[s].step = "answered"
    /\ bearer' = IF call[s].op = "login" THEN call[s].got ELSE bearer
    /\ call' = [call EXCEPT ![s] = None]
    /\ UNCHANGED <<owner, row, active, jar, shown, loading, crossed>>

-----------------------------------------------------------------------------
Init ==
    /\ owner = <<>>
    /\ row = [t \in Tokens |-> "live"]
    /\ active = Users
    /\ jar = None
    /\ bearer = None
    /\ shown = [p \in Tabs |-> None]
    /\ loading = {}
    /\ call = [s \in Slots |-> None]
    /\ crossed = {}

Server(s) == Load(s) \/ Refuse(s) \/ Serve(s) \/ IssueToken(s) \/ SignInFailed(s)

Tab(p) ==
    \/ Open(p) \/ ProbeAnswered(p) \/ ProbeLost(p)
    \/ (\E u \in Users : SignIn(p, u) \/ OidcSignIn(p, u)) \/ SignedIn(p)
    \/ SignOut(p) \/ SignedOut(p)

Next ==
    \/ \E s \in Slots : Server(s) \/ CliAsks(s) \/ CliAnswered(s)
    \/ \E t \in Tokens : Expire(t)
    \/ \E u \in Leavers : SetActive(u)
    \/ \E u \in Users : BenchSignIn(u)
    \/ BenchAnswered
    \/ CookieExpires
    \/ \E p \in Tabs : Tab(p)

Spec == Init /\ [][Next]_vars

\* The server works off the probes, and an answer, or the failure of the
\* request, reaches the page.
Fairness ==
    \A p \in Tabs : WF_vars(Server(Probe(p))) /\ WF_vars(ProbeAnswered(p))

FairSpec == Spec /\ Fairness

-----------------------------------------------------------------------------
\* A request sent with a token that has been revoked or has expired is never
\* let in, although other requests with the token were under way when it was
\* revoked and write their copy of its row afterwards.
EndedStaysOut ==
    \A s \in Slots : call[s] # None /\ call[s].step = "loaded" => ~call[s].ended

\* The user a tab shows is the one its requests are made for, or was so until
\* the token ended and the cookie ran out with it: then the requests carry no
\* cookie, but never somebody else's, and while the session lives they carry
\* its own.  Excepted is a tab that was signed in while its first answer was
\* out, and one whose cookie another page of the browser has changed since.
ShownUnlessCrossed ==
    \A p \in Tabs \ crossed : shown[p] # None =>
        \E t \in DOMAIN owner : /\ owner[t] = shown[p]
                               /\ \/ jar = t
                                  \/ jar = None /\ row[t] # "live"

\* A tab does not wait for ever to know who has signed in, whatever the answer.
LoadingEnds == \A p \in Tabs : p \in loading ~> p \notin loading
=============================================================================
