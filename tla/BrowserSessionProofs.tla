------------------------ MODULE BrowserSessionProofs ------------------------
(***************************************************************************)
(* Proofs about BrowserSession for every number of tabs, users, tokens and *)
(* requests under way: the types, that an ended token is never let in,     *)
(* that a tab shows whom its requests are made for, and that its sign-out  *)
(* ends no token.                                                          *)
(***************************************************************************)
EXTENDS BrowserSession, TLAPS

USE SessionAssumption

-----------------------------------------------------------------------------
(* The inductive invariant.                                                *)

\* What a page may ask for in each of its slots.
Asks(s) ==
    IF s[2] = "probe" THEN {"me"} ELSE IF s[1] = Bench THEN {"login"} ELSE {"login", "logout"}

\* A request is one its page makes; a login carries no token, and its answer is
\* one that was issued.  Any other request carries an issued token or none, was
\* let in only with a token that had not ended when it was sent, and is told
\* nobody but the owner of its token.
Sound(s) ==
    call[s] # None =>
        /\ call[s].op \in Asks(s)
        /\ call[s].op = "login" =>
               /\ call[s].user \in Users /\ call[s].token = None
               /\ call[s].step # "loaded"
               /\ call[s].step = "answered" => call[s].got \in DOMAIN owner
        /\ call[s].token \in DOMAIN owner \cup {None}
        /\ call[s].step = "loaded" => call[s].token # None /\ ~call[s].ended
        /\ call[s].op = "me" /\ call[s].step = "answered" /\ call[s].got # None =>
               call[s].token # None /\ call[s].got = owner[call[s].token]
        /\ call[s].ended => call[s].token # None /\ row[call[s].token] # "live"

CallsSound == \A s \in Slots : Sound(s)

\* The cookie, or one that has run out with its token.
Cookie(t) == \/ t = jar
             \/ jar = None /\ t \in DOMAIN owner /\ row[t] # "live"

\* A tab that is not crossed shows the user of the cookie, and asks for it.
TabSound(p) ==
    /\ shown[p] # None => \E t \in DOMAIN owner : owner[t] = shown[p] /\ Cookie(t)
    /\ call[Probe(p)] # None => Cookie(call[Probe(p)].token)

SessionInv == TypeOK /\ CallsSound /\ \A p \in Tabs \ crossed : TabSound(p)

-----------------------------------------------------------------------------
(* Slots, and tokens issued one after another.                             *)

\* A tab has two slots, and shares neither with another page.
LEMMA TabSlots ==
    ASSUME NEW p \in Tabs
    PROVE  /\ Probe(p) \in Slots /\ Act(p) \in Slots
           /\ p # Bench /\ p # Cli /\ Probe(p) # Act(p)
           /\ \A q \in Pages \ {p} : Probe(q) \notin {Probe(p), Act(p)}
  BY DEF Slots, Pages, Probe, Act

\* The workbench has one.
LEMMA BenchSlot == Act(Bench) \in Slots
  BY DEF Slots, Pages, Probe, Act

\* Tokens are issued within the bound, and none of them is None.
LEMMA IssuedTokens ==
    ASSUME TypeOK
    PROVE  DOMAIN owner \subseteq Tokens /\ None \notin Tokens /\ None \notin DOMAIN owner
  BY DEF TypeOK, Tokens

\* A token that is issued is the next one, and leaves the others as they are.
LEMMA Issued ==
    ASSUME TypeOK, NEW u \in Users, Len(owner) < MaxTokens, owner' = Append(owner, u)
    PROVE  /\ owner' \in Seq(Users) /\ Len(owner') <= MaxTokens
           /\ Len(owner) + 1 \in DOMAIN owner' /\ Len(owner) + 1 \in Tokens
           /\ owner'[Len(owner) + 1] = u
           /\ \A t \in DOMAIN owner : t \in DOMAIN owner' /\ owner'[t] = owner[t]
  BY DEF TypeOK, Tokens

\* Tokens keep their owners, and none that has ended is live again.
History ==
    /\ owner' \in Seq(Users) /\ Len(owner') <= MaxTokens
    /\ row' \in [Tokens -> {"live", "revoked", "expired"}]
    /\ \A t \in DOMAIN owner : t \in DOMAIN owner' /\ owner'[t] = owner[t]
    /\ \A t \in Tokens : row[t] # "live" => row'[t] # "live"

\* The requests change the tokens' tables in no other way.
LEMMA HistoryStep == ASSUME TypeOK, CallsSound, [Next]_vars PROVE History
  <1> USE DEF History
  <1>1. ASSUME UNCHANGED <<owner, row>> PROVE History
    BY <1>1 DEF TypeOK
  <1>2. ASSUME NEW s \in Slots, Server(s) PROVE History
    <2>1. CASE Serve(s)
      BY <2>1 DEF Serve, Touched, TypeOK
    <2>2. CASE IssueToken(s)
      <3>1. call[s].user \in Users
        BY <2>2 DEF IssueToken, TypeOK
      <3> QED
        BY <2>2, <3>1, Issued DEF IssueToken, TypeOK
    <2> QED
      BY <1>1, <1>2, <2>1, <2>2 DEF Server, Load, Refuse, SignInFailed
  <1>3. ASSUME NEW t \in Tokens, Expire(t) PROVE History
    BY <1>3 DEF Expire, TypeOK
  <1>4. ASSUME NEW p \in Tabs, Tab(p) PROVE History
    <2>1. ASSUME NEW u \in Users, OidcSignIn(p, u) PROVE History
      BY <2>1, Issued DEF OidcSignIn, TypeOK
    <2> QED
      BY <1>1, <1>4, <2>1
         DEF Tab, Open, ProbeAnswered, ProbeLost, Probed, SignIn, SignedIn, SignOut, SignedOut
  <1> QED
    BY <1>1, <1>2, <1>3, <1>4
       DEF Next, CliAsks, CliAnswered, SetActive, BenchSignIn, BenchAnswered, CookieExpires, vars

-----------------------------------------------------------------------------
(* The requests under way.                                                 *)

\* A request that a step leaves alone stays sound.
LEMMA UntouchedSound ==
    ASSUME TypeOK, History, NEW s \in Slots, Sound(s), call'[s] = call[s]
    PROVE  Sound(s)'
  <1>1. DOMAIN owner \subseteq Tokens
    BY IssuedTokens
  <1> QED
    BY <1>1 DEF Sound, History, Asks

\* Nothing is wrong with a slot that is empty.
LEMMA EmptySound == ASSUME NEW s \in Slots, call'[s] = None PROVE Sound(s)'
  BY DEF Sound

\* A request that has just been sent is sound.
LEMMA SentSound ==
    ASSUME TypeOK, NEW s \in Slots, NEW op \in Asks(s), NEW t, NEW u, NEW csrf \in BOOLEAN,
           t \in DOMAIN owner' \cup {None}, DOMAIN owner' \subseteq Tokens,
           u \in Users \cup {None}, op = "login" => t = None /\ u \in Users,
           row' = row, call'[s] = Sent(op, t, u, csrf)
    PROVE  Sent(op, t, u, csrf) \in Calls /\ Sound(s)'
  <1>1. op \in {"me", "login", "logout"}
    BY DEF Asks
  <1>2. Sent(op, t, u, csrf) \in Calls
    BY <1>1 DEF Sent, Calls
  <1>3. /\ call'[s].op = op /\ call'[s].token = t /\ call'[s].user = u
        /\ call'[s].step = "sent"
        /\ call'[s].ended = (t # None /\ row[t] # "live")
    BY DEF Sent
  <1>4. Sound(s)'
    BY <1>3 DEF Sound, Asks
  <1> QED
    BY <1>2, <1>4

\* After the step every slot holds a sound request or none.
CallsKept == CallsSound' /\ call' \in [Slots -> Calls \cup {None}]

\* A step that changes one slot answers for that slot only.
LEMMA OneCall ==
    ASSUME TypeOK, CallsSound, History, NEW s \in Slots, NEW c \in Calls \cup {None},
           call' = [call EXCEPT ![s] = c], Sound(s)'
    PROVE  CallsKept
  <1>1. \A t \in Slots \ {s} : call'[t] = call[t]
    BY DEF TypeOK
  <1>2. \A t \in Slots : Sound(t)'
    BY <1>1, UntouchedSound DEF CallsSound
  <1> QED
    BY <1>2 DEF CallsKept, CallsSound, TypeOK

\* The server keeps a request sound as it loads its token, refuses or serves it,
\* and only a login may end without an answer.
LEMMA ServerCalls ==
    ASSUME TypeOK, CallsSound, History, NEW s \in Slots, Server(s)
    PROVE  CallsKept /\ (call[s].op # "login" => call'[s] # None)
  <1> DEFINE c == call[s]
  <1>1. c # None /\ c \in Calls /\ Sound(s)
    BY DEF Server, Load, Refuse, Serve, IssueToken, SignInFailed, TypeOK, CallsSound
  <1>2. DOMAIN owner \subseteq Tokens /\ None \notin DOMAIN owner
    BY IssuedTokens
  <1>3. CASE Load(s)
    <2>1. call' = [call EXCEPT ![s] = [c EXCEPT !.step = "loaded"]]
      BY <1>3 DEF Load
    <2>2. [c EXCEPT !.step = "loaded"] \in Calls
      BY <1>1 DEF Calls
    <2>3. ~c.ended /\ c.token # None /\ c.op # "login" /\ owner' = owner /\ row' = row
      BY <1>1, <1>3 DEF Load, Valid, Sound
    <2>4. call'[s] = [c EXCEPT !.step = "loaded"]
      BY <2>1 DEF TypeOK
    <2>5. Sound(s)'
      BY <1>1, <2>2, <2>3, <2>4 DEF Sound, Calls, Asks
    <2> QED
      BY <2>1, <2>2, <2>3, <2>4, <2>5, OneCall, NoCallAssumption
  <1>4. ASSUME NEW got \in Tokens \cup Users \cup {None}, Answer(s, got), c.op # "login",
               c.op = "me" /\ got # None => c.token # None /\ got = owner[c.token]
        PROVE  CallsKept /\ call'[s] # None
    <2>1. call' = [call EXCEPT ![s] = [c EXCEPT !.step = "answered", !.got = got]]
      BY <1>4 DEF Answer
    <2>2. [c EXCEPT !.step = "answered", !.got = got] \in Calls
      BY <1>1 DEF Calls
    <2>3. call'[s] = [c EXCEPT !.step = "answered", !.got = got]
      BY <2>1 DEF TypeOK
    <2>4. /\ call'[s].op = c.op /\ call'[s].token = c.token /\ call'[s].got = got
          /\ call'[s].step = "answered" /\ call'[s].ended = c.ended
      BY <1>1, <2>3 DEF Calls
    <2>5. Sound(s)'
      BY <1>1, <1>2, <1>4, <2>4 DEF Sound, History, Asks
    <2> QED
      BY <2>1, <2>2, <2>3, <2>4, <2>5, OneCall, NoCallAssumption
  <1>5. CASE Refuse(s)
    BY <1>4, <1>5 DEF Refuse
  <1>6. CASE Serve(s)
    <2>1. c.op # "login" /\ c.token \in DOMAIN owner
      BY <1>1, <1>6 DEF Serve, Sound
    <2>2. owner[c.token] \in Users
      BY <2>1 DEF TypeOK
    <2>3. CASE c.op = "me"
      <3>1. Answer(s, owner[c.token])
        BY <1>6, <2>3 DEF Serve
      <3>2. owner[c.token] \in Tokens \cup Users \cup {None} /\ c.token # None
        BY <1>2, <2>1, <2>2
      <3> QED
        BY <1>4, <2>1, <3>1, <3>2
    <2>4. CASE c.op # "me"
      BY <1>2, <1>4, <1>6, <2>1, <2>4 DEF Serve
    <2> QED
      BY <2>3, <2>4
  <1>7. CASE IssueToken(s)
    <2>1. call' = [call EXCEPT ![s] = [c EXCEPT !.step = "answered", !.got = Len(owner) + 1]]
      BY <1>7 DEF IssueToken, Answer
    <2>2. Len(owner) + 1 \in Tokens /\ Len(owner) + 1 \in DOMAIN owner'
      BY <1>1, <1>7, Issued DEF IssueToken, Sound
    <2>3. [c EXCEPT !.step = "answered", !.got = Len(owner) + 1] \in Calls
      BY <1>1, <2>2 DEF Calls
    <2>4. call'[s] = [c EXCEPT !.step = "answered", !.got = Len(owner) + 1]
      BY <2>1 DEF TypeOK
    <2>5. /\ call'[s].op = "login" /\ call'[s].token = c.token
          /\ call'[s].got = Len(owner) + 1 /\ call'[s].user = c.user
          /\ call'[s].step = "answered" /\ call'[s].ended = c.ended
      BY <1>1, <1>7, <2>4 DEF Calls, IssueToken
    <2>6. Sound(s)'
      BY <1>1, <1>7, <2>2, <2>5 DEF IssueToken, Sound, Asks
    <2> QED
      BY <1>7, <2>1, <2>3, <2>6, OneCall DEF IssueToken
  <1>8. CASE SignInFailed(s)
    <2>1. call' = [call EXCEPT ![s] = None]
      BY <1>8 DEF SignInFailed
    <2> QED
      BY <1>8, <2>1, OneCall, EmptySound DEF TypeOK, SignInFailed
  <1> QED
    BY <1>3, <1>5, <1>6, <1>7, <1>8 DEF Server

\* A page that is loaded asks for its session with the cookie there is.
LEMMA MountCalls ==
    ASSUME TypeOK, CallsSound, History, NEW p \in Tabs, NEW cookie \in DOMAIN owner' \cup {None},
           row' = row, Mount(p, cookie)
    PROVE  CallsKept
  <1> DEFINE c == Sent("me", cookie, None, FALSE)
  <1>1. /\ Probe(p) \in Slots /\ Act(p) \in Slots /\ Probe(p) # Act(p)
        /\ call' = [call EXCEPT ![Probe(p)] = c, ![Act(p)] = None]
    BY TabSlots DEF Mount
  <1>2. /\ call'[Probe(p)] = c /\ call'[Act(p)] = None
        /\ \A t \in Slots \ {Probe(p), Act(p)} : call'[t] = call[t]
    BY <1>1 DEF TypeOK
  <1>3. "me" \in Asks(Probe(p)) /\ DOMAIN owner' \subseteq Tokens
    BY DEF Asks, Probe, History, Tokens
  <1>4. c \in Calls /\ Sound(Probe(p))'
    BY <1>1, <1>2, <1>3, SentSound
  <1>5. Sound(Act(p))'
    BY <1>1, <1>2, EmptySound
  <1>6. \A t \in Slots \ {Probe(p), Act(p)} : Sound(t)'
    BY <1>2, UntouchedSound DEF CallsSound
  <1>7. CallsSound'
    BY <1>4, <1>5, <1>6 DEF CallsSound
  <1> QED
    BY <1>1, <1>4, <1>7 DEF CallsKept, TypeOK

\* However answers are timed, every slot holds a sound request or none.
LEMMA CallsStep == ASSUME TypeOK, CallsSound, [Next]_vars PROVE CallsKept
  <1> USE HistoryStep
  <1>1. ASSUME call' = call PROVE CallsKept
    BY <1>1, UntouchedSound DEF CallsSound, CallsKept, TypeOK
  <1>2. ASSUME NEW s \in Slots, call' = [call EXCEPT ![s] = None] PROVE CallsKept
    BY <1>2, OneCall, EmptySound DEF TypeOK
  <1>3. ASSUME NEW s \in Slots, NEW op \in Asks(s), NEW t \in DOMAIN owner \cup {None},
               NEW u \in Users \cup {None}, NEW csrf \in BOOLEAN,
               op = "login" => t = None /\ u \in Users, row' = row,
               call' = [call EXCEPT ![s] = Sent(op, t, u, csrf)]
        PROVE  CallsKept
    <2>1. t \in DOMAIN owner' \cup {None} /\ DOMAIN owner' \subseteq Tokens
      BY DEF History, Tokens
    <2>2. call'[s] = Sent(op, t, u, csrf)
      BY <1>3 DEF TypeOK
    <2>3. Sent(op, t, u, csrf) \in Calls /\ Sound(s)'
      BY <1>3, <2>1, <2>2, SentSound
    <2> QED
      BY <1>3, <2>3, OneCall
  <1>4. ASSUME NEW s \in Slots, Server(s) \/ CliAsks(s) \/ CliAnswered(s) PROVE CallsKept
    <2>1. CASE CliAsks(s)
      <3>1. bearer \in DOMAIN owner \cup {None} /\ row' = row
        BY <2>1 DEF CliAsks, TypeOK
      <3>2. CASE s = Probe(Cli)
        <4>1. "me" \in Asks(s) /\ call' = [call EXCEPT ![s] = Sent("me", bearer, None, FALSE)]
          BY <2>1, <3>2 DEF CliAsks, Asks, Probe
        <4> QED
          BY <1>3, <3>1, <4>1
      <3>3. CASE s # Probe(Cli)
        <4>1. Asks(s) = {"login", "logout"}
          BY <2>1, <3>3 DEF CliAsks, Asks, Slots, Pages, Probe
        <4>2. \/ call' = [call EXCEPT ![s] = Sent("logout", bearer, None, FALSE)]
              \/ \E u \in Users : call' = [call EXCEPT ![s] = Sent("login", None, u, FALSE)]
          <5> DEFINE Asked == {Sent("logout", bearer, None, FALSE)}
                                  \cup {Sent("login", None, u, FALSE) : u \in Users}
          <5>1. PICK c \in Asked : call' = [call EXCEPT ![s] = c]
            BY <2>1, <3>3, Zenon DEF CliAsks
          <5> QED
            BY <5>1
        <4> QED
          BY <1>3, <3>1, <4>1, <4>2
      <3> QED
        BY <3>2, <3>3
    <2>2. CASE CliAnswered(s)
      BY <1>2, <2>2 DEF CliAnswered
    <2> QED
      BY <1>4, <2>1, <2>2, ServerCalls
  <1>5. ASSUME NEW p \in Tabs, Tab(p) PROVE CallsKept
    <2> USE TabSlots
    <2>1. CASE Open(p)
      BY <2>1, MountCalls DEF Open, TypeOK
    <2>2. CASE ProbeAnswered(p) \/ ProbeLost(p)
      BY <1>2, <2>2 DEF ProbeAnswered, ProbeLost, Probed
    <2>3. ASSUME NEW u \in Users, SignIn(p, u) PROVE CallsKept
      <3>1. "login" \in Asks(Act(p))
        BY DEF Asks, Act
      <3> QED
        BY <1>3, <2>3, <3>1 DEF SignIn
    <2>4. ASSUME NEW u \in Users, OidcSignIn(p, u) PROVE CallsKept
      BY <2>4, Issued, MountCalls DEF OidcSignIn
    <2>5. CASE SignedIn(p)
      BY <1>2, <2>5 DEF SignedIn
    <2>6. CASE SignOut(p)
      <3>1. "logout" \in Asks(Act(p))
        BY DEF Asks, Act
      <3>2. CsrfFound \in BOOLEAN /\ jar \in DOMAIN owner \cup {None}
        BY DEF CsrfFound, TypeOK
      <3> QED
        BY <1>3, <2>6, <3>1, <3>2 DEF SignOut
    <2>7. CASE SignedOut(p)
      BY <2>7, MountCalls DEF SignedOut, TypeOK
    <2> QED
      BY <1>5, <2>1, <2>2, <2>3, <2>4, <2>5, <2>6, <2>7 DEF Tab
  <1>6. ASSUME NEW u \in Users, BenchSignIn(u) PROVE CallsKept
    <2>1. "login" \in Asks(Act(Bench))
      BY DEF Asks, Act
    <2> QED
      BY <1>3, <1>6, <2>1, BenchSlot DEF BenchSignIn
  <1>7. CASE BenchAnswered
    BY <1>2, <1>7, BenchSlot DEF BenchAnswered
  <1> QED
    BY <1>1, <1>4, <1>5, <1>6, <1>7 DEF Next, Expire, SetActive, CookieExpires, vars

-----------------------------------------------------------------------------
(* Types.                                                                  *)

\* The variables whose types are not those of the tokens' tables or requests.
PageTypes ==
    /\ active \subseteq Users
    /\ jar \in DOMAIN owner \cup {None}
    /\ bearer \in DOMAIN owner \cup {None}
    /\ shown \in [Tabs -> Users \cup {None}]
    /\ loading = {p \in Tabs : call[Probe(p)] # None}
    /\ crossed \subseteq Tabs

\* A step that leaves the pages alone, and no probe less or more.
LEMMA PagesUntouched ==
    ASSUME TypeOK, History, UNCHANGED <<active, jar, bearer, shown, loading, crossed>>,
           \A p \in Tabs : call'[Probe(p)] = None <=> call[Probe(p)] = None
    PROVE  PageTypes'
  BY DEF PageTypes, TypeOK, History

\* Mounting a tab, with a cookie that has been issued, keeps the types.
LEMMA MountPages ==
    ASSUME TypeOK, History, NEW p \in Tabs, NEW cookie \in DOMAIN owner' \cup {None}, row' = row,
           Mount(p, cookie), UNCHANGED <<active, bearer>>, crossed' \subseteq Tabs,
           jar' \in DOMAIN owner' \cup {None}
    PROVE  PageTypes'
  <1>1. shown' \in [Tabs -> Users \cup {None}] /\ bearer' \in DOMAIN owner' \cup {None}
    BY DEF Mount, TypeOK, History
  <1>2. call'[Probe(p)] = Sent("me", cookie, None, FALSE)
    BY TabSlots DEF Mount, TypeOK
  <1>3. call'[Probe(p)] # None
    <2>1. Sent("me", cookie, None, FALSE) \in Calls
      BY DEF Sent, Calls, History, Tokens
    <2> QED
      BY <1>2, <2>1, NoCallAssumption
  <1>4. \A q \in Tabs \ {p} : call'[Probe(q)] = call[Probe(q)]
    BY TabSlots DEF Mount, TypeOK, Pages
  <1>5. loading' = {q \in Tabs : call'[Probe(q)] # None}
    BY <1>3, <1>4 DEF Mount, TypeOK
  <1> QED
    BY <1>1, <1>5 DEF PageTypes, TypeOK

\* The server and the requests of the tabs leave the types of the pages alone.
LEMMA PagesStep == ASSUME TypeOK, CallsSound, [Next]_vars PROVE PageTypes'
  <1>1. History /\ CallsKept
    BY HistoryStep, CallsStep
  <1>2. ASSUME NEW s \in Slots, Server(s) PROVE PageTypes'
    <2>1. \A t \in Slots \ {s} : call'[t] = call[t]
      BY <1>2 DEF Server, Load, Refuse, Serve, IssueToken, SignInFailed, Answer, TypeOK
    <2>2. call[s] # None
      BY <1>2 DEF Server, Load, Refuse, Serve, IssueToken, SignInFailed
    <2>3. ASSUME NEW p \in Tabs PROVE call'[Probe(p)] = None <=> call[Probe(p)] = None
      <3>1. CASE s # Probe(p)
        BY <2>1, <3>1, TabSlots
      <3>2. CASE s = Probe(p)
        <4>1. call[s].op = "me"
          BY <2>2, <3>2 DEF CallsSound, Sound, Asks, Probe
        <4> QED
          BY <1>1, <1>2, <2>2, <3>2, <4>1, ServerCalls
      <3> QED
        BY <3>1, <3>2
    <2>4. UNCHANGED <<active, jar, bearer, shown, loading, crossed>>
      BY <1>2 DEF Server, Load, Refuse, Serve, IssueToken, SignInFailed
    <2> QED
      BY <1>1, <2>3, <2>4, PagesUntouched
  <1>3. ASSUME NEW s \in Slots, NEW c, call' = [call EXCEPT ![s] = c], s[2] = "act",
               UNCHANGED <<active, loading>>, jar' \in DOMAIN owner' \cup {None},
               bearer' \in DOMAIN owner' \cup {None}, shown' \in [Tabs -> Users \cup {None}],
               crossed' \subseteq Tabs
        PROVE  PageTypes'
    <2>1. \A p \in Tabs : call'[Probe(p)] = call[Probe(p)]
      <3>1. \A p \in Tabs : Probe(p) # s
        BY <1>3 DEF Probe
      <3> QED
        BY <1>3, <3>1, TabSlots DEF TypeOK
    <2> QED
      BY <1>3, <2>1 DEF PageTypes, TypeOK
  <1>4. ASSUME NEW s \in Slots, CliAsks(s) \/ CliAnswered(s) PROVE PageTypes'
    <2>1. \A p \in Tabs : call'[Probe(p)] = call[Probe(p)]
      <3>1. s[1] = Cli /\ \A p \in Tabs : Probe(p)[1] = p /\ p # Cli
        BY <1>4, TabSlots DEF CliAsks, CliAnswered, Probe
      <3>2. \A p \in Tabs : Probe(p) \in Slots \ {s}
        BY <3>1, TabSlots
      <3>3. \A q \in Slots \ {s} : call'[q] = call[q]
        BY <1>4 DEF CliAsks, CliAnswered, TypeOK
      <3> QED
        BY <3>2, <3>3
    <2>2. bearer' \in DOMAIN owner' \cup {None}
      BY <1>1, <1>4 DEF CliAsks, CliAnswered, CallsSound, Sound, History, TypeOK
    <2> QED
      BY <1>1, <1>4, <2>1, <2>2 DEF CliAsks, CliAnswered, PageTypes, TypeOK, History
  <1>5. ASSUME NEW p \in Tabs, Tab(p) PROVE PageTypes'
    <2> USE TabSlots
    <2>1. CASE Open(p)
      BY <1>1, <2>1, MountPages DEF Open, TypeOK, History
    <2>2. ASSUME NEW user \in Users \cup {None}, Probed(p, user) PROVE PageTypes'
      <3>1. /\ call'[Probe(p)] = None
            /\ \A q \in Tabs \ {p} : call'[Probe(q)] = call[Probe(q)]
        BY <2>2 DEF Probed, TypeOK, Pages
      <3>2. loading' = {q \in Tabs : call'[Probe(q)] # None}
        BY <2>2, <3>1 DEF Probed, Settled, TypeOK
      <3> QED
        BY <2>2, <3>2 DEF Probed, PageTypes, TypeOK
    <2>3. CASE ProbeAnswered(p)
      <3>1. call[Probe(p)].got \in Users \cup {None}
        BY <2>3 DEF ProbeAnswered, CallsSound, Sound, Asks, Probe, TypeOK
      <3> QED
        BY <2>2, <2>3, <3>1 DEF ProbeAnswered
    <2>4. CASE ProbeLost(p)
      BY <2>2, <2>4 DEF ProbeLost
    <2>5. ASSUME NEW u \in Users, SignIn(p, u) PROVE PageTypes'
      BY <1>1, <1>3, <2>5 DEF SignIn, Act, TypeOK, History
    <2>6. ASSUME NEW u \in Users, OidcSignIn(p, u) PROVE PageTypes'
      BY <1>1, <2>6, Issued, MountPages DEF OidcSignIn
    <2>7. CASE SignedIn(p)
      <3>1. call[Act(p)].got \in DOMAIN owner /\ owner[call[Act(p)].got] \in Users
        BY <2>7 DEF SignedIn, CallsSound, Sound, TypeOK
      <3> QED
        BY <1>1, <1>3, <2>7, <3>1 DEF SignedIn, Jar, Act, TypeOK, History
    <2>8. CASE SignOut(p)
      BY <1>1, <1>3, <2>8 DEF SignOut, Act, TypeOK, History
    <2>9. CASE SignedOut(p)
      BY <1>1, <2>9, MountPages DEF SignedOut, TypeOK, History
    <2> QED
      BY <1>5, <2>1, <2>3, <2>4, <2>5, <2>6, <2>7, <2>8, <2>9 DEF Tab
  <1>6. ASSUME NEW u \in Users, BenchSignIn(u) PROVE PageTypes'
    BY <1>1, <1>3, <1>6, BenchSlot DEF BenchSignIn, Act, TypeOK, History
  <1>7. CASE BenchAnswered
    <2>1. call[Act(Bench)].got \in DOMAIN owner
      BY <1>7, BenchSlot DEF BenchAnswered, CallsSound, Sound, Asks, Act
    <2> QED
      BY <1>1, <1>3, <1>7, <2>1, BenchSlot DEF BenchAnswered, Jar, Act, TypeOK, History
  <1>8. ASSUME UNCHANGED <<bearer, shown, loading, call>>, active' \subseteq Users,
               jar' \in DOMAIN owner \cup {None}, crossed' \subseteq Tabs
        PROVE  PageTypes'
    BY <1>1, <1>8 DEF PageTypes, TypeOK, History
  <1>9. CASE (\E t \in Tokens : Expire(t)) \/ CookieExpires \/ (\E u \in Leavers : SetActive(u))
            \/ UNCHANGED vars
    BY <1>8, <1>9 DEF Expire, CookieExpires, SetActive, vars, TypeOK
  <1> QED
    BY <1>2, <1>4, <1>5, <1>6, <1>7, <1>9 DEF Next

-----------------------------------------------------------------------------
(* What a tab shows.                                                       *)

\* The cookie stays, or runs out with its token.
JarStays == jar' = jar \/ (jar' = None /\ jar # None /\ row[jar] # "live")

LEMMA CookieStays ==
    ASSUME TypeOK, History, JarStays, NEW t, Cookie(t)
    PROVE  Cookie(t)'
  <1>1. /\ jar \in DOMAIN owner \cup {None}
        /\ \A u \in DOMAIN owner : /\ u \in DOMAIN owner'
                                   /\ row[u] # "live" => row'[u] # "live"
    BY IssuedTokens DEF TypeOK, History
  <1>2. CASE t = jar /\ jar' = jar
    BY <1>2 DEF Cookie
  <1>3. CASE t = jar /\ jar' = None /\ jar # None /\ row[jar] # "live"
    BY <1>1, <1>3 DEF Cookie
  <1>4. CASE jar = None /\ t \in DOMAIN owner /\ row[t] # "live"
    BY <1>1, <1>4 DEF Cookie, JarStays
  <1> QED
    BY <1>2, <1>3, <1>4 DEF Cookie, JarStays

\* A tab that is not touched, its cookie neither, goes on showing the truth.
LEMMA TabUntouched ==
    ASSUME TypeOK, History, NEW p \in Tabs, TabSound(p), JarStays,
           shown'[p] = shown[p],
           call'[Probe(p)] = None \/ call'[Probe(p)].token = call[Probe(p)].token,
           call'[Probe(p)] # None => call[Probe(p)] # None
    PROVE  TabSound(p)'
  <1>1. ASSUME shown'[p] # None
        PROVE  \E t \in DOMAIN owner' : owner'[t] = shown'[p] /\ Cookie(t)'
    <2>1. PICK t \in DOMAIN owner : owner[t] = shown[p] /\ Cookie(t)
      BY <1>1 DEF TabSound
    <2>2. Cookie(t)' /\ t \in DOMAIN owner' /\ owner'[t] = shown'[p]
      BY <2>1, CookieStays DEF History
    <2> QED
      BY <2>2
  <1>2. ASSUME call'[Probe(p)] # None
        PROVE  Cookie(call[Probe(p)].token)'
    <2>1. PICK t : t = call[Probe(p)].token
      OBVIOUS
    <2>2. Cookie(t) /\ call'[Probe(p)].token = t
      BY <1>2, <2>1 DEF TabSound
    <2>3. Cookie(t)'
      BY <2>2, CookieStays
    <2> QED
      BY <2>2, <2>3 DEF Cookie
  <1> QED
    BY <1>1, <1>2 DEF TabSound

\* A tab that has just been mounted shows nobody, and asks with its cookie.
LEMMA TabMounted ==
    ASSUME TypeOK, NEW p \in Tabs, NEW cookie, Mount(p, cookie), jar' = cookie
    PROVE  TabSound(p)'
  <1>1. shown'[p] = None /\ call'[Probe(p)] = Sent("me", cookie, None, FALSE)
    BY TabSlots DEF Mount, TypeOK
  <1>2. call'[Probe(p)].token = jar'
    BY <1>1 DEF Sent
  <1> QED
    BY <1>1, <1>2 DEF TabSound, Cookie

\* The server sends no request and changes the token of none.
LEMMA ServerTokens ==
    ASSUME TypeOK, NEW s \in Slots, Server(s), NEW t \in Slots
    PROVE  /\ call'[t] # None => call[t] # None
           /\ call'[t] = None \/ call'[t].token = call[t].token
  <1>1. CASE t # s
    BY <1>1 DEF Server, Load, Refuse, Serve, IssueToken, SignInFailed, Answer, TypeOK
  <1>2. CASE t = s
    <2>1. call[s] # None /\ call[s] \in Calls
      BY DEF Server, Load, Refuse, Serve, IssueToken, SignInFailed, TypeOK
    <2>2. CASE Load(s)
      <3>1. call'[s] = [call[s] EXCEPT !.step = "loaded"]
        BY <2>2 DEF Load, TypeOK
      <3> QED
        BY <1>2, <2>1, <3>1 DEF Calls
    <2>3. ASSUME NEW got, Answer(s, got) PROVE call'[s].token = call[s].token
      <3>1. call'[s] = [call[s] EXCEPT !.step = "answered", !.got = got]
        BY <2>3 DEF Answer, TypeOK
      <3> QED
        BY <2>1, <3>1 DEF Calls
    <2>4. CASE SignInFailed(s)
      BY <1>2, <2>1, <2>4 DEF SignInFailed, TypeOK
    <2> QED
      BY <1>2, <2>1, <2>2, <2>3, <2>4 DEF Server, Refuse, Serve, IssueToken
  <1> QED
    BY <1>1, <1>2

\* A step of a tab: its own cookie and session move together, and it crosses
\* the tabs whose cookie it changes.
LEMMA TabKeeps ==
    ASSUME SessionInv, History, NEW q \in Tabs, Tab(q), NEW p \in Tabs \ crossed'
    PROVE  TabSound(p)'
  <1> USE TabSlots DEF SessionInv
  <1>1. CASE Open(q)
    <2>1. CASE p = q
      BY <1>1, <2>1, TabMounted DEF Open
    <2>2. CASE p # q
      <3>1. call'[Probe(p)] = call[Probe(p)] /\ shown'[p] = shown[p]
        BY <1>1, <2>2 DEF Open, Mount, TypeOK, Pages
      <3> QED
        BY <1>1, <2>2, <3>1, TabUntouched DEF Open, JarStays
    <2> QED
      BY <2>1, <2>2
  <1>2. ASSUME NEW user, Probed(q, user),
               user # None => call[Probe(q)].token # None /\ user = owner[call[Probe(q)].token],
               call[Probe(q)] # None
        PROVE  TabSound(p)'
    <2>1. CASE p = q
      <3>1. call'[Probe(p)] = None /\ shown'[p] = user /\ owner' = owner /\ jar' = jar
        BY <1>2, <2>1 DEF Probed, TypeOK
      <3>2. Cookie(call[Probe(p)].token) /\ row' = row
        BY <1>2, <2>1 DEF Probed, TabSound
      <3>3. call[Probe(p)].token # None => call[Probe(p)].token \in DOMAIN owner
        BY <3>2 DEF Cookie, TypeOK
      <3> QED
        BY <1>2, <2>1, <3>1, <3>2, <3>3 DEF TabSound, Cookie
    <2>2. CASE p # q
      <3>1. call'[Probe(p)] = call[Probe(p)] /\ shown'[p] = shown[p]
        BY <1>2, <2>2 DEF Probed, TypeOK, Pages
      <3> QED
        BY <1>2, <2>2, <3>1, TabUntouched DEF Probed, JarStays
    <2> QED
      BY <2>1, <2>2
  <1>3. CASE ProbeAnswered(q)
    <2>1. call[Probe(q)].op = "me"
      BY <1>3 DEF ProbeAnswered, CallsSound, Sound, Asks, Probe
    <2> QED
      BY <1>2, <1>3, <2>1 DEF ProbeAnswered, CallsSound, Sound
  <1>4. CASE ProbeLost(q)
    BY <1>2, <1>4 DEF ProbeLost
  <1>5. ASSUME UNCHANGED <<jar, shown, crossed>>, NEW c, call' = [call EXCEPT ![Act(q)] = c]
        PROVE  TabSound(p)'
    <2>1. call'[Probe(p)] = call[Probe(p)]
      BY <1>5 DEF TypeOK, Probe, Act
    <2> QED
      BY <1>5, <2>1, TabUntouched DEF JarStays
  <1>6. ASSUME NEW u \in Users, SignIn(q, u) PROVE TabSound(p)'
    BY <1>5, <1>6 DEF SignIn
  <1>7. ASSUME NEW u \in Users, OidcSignIn(q, u) PROVE TabSound(p)'
    BY <1>7, TabMounted DEF OidcSignIn
  <1>8. CASE SignedIn(q)
    <2>1. p = q /\ q \notin loading
      BY <1>8 DEF SignedIn
    <2>2. call'[Probe(q)] = None
      BY <1>8, <2>1 DEF SignedIn, TypeOK, Probe, Act
    <2>3. /\ shown'[q] = owner[call[Act(q)].got] /\ jar' = call[Act(q)].got
          /\ owner' = owner /\ jar' \in DOMAIN owner
      BY <1>8 DEF SignedIn, Jar, CallsSound, Sound, TypeOK
    <2> QED
      BY <2>1, <2>2, <2>3, IssuedTokens DEF TabSound, Cookie
  <1>9. CASE SignOut(q)
    BY <1>5, <1>9 DEF SignOut
  <1>10. CASE SignedOut(q)
    <2>1. CASE p = q
      BY <1>10, <2>1, TabMounted DEF SignedOut
    <2>2. CASE p # q
      <3>1. call'[Probe(p)] = call[Probe(p)] /\ shown'[p] = shown[p]
        BY <1>10, <2>2 DEF SignedOut, Mount, TypeOK, Pages
      <3> QED
        BY <1>10, <2>2, <3>1, TabUntouched DEF SignedOut, JarStays
    <2> QED
      BY <2>1, <2>2
  <1> QED
    BY <1>1, <1>3, <1>4, <1>6, <1>7, <1>8, <1>9, <1>10 DEF Tab

\* SessionInv is inductive.
LEMMA SessionStep == SessionInv /\ [Next]_vars => SessionInv'
  <1> SUFFICES ASSUME SessionInv, [Next]_vars PROVE SessionInv'
    OBVIOUS
  <1>1. History /\ CallsKept /\ PageTypes'
    BY HistoryStep, CallsStep, PagesStep DEF SessionInv
  <1>2. TypeOK' /\ CallsSound'
    BY <1>1 DEF History, CallsKept, PageTypes, TypeOK, Tokens
  <1>3. ASSUME NEW p \in Tabs \ crossed' PROVE TabSound(p)'
    <2> USE TabSlots DEF SessionInv
    <2>1. ASSUME JarStays, UNCHANGED <<shown, crossed, call>> PROVE TabSound(p)'
      BY <1>1, <2>1, TabUntouched
    <2>2. ASSUME NEW s \in Slots, Server(s) PROVE TabSound(p)'
      <3>1. UNCHANGED <<jar, shown, crossed>>
        BY <2>2 DEF Server, Load, Refuse, Serve, IssueToken, SignInFailed
      <3> QED
        BY <1>1, <2>2, <3>1, ServerTokens, TabUntouched DEF JarStays
    <2>3. ASSUME NEW s \in Slots, NEW c, call' = [call EXCEPT ![s] = c], s[1] \in {Cli, Bench},
                 UNCHANGED <<jar, shown, crossed>>
          PROVE  TabSound(p)'
      <3>1. Probe(p) # s
        BY <2>3 DEF Probe
      <3>2. call'[Probe(p)] = call[Probe(p)]
        BY <2>3, <3>1 DEF TypeOK
      <3> QED
        BY <1>1, <2>3, <3>2, TabUntouched DEF JarStays
    <2>4. ASSUME NEW s \in Slots, CliAsks(s) \/ CliAnswered(s) PROVE TabSound(p)'
      BY <2>3, <2>4 DEF CliAsks, CliAnswered
    <2>5. ASSUME NEW u \in Users, BenchSignIn(u) PROVE TabSound(p)'
      BY <2>3, <2>5, BenchSlot DEF BenchSignIn, Act
    <2>6. ASSUME NEW q \in Tabs, Tab(q) PROVE TabSound(p)'
      BY <1>1, <2>6, TabKeeps
    <2> QED
      BY <2>1, <2>2, <2>4, <2>5, <2>6
         DEF Next, Expire, SetActive, BenchAnswered, CookieExpires, JarStays, vars
  <1> QED
    BY <1>2, <1>3 DEF SessionInv

\* SessionInv holds before anybody has signed in.
LEMMA SessionInit == Init => SessionInv
  <1> SUFFICES ASSUME Init PROVE SessionInv
    OBVIOUS
  <1>1. \A s \in Slots : call[s] = None
    BY DEF Init
  <1>2. owner \in Seq(Users) /\ Len(owner) <= MaxTokens
    BY DEF Init
  <1>3. TypeOK
    BY <1>1, <1>2, TabSlots DEF Init, TypeOK
  <1> QED
    BY <1>1, <1>3, TabSlots DEF Init, SessionInv, CallsSound, Sound, TabSound

\* However requests, answers and tabs interleave, SessionInv holds.
THEOREM SessionInvariant == Spec => []SessionInv
  BY SessionInit, SessionStep, PTL DEF Spec

\* Cookies and bearers are tokens that were issued, a tab waits exactly as long
\* as its probe is out, and answers fit their requests.
THEOREM SessionTypeCorrect == Spec => []TypeOK
  <1>1. SessionInv => TypeOK
    BY DEF SessionInv
  <1> QED
    BY SessionInvariant, <1>1, PTL

\* No token that had been revoked or had expired when a request was sent lets
\* it in, whatever requests write its row meanwhile (load_context, touch).
THEOREM EndedTokensStayOut == Spec => []EndedStaysOut
  <1>1. SessionInv => EndedStaysOut
    BY DEF SessionInv, CallsSound, Sound, EndedStaysOut
  <1> QED
    BY SessionInvariant, <1>1, PTL

\* A tab shows the user whose cookie its requests carry, or carried until it ran
\* out with its token (auth/routes.py, max_age), unless its sign-in overtook its
\* probe or another page changed the cookies (auth.tsx, api.ts).
THEOREM TabsShowTheirUser == Spec => []ShownUnlessCrossed
  <1>1. SessionInv => ShownUnlessCrossed
    BY DEF SessionInv, TabSound, Cookie, ShownUnlessCrossed
  <1> QED
    BY SessionInvariant, <1>1, PTL

\* A token that was revoked or has expired is never live again, although the
\* requests it let in before write its row afterwards.
THEOREM EndedTokensStayEnded ==
    Spec => [][\A t \in Tokens : row[t] # "live" => row'[t] # "live"]_vars
  <1>1. SessionInv /\ [Next]_vars => [\A t \in Tokens : row[t] # "live" => row'[t] # "live"]_vars
    BY HistoryStep DEF SessionInv, History
  <1> QED
    BY SessionInvariant, <1>1, PTL DEF Spec

-----------------------------------------------------------------------------
(* What the frontend's writes come to.                                     *)

\* No page finds the CSRF cookie, so no request of one carries its value.
CsrfMissing == \A s \in Slots : call[s] # None => ~call[s].csrf

\* A request that is sent carries what its page found, which is nothing.
LEMMA SentWithout ==
    /\ ~CsrfFound
    /\ \A op, t, u : ~Sent(op, t, u, FALSE).csrf /\ ~Sent(op, t, u, CsrfFound).csrf
  <1>1. ~CsrfFound
    BY DEF CsrfFound, Cookies
  <1>2. ASSUME NEW op, NEW t, NEW u PROVE ~Sent(op, t, u, FALSE).csrf
    BY DEF Sent
  <1>3. ASSUME NEW op, NEW t, NEW u PROVE ~Sent(op, t, u, CsrfFound).csrf
    BY <1>1 DEF Sent
  <1> QED
    BY <1>1, <1>2, <1>3

\* The other steps leave what a request carries as it is.
LEMMA CsrfStep ==
    ASSUME TypeOK, CsrfMissing, [Next]_vars, NEW s \in Slots, call'[s] # None
    PROVE  ~call'[s].csrf
  <1> USE DEF CsrfMissing
  <1>1. ASSUME NEW q \in Slots, NEW c, call' = [call EXCEPT ![q] = c], c = None \/ ~c.csrf
        PROVE  ~call'[s].csrf
    BY <1>1 DEF TypeOK
  <1>2. CASE UNCHANGED call
    BY <1>2
  <1>3. ASSUME NEW q \in Slots, Server(q) PROVE ~call'[s].csrf
    <2>1. call[q] # None => /\ ~[call[q] EXCEPT !.step = "loaded"].csrf
                            /\ \A got : ~[call[q] EXCEPT !.step = "answered", !.got = got].csrf
      BY DEF TypeOK, Calls
    <2>2. CASE Load(q)
      BY <1>1, <2>1, <2>2 DEF Load
    <2>3. CASE SignInFailed(q)
      BY <1>1, <2>3 DEF SignInFailed
    <2>4. ASSUME NEW got, Answer(q, got), call[q] # None PROVE ~call'[s].csrf
      <3>1. call' = [call EXCEPT ![q] = [call[q] EXCEPT !.step = "answered", !.got = got]]
        BY <2>4 DEF Answer
      <3> QED
        BY <1>1, <2>1, <2>4, <3>1
    <2> QED
      BY <1>3, <2>2, <2>3, <2>4 DEF Server, Refuse, Serve, IssueToken
  <1>4. ASSUME NEW p \in Tabs, NEW cookie, Mount(p, cookie) PROVE ~call'[s].csrf
    BY <1>4, SentWithout, TabSlots DEF Mount, TypeOK
  <1>5. ASSUME NEW p \in Tabs, Tab(p) PROVE ~call'[s].csrf
    <2>1. CASE Open(p)
      BY <1>4, <2>1 DEF Open
    <2>2. CASE ProbeAnswered(p) \/ ProbeLost(p)
      BY <1>1, <2>2, TabSlots DEF ProbeAnswered, ProbeLost, Probed
    <2>3. ASSUME NEW u \in Users, SignIn(p, u) PROVE ~call'[s].csrf
      BY <1>1, <2>3, SentWithout, TabSlots DEF SignIn
    <2>4. ASSUME NEW u \in Users, OidcSignIn(p, u) PROVE ~call'[s].csrf
      BY <1>4, <2>4 DEF OidcSignIn
    <2>5. CASE SignedIn(p)
      BY <1>1, <2>5, TabSlots DEF SignedIn
    <2>6. CASE SignOut(p)
      BY <1>1, <2>6, SentWithout, TabSlots DEF SignOut
    <2>7. CASE SignedOut(p)
      BY <1>4, <2>7 DEF SignedOut
    <2> QED
      BY <1>5, <2>1, <2>2, <2>3, <2>4, <2>5, <2>6, <2>7 DEF Tab
  <1>6. ASSUME NEW q \in Slots, CliAsks(q) \/ CliAnswered(q) PROVE ~call'[s].csrf
    <2>1. CASE CliAsks(q)
      <3>1. PICK c : /\ call' = [call EXCEPT ![q] = c]
                     /\ \/ c = Sent("me", bearer, None, FALSE)
                        \/ c = Sent("logout", bearer, None, FALSE)
                        \/ \E u \in Users : c = Sent("login", None, u, FALSE)
        BY <2>1 DEF CliAsks
      <3>2. ~c.csrf
        BY <3>1, SentWithout
      <3> QED
        BY <1>1, <3>1, <3>2
    <2>2. CASE CliAnswered(q)
      BY <1>1, <2>2 DEF CliAnswered
    <2> QED
      BY <1>6, <2>1, <2>2
  <1>7. ASSUME NEW u \in Users, BenchSignIn(u) PROVE ~call'[s].csrf
    BY <1>1, <1>7, SentWithout, BenchSlot DEF BenchSignIn
  <1>8. CASE BenchAnswered
    BY <1>1, <1>8, BenchSlot DEF BenchAnswered
  <1> QED
    BY <1>2, <1>3, <1>5, <1>6, <1>7, <1>8
       DEF Next, Expire, SetActive, CookieExpires, vars

\* Whatever a tab asks the server for, sign-out included, no token ends by it:
\* without the header validate_cookie_csrf refuses the request (api.ts).
THEOREM SignOutEndsNoToken ==
    Spec => [][\A p \in Tabs : Server(Act(p)) => UNCHANGED row]_vars
  <1>1. Init => CsrfMissing
    BY DEF Init, CsrfMissing
  <1>2. SessionInv /\ CsrfMissing /\ [Next]_vars => CsrfMissing'
    BY CsrfStep DEF SessionInv, CsrfMissing
  <1>3. SessionInv /\ CsrfMissing => (\A p \in Tabs : Server(Act(p)) => UNCHANGED row)
    <2> SUFFICES ASSUME SessionInv, CsrfMissing, NEW p \in Tabs, Server(Act(p))
                 PROVE  row' = row
      OBVIOUS
    <2>1. CASE Serve(Act(p))
      <3>1. ~CsrfChecked(Act(p))
        BY <2>1, TabSlots DEF Serve, CsrfChecked, CsrfMissing, Act
      <3>2. row' = [row EXCEPT ![call[Act(p)].token] = row[call[Act(p)].token]]
        BY <2>1, <3>1 DEF Serve, Touched
      <3> QED
        BY <3>2 DEF SessionInv, TypeOK
    <2> QED
      BY <2>1 DEF Server, Load, Refuse, IssueToken, SignInFailed
  <1> QED
    BY SessionInvariant, <1>1, <1>2, <1>3, PTL DEF Spec

=============================================================================
