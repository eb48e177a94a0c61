-------------------------- MODULE WorkbenchProofs ---------------------------
(***************************************************************************)
(* Proofs about Acceptance and Workbench: types, the meaning and the       *)
(* finality of a verdict, and what the page shows of recorded failures,    *)
(* for any number of criteria and of save loops.                           *)
(***************************************************************************)
EXTENDS Workbench, FiniteSetTheorems, TLAPS

USE DEF serverVars, pageVars, Outcomes, Verdicts

-----------------------------------------------------------------------------
(* The steps of the server.                                                *)

\* What a request may decide.
Justified(r) ==
    /\ r \in Requests
    /\ r.op \in {"result", "complete"} => status = "open"
    /\ r.op = "complete" => AllRecorded /\ r.verdict = Verdict

ServerStep ==
    \/ CreatePreview \/ Expire \/ RevokePreview \/ CreateSession \/ CreateDefect
    \/ \E s \in Slots, r \in Requests : Justified(r) /\ Decide(s, r)
    \/ \E s \in Slots : CommitResult(s) \/ CommitVerdict(s) \/ CommitDefect(s) \/ Drop(s)
    \/ UNCHANGED serverVars

LEMMA ResultJustified ==
    ASSUME ServerTypeOK, NEW s \in Slots, NEW c \in Criteria, NEW o \in Outcomes,
           DecideResult(s, c, o)
    PROVE  \E r \in Requests : Justified(r) /\ Decide(s, r)
<1> DEFINE r == [op |-> "result", criterion |-> c, outcome |-> o, insert |-> result[c] = "none"]
<1>1. r \in Requests /\ r.op = "result"
  BY DEF Requests
<1>2. status = "open" /\ Decide(s, r)
  BY DEF DecideResult, Recordable
<1> QED BY <1>1, <1>2 DEF Justified

LEMMA VerdictJustified ==
    ASSUME NEW s \in Slots, DecideVerdict(s)
    PROVE  \E r \in Requests : Justified(r) /\ Decide(s, r)
<1> DEFINE r == [op |-> "complete", verdict |-> Verdict]
<1>1. r \in Requests /\ r.op = "complete" /\ r.verdict = Verdict
  BY DEF Requests, Verdict
<1>2. status = "open" /\ AllRecorded /\ Decide(s, r)
  BY DEF DecideVerdict, Completable
<1> QED BY <1>1, <1>2 DEF Justified

LEMMA DefectJustified ==
    ASSUME NEW s \in Slots, NEW to \in {"open", "closed"}, DecideDefect(s, to)
    PROVE  \E r \in Requests : Justified(r) /\ Decide(s, r)
<1> DEFINE r == [op |-> "defect", status |-> to]
<1>1. r \in Requests /\ r.op = "defect"
  BY DEF Requests
<1> QED BY <1>1 DEF Justified, DecideDefect

LEMMA SlotsOfPage == Page \in Slots /\ Client \in Slots /\ Loops \subseteq Slots
BY WorkbenchAssumption

\* The value that a loop posts is an outcome.
LEMMA SelectsTyped ==
    ASSUME TypeOK, NEW l \in Loops, loop[l] # Idle, NEW c \in Criteria
    PROVE  Selects(l)[c] \in Outcomes
<1>1. loop[l] \in Running
  BY DEF TypeOK, PageTypeOK
<1>2. form \in Forms
  BY DEF TypeOK, PageTypeOK
<1> QED BY <1>1, <1>2 DEF Selects, Running, Forms

LEMMA Steps == TypeOK /\ [Next]_vars => ServerStep
<1> SUFFICES ASSUME TypeOK, [Next]_vars PROVE ServerStep
  OBVIOUS
<1> USE SlotsOfPage
<1>1. ServerTypeOK
  BY DEF TypeOK
<1>2. CASE UNCHANGED vars
  BY <1>2 DEF vars, ServerStep
<1>3. CASE Previews \/ StartSession
  BY <1>3 DEF Previews, StartSession, ServerStep
<1>4. CASE \E c \in Criteria, outcome \in Outcomes : Choose(c, outcome)
  BY <1>4 DEF Choose, ServerStep
<1>5. ASSUME NEW l \in Loops, Saving(l)
      PROVE  ServerStep
  <2>1. CASE \E c \in Criteria : Post(l, c)
    BY <1>1, <2>1, SelectsTyped, ResultJustified DEF Post, ServerStep
  <2>2. CASE Save(l) \/ Reload(l) \/ Saved(l) \/ Stop(l)
    BY <2>2 DEF Save, Reload, Saved, Stop, ServerStep
  <2>3. CASE Posted(l)
    BY <2>3 DEF Posted, ServerStep
  <2> QED BY <1>5, <2>1, <2>2, <2>3 DEF Saving
<1>6. CASE Complete
  BY <1>6, VerdictJustified DEF Complete, ServerStep
<1>7. CASE Completed \/ Answered \/ ShowAnswer \/ AnswerLost \/ LogDefect
  BY <1>7 DEF Completed, Answered, ShowAnswer, AnswerLost, LogDefect, ServerStep
<1>8. CASE UpdateDefect
  BY <1>8, DefectJustified DEF UpdateDefect, ServerStep
<1>9. CASE ClientAsks
  <2>1. CASE \E c \in Criteria, outcome \in Outcomes : DecideResult(Client, c, outcome)
    BY <1>1, <2>1, ResultJustified DEF ServerStep
  <2>2. CASE DecideVerdict(Client)
    BY <2>2, VerdictJustified DEF ServerStep
  <2>3. CASE \E to \in {"open", "closed"} : DecideDefect(Client, to)
    BY <2>3, DefectJustified DEF ServerStep
  <2>4. CASE CreateDefect
    BY <2>4 DEF ServerStep
  <2> QED BY <1>9, <2>1, <2>2, <2>3, <2>4 DEF ClientAsks
<1>10. CASE ClientRecorded \/ ClientCompleted \/ DefectUpdated \/ Dropped
  BY <1>10 DEF ClientRecorded, ClientCompleted, DefectUpdated, Dropped, ServerStep
<1> QED
  BY <1>2, <1>3, <1>4, <1>5, <1>6, <1>7, <1>8, <1>9, <1>10 DEF Next

-----------------------------------------------------------------------------
(* Types on the server.                                                    *)

\* A request that writes a result or a verdict has found a session, and for a
\* verdict a result for every criterion; results are never taken back.
RequestsKept ==
    \A s \in Slots : request[s] # NoRequest =>
        /\ request[s].op \in {"result", "complete"} => status # "none"
        /\ request[s].op = "complete" => AllRecorded

ServerInv == ServerTypeOK /\ RequestsKept

USE DEF Requests

LEMMA ServerInitInv == ServerInit => ServerInv
BY DEF ServerInit, ServerInv, ServerTypeOK, RequestsKept

LEMMA ResultInv ==
    ASSUME ServerInv, NEW s \in Slots, CommitResult(s)
    PROVE  ServerInv'
<1> USE DEF ServerInv, ServerTypeOK
<1>1. /\ request[s] \in Requests /\ request[s].op = "result"
      /\ request[s].criterion \in Criteria /\ request[s].outcome \in Outcomes
  BY DEF CommitResult
<1>2. /\ request' \in [Slots -> Requests \cup {NoRequest}]
      /\ \A x \in Slots : request'[x] # NoRequest => request'[x] = request[x]
  BY DEF CommitResult, Answer
<1>3. result' \in [Criteria -> Outcomes \cup {"none"}]
  BY <1>1 DEF CommitResult
<1>4. \A c \in Criteria : result[c] # "none" => result'[c] # "none"
  BY <1>1 DEF CommitResult
<1>5. status # "none" /\ status' = status /\ preview' = preview /\ defect' = defect
  BY <1>1 DEF CommitResult, RequestsKept, Answer
<1>6. raced' \in BOOLEAN /\ fresh' \subseteq Slots
  BY DEF CommitResult
<1>7. RequestsKept'
  BY <1>2, <1>4, <1>5 DEF RequestsKept, AllRecorded
<1>8. status' \in Verdicts => \A c \in Criteria : result'[c] # "none"
  BY <1>4, <1>5
<1> QED BY <1>2, <1>3, <1>5, <1>6, <1>7, <1>8

LEMMA CommitVerdictInv ==
    ASSUME ServerInv, NEW s \in Slots, CommitVerdict(s)
    PROVE  ServerInv'
<1> USE DEF ServerInv, ServerTypeOK
<1>1. /\ request[s] \in Requests /\ request[s].op = "complete"
      /\ request[s].verdict \in Verdicts /\ AllRecorded
  BY DEF CommitVerdict, RequestsKept
<1>2. /\ request' \in [Slots -> Requests \cup {NoRequest}]
      /\ \A x \in Slots : request'[x] # NoRequest => request'[x] = request[x]
  BY DEF CommitVerdict, Answer
<1>3. /\ status' = request[s].verdict /\ preview' = preview
      /\ defect' = defect /\ result' = result
  BY DEF CommitVerdict, Answer
<1>4. raced' \in BOOLEAN /\ fresh' \subseteq Slots
  BY DEF CommitVerdict
<1>5. RequestsKept'
  BY <1>1, <1>2, <1>3 DEF RequestsKept, AllRecorded
<1> QED BY <1>1, <1>2, <1>3, <1>4, <1>5 DEF AllRecorded

LEMMA ServerStepInv == ServerInv /\ ServerStep => ServerInv'
<1> SUFFICES ASSUME ServerInv, ServerStep PROVE ServerInv'
  OBVIOUS
<1>1. CASE UNCHANGED serverVars
  BY <1>1 DEF ServerInv, ServerTypeOK, RequestsKept, AllRecorded
<1>2. CASE CreatePreview \/ Expire \/ RevokePreview
  BY <1>2 DEF CreatePreview, Expire, RevokePreview, ServerInv, ServerTypeOK, RequestsKept, AllRecorded
<1>3. CASE CreateSession
  BY <1>3 DEF CreateSession, ServerInv, ServerTypeOK, RequestsKept, AllRecorded
<1>4. CASE CreateDefect
  BY <1>4 DEF CreateDefect, ServerInv, ServerTypeOK, RequestsKept, AllRecorded
<1>5. ASSUME NEW s \in Slots, NEW r \in Requests, Justified(r), Decide(s, r)
      PROVE  ServerInv'
  <2>1. /\ request' \in [Slots -> Requests \cup {NoRequest}]
        /\ request'[s] = r
        /\ \A x \in Slots \ {s} : request'[x] = request[x]
    BY <1>5 DEF Decide, ServerInv, ServerTypeOK
  <2>2. /\ UNCHANGED <<preview, status, result, defect, raced>>
        /\ fresh' \subseteq Slots
    BY <1>5 DEF Decide, ServerInv, ServerTypeOK
  <2>3. RequestsKept'
    BY <1>5, <2>1, <2>2 DEF Justified, ServerInv, RequestsKept, AllRecorded
  <2> QED BY <2>1, <2>2, <2>3 DEF ServerInv, ServerTypeOK
<1>6. ASSUME NEW s \in Slots, CommitDefect(s) \/ Drop(s)
      PROVE  ServerInv'
  <2>1. /\ request' \in [Slots -> Requests \cup {NoRequest}]
        /\ \A x \in Slots : request'[x] # NoRequest => request'[x] = request[x]
    BY <1>6 DEF CommitDefect, Drop, Answer, ServerInv, ServerTypeOK
  <2>2. /\ UNCHANGED <<preview, status, result, raced>>
        /\ fresh' \subseteq Slots /\ defect' \in {"absent", "open", "closed"}
    BY <1>6 DEF CommitDefect, Drop, Answer, ServerInv, ServerTypeOK
  <2>3. RequestsKept'
    BY <2>1, <2>2 DEF ServerInv, RequestsKept, AllRecorded
  <2> QED BY <2>1, <2>2, <2>3 DEF ServerInv, ServerTypeOK
<1> QED
  BY <1>1, <1>2, <1>3, <1>4, <1>5, <1>6, ResultInv, CommitVerdictInv DEF ServerStep

-----------------------------------------------------------------------------
(* Types on the page.                                                      *)

\* A loop that waits for a result to be committed is at a criterion, one that
\* has read the session is at its end.
LoopsWait ==
    \A l \in Loops : loop[l] # Idle =>
        /\ request[l] # NoRequest => loop[l].turn \in Criteria
        /\ loop[l].read # Idle => loop[l].turn = Last

\* While the page waits for a completion to be committed no answer is out.
OneAnswer ==
    request[Page] # NoRequest /\ request[Page].op = "complete" => answer = Idle

PageInv == TypeOK /\ RequestsKept /\ LoopsWait /\ OneAnswer

LEMMA LastTyped == Last \in Nat /\ Criteria = 1 .. Last - 1
<1>1. Cardinality(Criteria) \in Nat
  BY AcceptanceAssumption, FS_CardinalityType
<1> QED BY <1>1, WorkbenchAssumption DEF Last

LEMMA RenderedTyped ==
    ASSUME NEW outcomes \in Recorded
    PROVE  Rendered(outcomes) \in Forms
BY DEF Rendered, Recorded, Forms

LEMMA DetachedTyped ==
    ASSUME form \in Forms \cup {NoForm}, NEW running \in [Loops -> Running \cup {Idle}],
           form = NoForm => \A l \in Loops : running[l] = Idle
    PROVE  /\ Detached(running) \in [Loops -> Running \cup {Idle}]
           /\ \A l \in Loops : /\ Detached(running)[l] = Idle <=> running[l] = Idle
                             /\ Detached(running)[l].read = running[l].read
                             /\ Detached(running)[l].turn = running[l].turn
<1> SUFFICES ASSUME NEW l \in Loops
             PROVE  /\ Detached(running)[l] \in Running \cup {Idle}
                    /\ Detached(running)[l] = Idle <=> running[l] = Idle
                    /\ Detached(running)[l].read = running[l].read
                    /\ Detached(running)[l].turn = running[l].turn
  BY DEF Detached
<1>1. CASE running[l] # Idle /\ running[l].selects = OnPage
  <2>1. running[l] \in Running
    BY <1>1
  <2>2. Detached(running)[l] = [running[l] EXCEPT !.selects = form.value]
    BY <1>1 DEF Detached
  <2>3. form.value \in [Criteria -> Outcomes]
    BY <1>1 DEF Forms
  <2>4. /\ [running[l] EXCEPT !.selects = form.value] \in Running
        /\ [running[l] EXCEPT !.selects = form.value].read = running[l].read
        /\ [running[l] EXCEPT !.selects = form.value].turn = running[l].turn
    BY <2>1, <2>3 DEF Running
  <2> QED BY <1>1, <2>2, <2>4, PageAssumption
<1>2. CASE ~(running[l] # Idle /\ running[l].selects = OnPage)
  BY <1>2 DEF Detached
<1> QED BY <1>1, <1>2

\* A session has results that are recorded outcomes.
LEMMA ResultTyped == TypeOK => result \in Recorded
BY DEF TypeOK, ServerTypeOK, Recorded

\* Rendering an answer.
LEMMA RenderInv ==
    ASSUME PageInv, status # "none", NEW outcomes \in Recorded,
           NEW running \in [Loops -> Running \cup {Idle}],
           \A l \in Loops : running[l] = loop[l] \/ running[l] = Idle,
           NEW awaited \in Recorded \cup {Idle, Due},
           Render(outcomes, running, awaited), UNCHANGED serverVars,
           overtaken' \in BOOLEAN
    PROVE  PageTypeOK' /\ LoopsWait'
<1>1. /\ loop' \in [Loops -> Running \cup {Idle}]
      /\ \A l \in Loops : /\ loop'[l] = Idle <=> running[l] = Idle
                        /\ loop'[l].read = running[l].read
                        /\ loop'[l].turn = running[l].turn
  BY DetachedTyped DEF Render, PageInv, TypeOK, PageTypeOK
<1>2. form' \in Forms /\ form' # NoForm
  BY RenderedTyped, PageAssumption DEF Render
<1>3. shown' \subseteq {c \in Criteria : result'[c] = "fail"}
  BY DEF Render, PageInv, TypeOK, PageTypeOK
<1>4. answer' = awaited /\ late' = Unrendered(running, awaited)
  BY DEF Render
<1>5. late' \subseteq Unrendered(loop', answer')
  BY <1>1, <1>4 DEF Unrendered
<1>6. ASSUME NEW l \in Loops, loop'[l] # Idle
      PROVE  /\ request'[l] # NoRequest => loop'[l].turn \in Criteria
             /\ loop'[l].read # Idle => loop'[l].turn = Last
  <2>1. /\ loop[l] # Idle
        /\ loop'[l].read = loop[l].read /\ loop'[l].turn = loop[l].turn
    BY <1>1, <1>6
  <2> QED BY <2>1 DEF PageInv, LoopsWait
<1>7. LoopsWait'
  BY <1>6 DEF LoopsWait, Last
<1> QED BY <1>1, <1>2, <1>3, <1>4, <1>5, <1>7 DEF PageTypeOK

\* A result is committed.
LEMMA StillShownTyped ==
    ASSUME StillShown, shown \subseteq Criteria
    PROVE  shown' \subseteq {c \in Criteria : result'[c] = "fail"}
BY DEF StillShown

LEMMA PostedInv ==
    ASSUME PageInv, NEW l \in Loops, Posted(l)
    PROVE  PageTypeOK' /\ LoopsWait'
<1> USE SlotsOfPage DEF PageInv, TypeOK, PageTypeOK
<1>1. request[l] # NoRequest /\ status' = status /\ answer' = answer
  BY DEF Posted, CommitResult
<1>2. /\ request'[l] = NoRequest
      /\ \A x \in Loops \ {l} : request'[x] = request[x]
  BY DEF Posted, CommitResult, Answer, ServerTypeOK
<1>3. shown' \subseteq {c \in Criteria : result'[c] = "fail"}
  BY StillShownTyped DEF Posted
<1>4. CASE loop[l] = Idle
  <2>1. UNCHANGED <<form, loop, late, overtaken>>
    BY <1>4 DEF Posted
  <2> QED BY <1>1, <1>2, <1>3, <2>1 DEF LoopsWait, Unrendered
<1>5. CASE loop[l] # Idle
  <2>1. loop' = [loop EXCEPT ![l].turn = @ + 1] /\ UNCHANGED <<form, late, overtaken>>
    BY <1>5 DEF Posted
  <2>2. loop[l] \in Running /\ loop[l].turn \in Criteria /\ loop[l].read = Idle
    BY <1>1, <1>5, LastTyped DEF LoopsWait
  <2>3. loop[l].turn + 1 \in 1 .. Last
    BY <2>2, LastTyped
  <2>4. loop'[l] \in Running /\ loop'[l].read = loop[l].read
    BY <2>1, <2>2, <2>3 DEF Running
  <2>5. /\ loop' \in [Loops -> Running \cup {Idle}]
        /\ \A x \in Loops \ {l} : loop'[x] = loop[x]
    BY <2>1, <2>4
  <2>6. late' \subseteq Unrendered(loop', answer')
    BY <1>1, <2>1, <2>2, <2>4, <2>5 DEF Unrendered
  <2>7. form' # NoForm
    BY <1>5, <2>1
  <2> QED BY <1>1, <1>2, <1>3, <2>1, <2>2, <2>4, <2>5, <2>6, <2>7 DEF LoopsWait
<1> QED BY <1>4, <1>5

\* A loop ends, without an answer.
LEMMA StopInv ==
    ASSUME PageInv, NEW l \in Loops,
           loop' = [loop EXCEPT ![l] = Idle], late' = late \ {l},
           UNCHANGED <<form, answer, shown, overtaken, status, result>>,
           \A x \in Loops : request'[x] = request[x] \/ request'[x] = NoRequest
    PROVE  PageTypeOK' /\ LoopsWait'
<1> USE DEF PageInv, TypeOK, PageTypeOK
<1>1. /\ loop' \in [Loops -> Running \cup {Idle}]
      /\ loop'[l] = Idle
      /\ \A x \in Loops \ {l} : loop'[x] = loop[x]
  OBVIOUS
<1>2. late' \subseteq Unrendered(loop', answer')
  BY <1>1, WorkbenchAssumption DEF Unrendered
<1> QED BY <1>1, <1>2 DEF LoopsWait

\* Steps of the server that the page does not see.
LEMMA UnseenInv ==
    ASSUME PageInv, UNCHANGED pageVars,
           result' = result, status' = "none" => status = "none",
           \A l \in Loops : request'[l] = request[l] \/ request'[l] = NoRequest
    PROVE  PageTypeOK' /\ LoopsWait'
BY DEF PageInv, TypeOK, PageTypeOK, LoopsWait, Unrendered

LEMMA DecideUnseen ==
    ASSUME PageInv, UNCHANGED pageVars, NEW s \in {Page, Client}, NEW r, Decide(s, r)
    PROVE  PageTypeOK' /\ LoopsWait'
<1>1. \A l \in Loops : request'[l] = request[l]
  BY SlotsOfPage, WorkbenchAssumption DEF Decide, PageInv, TypeOK, ServerTypeOK
<1> QED BY <1>1, UnseenInv DEF Decide

LEMMA AskUnseen ==
    ASSUME PageInv, UNCHANGED pageVars, NEW s \in {Page, Client},
           \/ \E c \in Criteria, o \in Outcomes : DecideResult(s, c, o)
           \/ DecideVerdict(s)
           \/ \E to \in {"open", "closed"} : DecideDefect(s, to)
    PROVE  PageTypeOK' /\ LoopsWait'
BY DecideUnseen DEF DecideResult, DecideVerdict, DecideDefect

LEMMA AnswerUnseen ==
    ASSUME PageInv, NEW s \in Slots, Answer(s)
    PROVE  \A l \in Loops : request'[l] = request[l] \/ request'[l] = NoRequest
BY SlotsOfPage DEF Answer, PageInv, TypeOK, ServerTypeOK

LEMMA SavingInv ==
    ASSUME PageInv, NEW l \in Loops, Saving(l)
    PROVE  PageTypeOK' /\ LoopsWait'
<1> USE SlotsOfPage
<1>1. CASE Save(l)
  <2>1. loop[l] = Idle /\ form # NoForm
    BY <1>1 DEF Save
  <2>2. 1 \in 1 .. Last
    BY LastTyped, AcceptanceAssumption, FS_CardinalityType DEF Last
  <2>3. [turn |-> 1, selects |-> OnPage, read |-> Idle] \in Running
    BY <2>2 DEF Running
  <2>4. /\ loop' \in [Loops -> Running \cup {Idle}]
        /\ \A x \in Loops \ {l} : loop'[x] = loop[x]
        /\ loop'[l].read = Idle
    BY <1>1, <2>3 DEF Save, PageInv, TypeOK, PageTypeOK
  <2>5. l \notin late
    BY <2>1, WorkbenchAssumption DEF PageInv, TypeOK, PageTypeOK, Unrendered
  <2>6. UNCHANGED <<form, answer, shown, late, overtaken, status, result, request>> /\ request[l] = NoRequest
    BY <1>1 DEF Save
  <2>7. late' \subseteq Unrendered(loop', answer')
    BY <2>4, <2>5, <2>6 DEF PageInv, TypeOK, PageTypeOK, Unrendered
  <2>8. status # "none"
    BY <2>1 DEF PageInv, TypeOK, PageTypeOK
  <2> QED BY <2>1, <2>4, <2>6, <2>7, <2>8 DEF PageInv, TypeOK, PageTypeOK, LoopsWait
<1>2. CASE \E c \in Criteria : Post(l, c)
  <2>1. PICK c \in Criteria : Post(l, c)
    BY <1>2
  <2>2. /\ loop[l] # Idle /\ loop[l].turn = c
        /\ UNCHANGED <<form, loop, answer, shown, late, overtaken, status, result>>
        /\ \A x \in Slots \ {l} : request'[x] = request[x]
    BY <2>1 DEF Post, DecideResult, Decide, PageInv, TypeOK, ServerTypeOK
  <2>3. loop[l].read = Idle
    BY <2>2, LastTyped DEF PageInv, LoopsWait
  <2> QED BY <2>2, <2>3 DEF PageInv, TypeOK, PageTypeOK, LoopsWait, Unrendered
<1>3. CASE Posted(l)
  BY <1>3, PostedInv
<1>4. CASE Reload(l)
  <2>1. /\ loop[l] # Idle /\ loop[l].turn = Last
        /\ loop' = [loop EXCEPT ![l].read = result]
        /\ UNCHANGED <<form, answer, shown, late, overtaken, status, result, request>>
    BY <1>4 DEF Reload
  <2>2. loop[l] \in Running
    BY <2>1 DEF PageInv, TypeOK, PageTypeOK
  <2>3. result \in Recorded /\ result # Idle
    BY ResultTyped, PageAssumption DEF PageInv
  <2>4. loop'[l] \in Running /\ loop'[l].read # Idle /\ loop'[l] # Idle
    BY <2>1, <2>2, <2>3, PageAssumption DEF Running, PageInv, TypeOK, PageTypeOK
  <2>5. /\ loop' \in [Loops -> Running \cup {Idle}]
        /\ \A x \in Loops \ {l} : loop'[x] = loop[x]
    BY <2>1, <2>4 DEF PageInv, TypeOK, PageTypeOK
  <2>6. request[l] = NoRequest
    BY <2>1, LastTyped DEF PageInv, LoopsWait
  <2>7. late' \subseteq Unrendered(loop', answer')
    BY <2>1, <2>4, <2>5 DEF PageInv, TypeOK, PageTypeOK, Unrendered
  <2>8. form # NoForm /\ status # "none"
    BY <2>1 DEF PageInv, TypeOK, PageTypeOK
  <2>9. loop'[l].turn = Last
    BY <2>1, <2>2, <2>4 DEF Running, PageInv, TypeOK, PageTypeOK
  <2>10. LoopsWait'
    BY <2>1, <2>4, <2>5, <2>6, <2>9 DEF PageInv, LoopsWait, Last
  <2> QED BY <2>1, <2>5, <2>7, <2>8, <2>10 DEF PageInv, TypeOK, PageTypeOK
<1>5. CASE Saved(l)
  <2>1. loop[l] \in Running /\ loop[l].read \in Recorded /\ status # "none"
    BY <1>5 DEF Saved, PageInv, TypeOK, PageTypeOK, Running
  <2>2. [loop EXCEPT ![l] = Idle] \in [Loops -> Running \cup {Idle}]
    BY DEF PageInv, TypeOK, PageTypeOK
  <2>3. \A x \in Loops : [loop EXCEPT ![l] = Idle][x] = loop[x] \/ [loop EXCEPT ![l] = Idle][x] = Idle
    BY DEF PageInv, TypeOK, PageTypeOK
  <2>4. overtaken' \in BOOLEAN
    BY <1>5 DEF Saved, PageInv, TypeOK, PageTypeOK
  <2>5. answer \in Recorded \cup {Idle, Due}
    BY DEF PageInv, TypeOK, PageTypeOK
  <2> QED BY <1>5, <2>1, <2>2, <2>3, <2>4, <2>5, RenderInv DEF Saved
<1>6. CASE Stop(l)
  BY <1>6, StopInv DEF Stop
<1> QED BY <1>1, <1>2, <1>3, <1>4, <1>5, <1>6 DEF Saving

\* The answer to a start or a completion.
LEMMA AnswerInv ==
    ASSUME PageInv, Answered \/ ShowAnswer \/ AnswerLost
    PROVE  PageTypeOK' /\ LoopsWait'
<1>1. status # "none" /\ loop \in [Loops -> Running \cup {Idle}]
  BY PageAssumption DEF Answered, ShowAnswer, AnswerLost, PageInv, TypeOK, PageTypeOK
<1>2. CASE Answered
  <2>1. /\ answer = Due /\ answer' = result
        /\ UNCHANGED <<form, loop, shown, late, overtaken, status, result, request>>
    BY <1>2 DEF Answered
  <2>2. answer' \in Recorded
    BY <2>1, ResultTyped DEF PageInv
  <2>3. late' \subseteq Unrendered(loop', answer')
    BY <2>1, <2>2 DEF PageInv, TypeOK, PageTypeOK, Unrendered
  <2> QED BY <1>1, <2>1, <2>2, <2>3 DEF PageInv, TypeOK, PageTypeOK, LoopsWait
<1>3. CASE ShowAnswer
  <2>1. overtaken' \in BOOLEAN
    BY <1>3 DEF ShowAnswer, PageInv, TypeOK, PageTypeOK
  <2> QED BY <1>1, <1>3, <2>1, RenderInv DEF ShowAnswer
<1>4. CASE AnswerLost
  <2>1. /\ answer' = Idle /\ late' = late \ {Page}
        /\ UNCHANGED <<form, loop, shown, overtaken, status, result, request>>
    BY <1>4 DEF AnswerLost
  <2>2. late' \subseteq Unrendered(loop', answer')
    BY <2>1 DEF PageInv, TypeOK, PageTypeOK, Unrendered
  <2> QED BY <1>1, <2>1, <2>2 DEF PageInv, TypeOK, PageTypeOK, LoopsWait
<1> QED BY <1>2, <1>3, <1>4

LEMMA NextOneAnswer == PageInv /\ [Next]_vars => OneAnswer'
<1> SUFFICES ASSUME PageInv, [Next]_vars,
                    request'[Page] # NoRequest, request'[Page].op = "complete"
             PROVE  answer' = Idle
  BY DEF OneAnswer
<1> USE SlotsOfPage, WorkbenchAssumption DEF OneAnswer
<1>1. request \in [Slots -> Requests \cup {NoRequest}] /\ OneAnswer
  BY DEF PageInv, TypeOK, ServerTypeOK
<1>2. ASSUME answer' = answer, request'[Page] = request[Page]
      PROVE  answer' = Idle
  BY <1>1, <1>2
<1>3. CASE UNCHANGED vars
  BY <1>2, <1>3 DEF vars
<1>4. CASE Previews \/ LogDefect
  BY <1>2, <1>4 DEF Previews, CreatePreview, Expire, RevokePreview, LogDefect, CreateDefect
<1>5. CASE StartSession
  BY <1>1, <1>5 DEF StartSession, CreateSession, PageInv, RequestsKept
<1>6. CASE \E c \in Criteria, outcome \in Outcomes : Choose(c, outcome)
  BY <1>2, <1>6 DEF Choose
<1>7. ASSUME NEW l \in Loops, Saving(l)
      PROVE  answer' = Idle
  <2>1. answer' = answer
    BY <1>7 DEF Saving, Save, Post, Posted, Reload, Saved, Render, Stop
  <2>2. request'[Page] = request[Page]
    BY <1>1, <1>7 DEF Saving, Save, Post, DecideResult, Decide, Posted, CommitResult, Answer,
                      Reload, Saved, Stop
  <2> QED BY <1>2, <2>1, <2>2
<1>8. CASE Complete
  BY <1>8 DEF Complete
<1>9. CASE Completed \/ ClientCompleted \/ ClientRecorded \/ DefectUpdated \/ Dropped
  <2>1. PICK s \in Slots : Answer(s)
    BY <1>9 DEF Completed, ClientCompleted, ClientRecorded, DefectUpdated, Dropped,
                CommitVerdict, CommitResult, CommitDefect, Drop
  <2>2. request'[Page] = request[Page] \/ request'[Page] = NoRequest
    BY <1>1, <2>1 DEF Answer
  <2>3. CASE Completed
    BY <1>1, <2>3 DEF Completed, CommitVerdict, Answer
  <2>4. answer' = answer \/ Completed
    BY <1>9 DEF ClientCompleted, ClientRecorded, DefectUpdated, Dropped
  <2> QED BY <1>2, <2>2, <2>3, <2>4
<1>10. CASE Answered
  BY <1>1, <1>10, PageAssumption DEF Answered
<1>11. CASE ShowAnswer \/ AnswerLost
  BY <1>11 DEF ShowAnswer, AnswerLost, Render
<1>12. ASSUME NEW to \in {"open", "closed"}, NEW s \in {Page, Client},
              DecideDefect(s, to), answer' = answer
       PROVE  answer' = Idle
  <2>1. s = Client
    BY <1>1, <1>12 DEF DecideDefect, Decide
  <2> QED BY <1>1, <1>2, <1>12, <2>1 DEF DecideDefect, Decide
<1>13. CASE UpdateDefect
  BY <1>12, <1>13 DEF UpdateDefect
<1>14. CASE ClientAsks
  <2>1. request'[Page] = request[Page]
    BY <1>1, <1>14 DEF ClientAsks, DecideResult, DecideVerdict, DecideDefect, Decide, CreateDefect
  <2> QED BY <1>2, <1>14, <2>1 DEF ClientAsks
<1> QED
  BY <1>3, <1>4, <1>5, <1>6, <1>7, <1>8, <1>9, <1>10, <1>11, <1>13, <1>14 DEF Next

LEMMA NextPageInv == PageInv /\ [Next]_vars => PageInv'
<1> SUFFICES ASSUME PageInv, [Next]_vars PROVE PageInv'
  OBVIOUS
<1> USE SlotsOfPage
<1>1. ServerInv'
  BY Steps, ServerStepInv DEF PageInv, ServerInv, TypeOK
<1>2. SUFFICES PageTypeOK' /\ LoopsWait'
  BY <1>1, NextOneAnswer DEF PageInv, ServerInv, TypeOK
<1>3. CASE UNCHANGED vars
  BY <1>3, UnseenInv DEF vars
<1>4. CASE Previews
  BY <1>4, UnseenInv DEF Previews, CreatePreview, Expire, RevokePreview
<1>5. CASE StartSession
  <2>1. /\ status = "none" /\ status' = "open" /\ answer' = Due
        /\ UNCHANGED <<form, loop, shown, late, overtaken, result, request>>
    BY <1>5 DEF StartSession, CreateSession
  <2>2. late' \subseteq Unrendered(loop', answer')
    BY <2>1, PageAssumption DEF PageInv, TypeOK, PageTypeOK, Unrendered
  <2> QED BY <2>1, <2>2 DEF PageInv, TypeOK, PageTypeOK, LoopsWait
<1>6. ASSUME NEW c \in Criteria, NEW o \in Outcomes, Choose(c, o)
      PROVE  PageTypeOK' /\ LoopsWait'
  <2>1. form \in Forms
    BY <1>6 DEF Choose, PageInv, TypeOK, PageTypeOK
  <2>2. form' \in Forms
    BY <1>6, <2>1 DEF Choose, Forms
  <2>3. form # NoForm /\ form' # NoForm /\ status # "none"
    BY <1>6, <2>2, PageAssumption DEF Choose, PageInv, TypeOK, PageTypeOK
  <2>4. UNCHANGED <<loop, answer, shown, late, overtaken, status, result, request>>
    BY <1>6 DEF Choose
  <2> QED
    BY <2>2, <2>3, <2>4 DEF PageInv, TypeOK, PageTypeOK, LoopsWait, Unrendered
<1>7. CASE \E l \in Loops : Saving(l)
  BY <1>7, SavingInv
<1>8. CASE Complete
  BY <1>8, AskUnseen DEF Complete
<1>9. ASSUME NEW s \in Slots, CommitVerdict(s)
      PROVE  /\ status # "none" /\ status' # "none" /\ result' = result
             /\ \A l \in Loops : request'[l] = request[l] \/ request'[l] = NoRequest
  <2>1. request[s].verdict \in Verdicts
    BY <1>9 DEF CommitVerdict, PageInv, TypeOK, ServerTypeOK
  <2> QED BY <1>9, <2>1, AnswerUnseen DEF CommitVerdict, PageInv, RequestsKept
<1>10. CASE Completed
  <2>1. /\ answer = Idle /\ answer' = Due
        /\ UNCHANGED <<form, loop, shown, late, overtaken>>
    BY <1>10 DEF Completed, CommitVerdict, PageInv, OneAnswer
  <2>2. late' \subseteq Unrendered(loop', answer')
    BY <2>1, PageAssumption DEF PageInv, TypeOK, PageTypeOK, Unrendered
  <2>3. CommitVerdict(Page)
    BY <1>10 DEF Completed
  <2> QED BY <1>9, <2>1, <2>2, <2>3 DEF PageInv, TypeOK, PageTypeOK, LoopsWait
<1>11. CASE ClientCompleted
  BY <1>9, <1>11, UnseenInv DEF ClientCompleted
<1>12. CASE Answered \/ ShowAnswer \/ AnswerLost
  BY <1>12, AnswerInv
<1>13. CASE CreateDefect /\ UNCHANGED pageVars
  BY <1>13, UnseenInv DEF CreateDefect
<1>14. CASE UpdateDefect
  BY <1>14, AskUnseen DEF UpdateDefect
<1>15. CASE ClientAsks
  BY <1>13, <1>15, AskUnseen DEF ClientAsks
<1>16. CASE ClientRecorded
  <2>1. \A l \in Loops : request'[l] = request[l] \/ request'[l] = NoRequest
    BY <1>16, AnswerUnseen DEF ClientRecorded, CommitResult
  <2>2. shown' \subseteq {c \in Criteria : result'[c] = "fail"}
    BY <1>16, StillShownTyped DEF ClientRecorded, PageInv, TypeOK, PageTypeOK
  <2>3. UNCHANGED <<form, loop, answer, late, overtaken, status>>
    BY <1>16 DEF ClientRecorded, CommitResult
  <2> QED BY <2>1, <2>2, <2>3 DEF PageInv, TypeOK, PageTypeOK, LoopsWait, Unrendered
<1>17. CASE DefectUpdated
  <2>1. PICK s \in {Page, Client} : CommitDefect(s)
    BY <1>17 DEF DefectUpdated
  <2> QED BY <1>17, <2>1, AnswerUnseen, UnseenInv DEF DefectUpdated, CommitDefect
<1>18. CASE Dropped
  <2>1. PICK s \in Slots :
            /\ Drop(s)
            /\ IF s \in Loops
               THEN loop' = [loop EXCEPT ![s] = Idle] /\ late' = late \ {s}
               ELSE UNCHANGED <<loop, late>>
            /\ UNCHANGED <<form, answer, shown, overtaken>>
    BY <1>18 DEF Dropped
  <2>2. /\ \A l \in Loops : request'[l] = request[l] \/ request'[l] = NoRequest
        /\ UNCHANGED <<status, result>>
    BY <2>1, AnswerUnseen DEF Drop
  <2>3. CASE s \in Loops
    BY <2>1, <2>2, <2>3, StopInv
  <2>4. CASE s \notin Loops
    BY <2>1, <2>2, <2>4, UnseenInv
  <2> QED BY <2>3, <2>4
<1> QED
  BY <1>3, <1>4, <1>5, <1>6, <1>7, <1>8, <1>9, <1>10, <1>13, <1>14, <1>15, <1>16, <1>17, <1>18,
     <1>11, <1>12
  DEF Next, LogDefect

LEMMA InitPageInv == Init => PageInv
<1> SUFFICES ASSUME Init PROVE PageInv
  OBVIOUS
<1>1. ServerInv
  BY ServerInitInv DEF Init
<1>2. PageTypeOK
  BY DEF Init, ServerInit, PageTypeOK, Unrendered
<1>3. LoopsWait /\ OneAnswer
  BY DEF Init, LoopsWait, OneAnswer
<1> QED BY <1>1, <1>2, <1>3 DEF PageInv, ServerInv, TypeOK

\* The types of the session, its results and requests, and of the page and its
\* loops, whatever overlaps and whatever gets lost.  A session has a verdict
\* only with a result for every criterion.
THEOREM WorkbenchTypeCorrect == Spec => []TypeOK
<1>1. PageInv => TypeOK
  BY DEF PageInv
<1> QED BY <1>1, InitPageInv, NextPageInv, PTL DEF Spec

-----------------------------------------------------------------------------
(* Verdicts.                                                               *)

\* A request that has seen every commit and writes a result or a verdict has an
\* open session, and the verdict is what the session would get now.
Grounded ==
    \A s \in fresh : request[s] # NoRequest =>
        /\ request[s].op \in {"result", "complete"} => status = "open"
        /\ request[s].op = "complete" => AllRecorded /\ request[s].verdict = Verdict

\* As long as nothing raced, results agree with the verdict of the session.
VerdictInv == raced \/ (VerdictUnlessRaced /\ Grounded)

LEMMA InitVerdictInv == Init => VerdictInv
BY DEF Init, ServerInit, VerdictInv, VerdictUnlessRaced, Grounded

LEMMA NextVerdictInv ==
    ServerInv /\ VerdictInv /\ ServerStep => VerdictInv'
<1> SUFFICES ASSUME ServerInv, VerdictInv, ServerStep, ~raced'
             PROVE  VerdictUnlessRaced' /\ Grounded'
  BY DEF VerdictInv
<1> USE DEF ServerInv, ServerTypeOK, Verdicts
<1>1. ~raced
  BY DEF ServerStep, CreatePreview, Expire, RevokePreview, CreateSession, CreateDefect,
         Decide, CommitResult, CommitVerdict, CommitDefect, Drop
<1>2. /\ status = "accepted" => \A c \in Criteria : result[c] = "pass"
      /\ status = "failed" => (\E c \in Criteria : result[c] = "fail") \/ defect # "absent"
      /\ Grounded
  BY <1>1 DEF VerdictInv, VerdictUnlessRaced
<1>3. CASE UNCHANGED serverVars
  BY <1>2, <1>3 DEF VerdictUnlessRaced, Grounded, AllRecorded, Verdict, Blocking
<1>4. CASE CreatePreview \/ Expire \/ RevokePreview
  BY <1>2, <1>4 DEF CreatePreview, Expire, RevokePreview,
                    VerdictUnlessRaced, Grounded, AllRecorded, Verdict, Blocking
<1>5. CASE CreateSession
  <2>1. status = "none" /\ status' = "open" /\ UNCHANGED <<result, defect, request, fresh>>
    BY <1>5 DEF CreateSession
  <2> QED BY <1>2, <2>1 DEF VerdictUnlessRaced, Grounded, AllRecorded, Verdict, Blocking
<1>6. CASE CreateDefect
  BY <1>2, <1>6 DEF CreateDefect, VerdictUnlessRaced, Grounded
<1>7. ASSUME NEW s \in Slots, NEW r \in Requests, Justified(r), Decide(s, r)
      PROVE  VerdictUnlessRaced' /\ Grounded'
  <2>1. /\ request'[s] = r /\ fresh' = fresh \cup {s}
        /\ \A x \in Slots \ {s} : request'[x] = request[x]
        /\ UNCHANGED <<status, result, defect>>
    BY <1>7 DEF Decide
  <2>2. AllRecorded' = AllRecorded /\ Verdict' = Verdict
    BY <2>1 DEF AllRecorded, Verdict, Blocking
  <2>3. VerdictUnlessRaced'
    BY <1>2, <2>1 DEF VerdictUnlessRaced
  <2>4. Grounded'
    BY <1>2, <1>7, <2>1, <2>2 DEF Grounded, Justified
  <2> QED BY <2>3, <2>4
<1>8. ASSUME NEW s \in Slots, CommitResult(s)
      PROVE  VerdictUnlessRaced' /\ fresh' = {}
  <2>1. status = "open" \/ s \in fresh
    BY <1>8 DEF CommitResult
  <2>2. status = "open"
    BY <1>2, <1>8, <2>1 DEF CommitResult, Grounded
  <2> QED BY <1>8, <2>2 DEF CommitResult, VerdictUnlessRaced
<1>9. ASSUME NEW s \in Slots, CommitVerdict(s)
      PROVE  VerdictUnlessRaced' /\ fresh' = {}
  <2>1. s \in fresh /\ request[s] # NoRequest /\ request[s].op = "complete"
    BY <1>9 DEF CommitVerdict
  <2>2. request[s].verdict = Verdict /\ AllRecorded
    BY <1>2, <2>1 DEF Grounded
  <2>3. /\ status' = Verdict /\ fresh' = {}
        /\ UNCHANGED <<result, defect>>
    BY <1>9, <2>2 DEF CommitVerdict
  <2> QED BY <2>2, <2>3 DEF Verdict, Blocking, AllRecorded, VerdictUnlessRaced
<1>10. ASSUME NEW s \in Slots, CommitDefect(s)
       PROVE  VerdictUnlessRaced' /\ fresh' = {}
  <2>1. /\ request[s] \in Requests /\ request[s].op = "defect"
        /\ defect' = request[s].status /\ fresh' = {}
        /\ UNCHANGED <<status, result>>
    BY <1>10 DEF CommitDefect
  <2>2. defect' # "absent"
    BY <2>1
  <2> QED BY <1>2, <2>1, <2>2 DEF VerdictUnlessRaced
<1>11. ASSUME NEW s \in Slots, Drop(s)
       PROVE  VerdictUnlessRaced' /\ Grounded'
  <2>1. /\ fresh' = fresh \ {s}
        /\ \A x \in Slots \ {s} : request'[x] = request[x]
        /\ UNCHANGED <<status, result, defect>>
    BY <1>11 DEF Drop, Answer
  <2>2. AllRecorded' = AllRecorded /\ Verdict' = Verdict
    BY <2>1 DEF AllRecorded, Verdict, Blocking
  <2> QED BY <1>2, <2>1, <2>2 DEF VerdictUnlessRaced, Grounded
<1> QED
  BY <1>3, <1>4, <1>5, <1>6, <1>7, <1>8, <1>9, <1>10, <1>11 DEF ServerStep, CreateDefect, Grounded

\* For any criteria, clients and overlapping requests: an accepted session has
\* a pass for every criterion and a failed one has a reason, unless a verdict or
\* a later result was committed without seeing the other.
THEOREM VerdictsMeanResults == Spec => []VerdictUnlessRaced
<1>1. PageInv /\ [Next]_vars => ServerInv /\ ServerStep
  BY Steps DEF PageInv, ServerInv, TypeOK
<1>2. VerdictInv => VerdictUnlessRaced
  BY DEF VerdictInv, VerdictUnlessRaced
<1> QED
  BY <1>1, <1>2, InitPageInv, NextPageInv, InitVerdictInv, NextVerdictInv, PTL DEF Spec

\* A verdict is final, unless it was decided before another commit and written
\* after it, or a result of before the verdict was written after it.
THEOREM VerdictsAreFinal == Spec => VerdictFinal
<1>1. ServerInv /\ VerdictInv /\ ServerStep
      => ((status \in Verdicts /\ ~raced') => status' = status)
  <2> SUFFICES ASSUME ServerInv, VerdictInv, ServerStep, status \in Verdicts, ~raced'
               PROVE  status' = status
    OBVIOUS
  <2>1. ~raced
    BY DEF ServerStep, CreatePreview, Expire, RevokePreview, CreateSession, CreateDefect,
           Decide, CommitResult, CommitVerdict, CommitDefect, Drop, ServerInv, ServerTypeOK
  <2>2. ASSUME NEW s \in Slots, CommitVerdict(s)
        PROVE  FALSE
    <3>1. s \in fresh /\ request[s] # NoRequest /\ request[s].op = "complete"
      BY <2>2 DEF CommitVerdict
    <3>2. Grounded
      BY <2>1 DEF VerdictInv
    <3> QED BY <3>1, <3>2 DEF Grounded
  <2> QED
    BY <2>2 DEF ServerStep, CreatePreview, Expire, RevokePreview, CreateSession,
                CreateDefect, Decide, CommitResult, CommitDefect, Drop
<1>2. PageInv /\ [Next]_vars => ServerInv /\ ServerStep
  BY Steps DEF PageInv, ServerInv, TypeOK
<1>3. PageInv /\ VerdictInv /\ [Next]_vars
      => [(status \in Verdicts /\ ~raced') => status' = status]_serverVars
  BY <1>1, <1>2
<1>4. PageInv /\ VerdictInv /\ [Next]_vars => VerdictInv'
  BY <1>2, NextVerdictInv
<1> QED
  BY <1>3, <1>4, InitPageInv, NextPageInv, InitVerdictInv, PTL DEF Spec, VerdictFinal

-----------------------------------------------------------------------------
(* What the page shows of recorded failures.                               *)

\* The selects show the failures, and so does every answer that no rendering
\* has overtaken.
FailuresRead ==
    /\ \A c \in shown : c \in form.touched \/ form.value[c] = "fail"
    /\ \A l \in Loops \ late :
           loop[l] # Idle /\ loop[l].read # Idle => \A c \in shown : loop[l].read[c] = "fail"
    /\ Page \notin late /\ answer \in Recorded => \A c \in shown : answer[c] = "fail"

ShownInv == overtaken \/ FailuresRead

\* An answer that has all the failures shown so far.
LEMMA RenderShown ==
    ASSUME PageInv, NEW outcomes \in Recorded,
           NEW running \in [Loops -> Running \cup {Idle}],
           form = NoForm => \A l \in Loops : running[l] = Idle,
           NEW awaited, Render(outcomes, running, awaited),
           \A c \in shown : outcomes[c] = "fail"
    PROVE  FailuresRead'
<1>1. form \in Forms \cup {NoForm}
  BY DEF PageInv, TypeOK, PageTypeOK
<1>2. \A l \in Loops : /\ loop'[l] = Idle <=> running[l] = Idle
                       /\ loop'[l].read = running[l].read
  BY <1>1, DetachedTyped DEF Render
<1>3. \A c \in shown' : c \in Criteria /\ outcomes[c] = "fail"
  BY DEF Render, PageInv, TypeOK, PageTypeOK
<1>4. \A c \in shown' : form'.value[c] = "fail"
  BY <1>3 DEF Render, Rendered
<1>5. /\ \A l \in Loops : loop'[l] # Idle /\ loop'[l].read # Idle => l \in late'
      /\ answer' \in Recorded => Page \in late'
  BY <1>2 DEF Render, Unrendered
<1> QED BY <1>4, <1>5 DEF FailuresRead

\* Neither a failure is added nor an answer.
LEMMA KeptShown ==
    ASSUME FailuresRead, shown' \subseteq shown,
           UNCHANGED <<form, answer, late>>,
           \A l \in Loops : \/ loop'[l] = Idle \/ loop'[l].read = Idle
                            \/ loop[l] # Idle /\ loop'[l].read = loop[l].read
    PROVE  FailuresRead'
BY DEF FailuresRead

LEMMA StopShown ==
    ASSUME PageInv, FailuresRead, NEW l \in Loops,
           loop' = [loop EXCEPT ![l] = Idle], late' = late \ {l}, UNCHANGED <<form, answer, shown>>
    PROVE  FailuresRead'
BY WorkbenchAssumption DEF FailuresRead, PageInv, TypeOK, PageTypeOK

LEMMA SavingShown ==
    ASSUME PageInv, ShownInv, NEW l \in Loops, Saving(l), ~overtaken'
    PROVE  FailuresRead'
<1>1. loop \in [Loops -> Running \cup {Idle}]
  BY DEF PageInv, TypeOK, PageTypeOK
<1>2. FailuresRead
  BY DEF ShownInv, Saving, Save, Post, pageVars, Posted, Reload, Saved, Stop
<1>3. CASE Save(l)
  <2>1. UNCHANGED <<form, answer, late, shown>>
    BY <1>3 DEF Save
  <2>2. loop'[l].read = Idle /\ \A x \in Loops \ {l} : loop'[x] = loop[x]
    BY <1>1, <1>3 DEF Save
  <2> QED BY <1>2, <2>1, <2>2, KeptShown
<1>4. CASE \E c \in Criteria : Post(l, c)
  BY <1>2, <1>4 DEF Post, FailuresRead
<1>5. CASE Posted(l)
  <2>1. UNCHANGED <<form, answer, late>> /\ shown' \subseteq shown
    BY <1>5 DEF Posted, StillShown
  <2>2. CASE loop[l] = Idle
    BY <1>2, <1>5, <2>1, <2>2, KeptShown DEF Posted
  <2>3. CASE loop[l] # Idle
    <3>1. loop' = [loop EXCEPT ![l].turn = @ + 1]
      BY <1>5, <2>3 DEF Posted
    <3>2. loop[l] \in Running
      BY <1>1, <2>3
    <3>3. loop'[l].read = loop[l].read
      BY <1>1, <3>1, <3>2 DEF Running
    <3>4. \A x \in Loops \ {l} : loop'[x] = loop[x]
      BY <1>1, <3>1
    <3> QED BY <1>2, <2>1, <2>3, <3>3, <3>4, KeptShown
  <2> QED BY <2>2, <2>3
<1>6. CASE Reload(l)
  <2>1. UNCHANGED <<form, answer, late, shown, result>>
    BY <1>6 DEF Reload
  <2>2. loop[l] \in Running
    BY <1>1, <1>6 DEF Reload
  <2>3. loop'[l].read = result /\ \A x \in Loops \ {l} : loop'[x] = loop[x]
    BY <1>1, <1>6, <2>2 DEF Reload, Running
  <2>4. \A c \in shown : result[c] = "fail"
    BY DEF PageInv, TypeOK, PageTypeOK
  <2> QED BY <1>2, <2>1, <2>3, <2>4 DEF FailuresRead
<1>7. CASE Saved(l)
  <2>1. loop[l] # Idle /\ loop[l].read # Idle /\ l \notin late
    BY <1>7 DEF Saved
  <2>2. loop[l].read \in Recorded /\ form # NoForm
    BY <1>1, <2>1 DEF PageInv, TypeOK, PageTypeOK, Running
  <2>3. \A c \in shown : loop[l].read[c] = "fail"
    BY <1>2, <2>1 DEF FailuresRead
  <2>4. [loop EXCEPT ![l] = Idle] \in [Loops -> Running \cup {Idle}]
    BY <1>1
  <2> QED BY <1>7, <2>2, <2>3, <2>4, RenderShown DEF Saved
<1>8. CASE Stop(l)
  BY <1>2, <1>8, StopShown DEF Stop
<1> QED BY <1>3, <1>4, <1>5, <1>6, <1>7, <1>8 DEF Saving

LEMMA NextShownInv == PageInv /\ ShownInv /\ [Next]_vars => ShownInv'
<1> SUFFICES ASSUME PageInv, ShownInv, [Next]_vars, ~overtaken' PROVE FailuresRead'
  BY DEF ShownInv
<1>1. ASSUME ~overtaken
      PROVE  FailuresRead
  BY <1>1 DEF ShownInv
<1>2. CASE UNCHANGED pageVars
  BY <1>1, <1>2 DEF FailuresRead
<1>3. CASE StartSession
  BY <1>1, <1>3, PageAssumption DEF StartSession, FailuresRead
<1>4. ASSUME NEW c \in Criteria, NEW o \in Outcomes, Choose(c, o)
      PROVE  FailuresRead'
  <2>1. form \in Forms /\ shown \subseteq Criteria
    BY <1>4 DEF Choose, PageInv, TypeOK, PageTypeOK
  <2>2. /\ form'.touched = form.touched \cup {c}
        /\ \A d \in Criteria \ {c} : form'.value[d] = form.value[d]
    BY <1>4, <2>1 DEF Choose, Forms
  <2>3. FailuresRead /\ UNCHANGED <<loop, answer, shown, late>>
    BY <1>1, <1>4 DEF Choose
  <2> QED BY <2>1, <2>2, <2>3 DEF FailuresRead
<1>5. CASE \E l \in Loops : Saving(l)
  BY <1>5, SavingShown
<1>6. CASE Completed \/ AnswerLost
  BY <1>1, <1>6, WorkbenchAssumption, PageAssumption DEF Completed, AnswerLost, FailuresRead
<1>7. CASE Answered
  <2>1. \A c \in shown : result[c] = "fail"
    BY DEF PageInv, TypeOK, PageTypeOK
  <2> QED BY <1>1, <1>7, <2>1 DEF Answered, FailuresRead
<1>8. CASE ShowAnswer
  <2>1. Page \notin late /\ FailuresRead
    BY <1>1, <1>8 DEF ShowAnswer
  <2>2. loop \in [Loops -> Running \cup {Idle}] /\ (form = NoForm => \A l \in Loops : loop[l] = Idle)
    BY DEF PageInv, TypeOK, PageTypeOK
  <2>3. answer \in Recorded /\ \A c \in shown : answer[c] = "fail"
    BY <1>8, <2>1 DEF ShowAnswer, FailuresRead
  <2> QED BY <1>8, <2>2, <2>3, RenderShown DEF ShowAnswer
<1>9. CASE ClientRecorded
  <2>1. UNCHANGED <<form, loop, answer, late, overtaken>> /\ shown' \subseteq shown
    BY <1>9 DEF ClientRecorded, StillShown
  <2> QED BY <1>1, <2>1, KeptShown
<1>10. CASE Dropped
  <2>1. PICK s \in Slots :
            /\ IF s \in Loops
               THEN loop' = [loop EXCEPT ![s] = Idle] /\ late' = late \ {s}
               ELSE UNCHANGED <<loop, late>>
            /\ UNCHANGED <<form, answer, shown, overtaken>>
    BY <1>10 DEF Dropped
  <2>2. CASE s \in Loops
    BY <1>1, <2>1, <2>2, StopShown
  <2>3. CASE s \notin Loops
    BY <1>1, <2>1, <2>3 DEF FailuresRead
  <2> QED BY <2>2, <2>3
<1> QED
  BY <1>2, <1>3, <1>4, <1>5, <1>6, <1>9, <1>10, <1>7, <1>8
  DEF Next, vars, Previews, Complete, LogDefect, UpdateDefect,
      ClientAsks, ClientCompleted, DefectUpdated

\* For any number of criteria, of save loops and of lost answers: a recorded
\* failure that the page has rendered keeps its select until the tester changes
\* it, unless an answer, of a save or of a completion, was read before another
\* one was rendered and is rendered after it.
THEOREM FailuresStayShown == Spec => []ShownFailureStays
<1>1. Init => ShownInv
  BY DEF Init, ShownInv, FailuresRead
<1>2. ShownInv => ShownFailureStays
  BY DEF ShownInv, FailuresRead, ShownFailureStays
<1> QED
  BY <1>1, <1>2, InitPageInv, NextPageInv, NextShownInv, PTL DEF Spec

=============================================================================
