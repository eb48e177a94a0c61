----------------------------- MODULE Workbench ------------------------------
(***************************************************************************)
(* The acceptance workbench (backend/app/static/workbench.js), one page    *)
(* without a framework, on the server of Acceptance and next to another    *)
(* client of its API.                                                      *)
(*                                                                         *)
(* A handler runs until it awaits an answer; buttons are not disabled      *)
(* while it waits.  Saving is a loop: it posts the selects one by one,     *)
(* reads their values when their turn comes, stops at the first error      *)
(* without undoing or reloading anything, and in the end reads the session *)
(* and renders it.  Rendering replaces the selects; a loop that is still   *)
(* running keeps the selects it started with.                              *)
(*                                                                         *)
(* Starting and completing the session are answered with the session as    *)
(* the server reads it after the commit.  Between that read, or a loop's,  *)
(* and the rendering of the answer anything may happen.  (The page has one *)
(* of the two out at a time.)                                              *)
(***************************************************************************)
EXTENDS Acceptance

CONSTANTS
    Loops,          \* save loops at one time
    Page, Client,   \* the page's other requests; the other client
    Idle,           \* a loop that is not running, nothing read yet, no answer due
    Due,            \* the session is still to be read for the answer
    NoForm,         \* no session on the page
    OnPage          \* a loop over the selects that are on the page

ASSUME WorkbenchAssumption ==
    /\ Slots = Loops \cup {Page, Client}
    /\ Page \notin Loops /\ Client \notin Loops /\ Page # Client
    /\ Criteria = 1 .. Cardinality(Criteria)

VARIABLES
    form,           \* the selects, and those the tester has changed since they
                    \* were rendered
    loop,           \* of each save loop: its turn, its selects, what it has read
    answer,         \* the answer to the page's start or completion of the session
    shown,          \* criteria with a recorded failure that was rendered,
    late,           \* those whose answer was read before something was rendered, and
    overtaken       \* was such an answer rendered (for the properties only)

pageVars == <<form, loop, answer, shown, late, overtaken>>
vars == <<serverVars, pageVars>>

Recorded == [Criteria -> Outcomes \cup {"none"}]
Forms    == [value : [Criteria -> Outcomes], touched : SUBSET Criteria]

\* One turn after the last criterion the loop reads the session.
Last  == Cardinality(Criteria) + 1

Running == [turn : 1 .. Last, selects : [Criteria -> Outcomes] \cup {OnPage},
            read : Recorded \cup {Idle}]

ASSUME PageAssumption ==
    /\ NoForm \notin Forms
    /\ OnPage \notin [Criteria -> Outcomes]
    /\ Idle \notin Recorded \cup Running
    /\ Due \notin Recorded \cup {Idle}

\* Whose answer has been read and not rendered.
Unrendered(running, awaited) ==
    {l \in Loops : running[l] # Idle /\ running[l].read # Idle}
        \cup {p \in {Page} : awaited \in Recorded}

\* Only the page starts the session.
PageTypeOK ==
    /\ form \in Forms \cup {NoForm}
    /\ loop \in [Loops -> Running \cup {Idle}]
    /\ answer \in Recorded \cup {Idle, Due}
    /\ shown \subseteq {c \in Criteria : result[c] = "fail"}
    /\ late \subseteq Unrendered(loop, answer)
    /\ overtaken \in BOOLEAN
    /\ form = NoForm => \A l \in Loops : loop[l] = Idle
    /\ status = "none" => form = NoForm /\ answer = Idle

TypeOK == ServerTypeOK /\ PageTypeOK

-----------------------------------------------------------------------------
(* Rendering.                                                              *)

\* Mutant of Rendered: the recorded outcomes are not selected.
RenderedAnew(outcomes) == [value |-> [c \in Criteria |-> "pass"], touched |-> {}]

\* renderSession: pass is the first option of a select.
Rendered(outcomes) ==
    [value   |-> [c \in Criteria |-> IF outcomes[c] = "none" THEN "pass" ELSE outcomes[c]],
     touched |-> {}]

\* The loops that are still running keep the selects they had.
Detached(running) ==
    [l \in Loops |-> IF running[l] # Idle /\ running[l].selects = OnPage
                     THEN [running[l] EXCEPT !.selects = form.value] ELSE running[l]]

\* An answer is rendered while loops are running and another is awaited.
Render(outcomes, running, awaited) ==
    /\ form' = Rendered(outcomes)
    /\ loop' = Detached(running)
    /\ answer' = awaited
    /\ shown' = shown \cup {c \in Criteria : outcomes[c] = "fail" /\ result[c] = "fail"}
    /\ late' = Unrendered(running, awaited)

\* The failures that are still recorded, after a result was committed.
StillShown == shown' = {c \in shown : result'[c] = "fail"}

-----------------------------------------------------------------------------
(* The page.                                                               *)

\* startSession
StartSession ==
    /\ CreateSession
    /\ answer' = Due
    /\ UNCHANGED <<form, loop, shown, late, overtaken>>

\* The server reads the session for the answer ...
Answered ==
    /\ answer = Due
    /\ answer' = result
    /\ UNCHANGED <<serverVars, form, loop, shown, late, overtaken>>

\* ... the page renders it when it arrives ...
ShowAnswer ==
    /\ answer \in Recorded
    /\ Render(answer, loop, Idle)
    /\ overtaken' = (overtaken \/ Page \in late)
    /\ UNCHANGED serverVars

\* ... or it gets lost.
AnswerLost ==
    /\ answer # Idle
    /\ answer' = Idle
    /\ late' = late \ {Page}
    /\ UNCHANGED <<serverVars, form, loop, shown, overtaken>>

\* The tester changes a select.
Choose(c, outcome) ==
    /\ form # NoForm
    /\ form.value[c] # outcome
    /\ form' = [form EXCEPT !.value[c] = outcome, !.touched = @ \cup {c}]
    /\ UNCHANGED <<serverVars, loop, answer, shown, late, overtaken>>

\* saveResults
Save(l) ==
    /\ form # NoForm
    /\ loop[l] = Idle /\ request[l] = NoRequest
    /\ loop' = [loop EXCEPT ![l] = [turn |-> 1, selects |-> OnPage, read |-> Idle]]
    /\ UNCHANGED <<serverVars, form, answer, shown, late, overtaken>>

Selects(l) == IF loop[l].selects = OnPage THEN form.value ELSE loop[l].selects

Post(l, c) ==
    /\ loop[l] # Idle /\ loop[l].turn = c
    /\ DecideResult(l, c, Selects(l)[c])
    /\ UNCHANGED pageVars

\* The server commits a result; the loop may have given up on it.
Posted(l) ==
    /\ CommitResult(l)
    /\ loop' = IF loop[l] = Idle THEN loop ELSE [loop EXCEPT ![l].turn = @ + 1]
    /\ StillShown
    /\ UNCHANGED <<form, answer, late, overtaken>>

\* The loop reads the session ...
Reload(l) ==
    /\ loop[l] # Idle /\ loop[l].turn = Last /\ loop[l].read = Idle
    /\ loop' = [loop EXCEPT ![l].read = result]
    /\ UNCHANGED <<serverVars, form, answer, shown, late, overtaken>>

\* ... and renders the answer when it arrives.
Saved(l) ==
    /\ loop[l] # Idle /\ loop[l].read # Idle
    /\ Render(loop[l].read, [loop EXCEPT ![l] = Idle], answer)
    /\ overtaken' = (overtaken \/ l \in late)
    /\ UNCHANGED serverVars

\* A request is refused, or it or its answer gets lost.
Stop(l) ==
    /\ loop[l] # Idle
    /\ loop' = [loop EXCEPT ![l] = Idle]
    /\ late' = late \ {l}
    /\ UNCHANGED <<serverVars, form, answer, shown, overtaken>>

\* completeSession
Complete ==
    /\ form # NoForm
    /\ answer = Idle
    /\ DecideVerdict(Page)
    /\ UNCHANGED pageVars

Completed ==
    /\ CommitVerdict(Page)
    /\ answer' = Due
    /\ UNCHANGED <<form, loop, shown, late, overtaken>>

\* createDefect; its session is the one on the page.
LogDefect == form # NoForm /\ CreateDefect /\ UNCHANGED pageVars

\* updateDefect
UpdateDefect ==
    /\ \E to \in {"open", "closed"} : DecideDefect(Page, to)
    /\ UNCHANGED pageVars

-----------------------------------------------------------------------------
\* Another client calls the API.
ClientAsks ==
    /\ \/ \E c \in Criteria, outcome \in Outcomes : DecideResult(Client, c, outcome)
       \/ DecideVerdict(Client)
       \/ \E to \in {"open", "closed"} : DecideDefect(Client, to)
       \/ CreateDefect
    /\ UNCHANGED pageVars

ClientRecorded ==
    /\ CommitResult(Client)
    /\ StillShown
    /\ UNCHANGED <<form, loop, answer, late, overtaken>>

ClientCompleted == CommitVerdict(Client) /\ UNCHANGED pageVars

DefectUpdated ==
    /\ \E s \in {Page, Client} : CommitDefect(s)
    /\ UNCHANGED pageVars

\* A loop whose post failed is over.
Dropped ==
    \E s \in Slots :
        /\ Drop(s)
        /\ IF s \in Loops
           THEN loop' = [loop EXCEPT ![s] = Idle] /\ late' = late \ {s}
           ELSE UNCHANGED <<loop, late>>
        /\ UNCHANGED <<form, answer, shown, overtaken>>

Previews == (CreatePreview \/ Expire \/ RevokePreview) /\ UNCHANGED pageVars

Init ==
    /\ ServerInit
    /\ form = NoForm
    /\ loop = [l \in Loops |-> Idle]
    /\ answer = Idle
    /\ shown = {}
    /\ late = {}
    /\ overtaken = FALSE

Saving(l) ==
    Save(l) \/ (\E c \in Criteria : Post(l, c)) \/ Posted(l) \/ Reload(l) \/ Saved(l) \/ Stop(l)

Next ==
    \/ Previews
    \/ StartSession
    \/ \E c \in Criteria, outcome \in Outcomes : Choose(c, outcome)
    \/ \E l \in Loops : Saving(l)
    \/ Complete \/ Completed
    \/ Answered \/ ShowAnswer \/ AnswerLost
    \/ LogDefect \/ UpdateDefect
    \/ ClientAsks \/ ClientRecorded \/ ClientCompleted
    \/ DefectUpdated
    \/ Dropped

Spec == Init /\ [][Next]_vars

-----------------------------------------------------------------------------
\* As long as a failure stays recorded that the page has rendered, its select
\* says so, until the tester changes it: a save overwrites it with a pass only
\* if somebody chose to, whatever answers got lost -- unless an answer, of a
\* save or of a completion, was read before another one was rendered and is
\* rendered after it: then the selects go back to what it found.  (A failure
\* the page has not rendered yet is overwritten by the default, pass.)
ShownFailureStays ==
    overtaken \/ \A c \in shown : c \in form.touched \/ form.value[c] = "fail"
=============================================================================
