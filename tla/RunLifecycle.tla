---------------------------- MODULE RunLifecycle ----------------------------
(***************************************************************************)
(* What an agent run promises to the people who watch it: the phases it    *)
(* goes through and the worker output it yields, with no sessions, leases, *)
(* loads or events.  AgentRun implements it (AgentRun!Lifecycle).          *)
(***************************************************************************)
EXTENDS Naturals

CONSTANT Runs

VARIABLES phase,   \* where the run is
          output   \* change sets a worker has delivered for it

Move(r, from, to) ==
    /\ phase[r] \in from
    /\ phase' = [phase EXCEPT ![r] = to]

\* An operator creates, starts or resumes, pauses and cancels.
Create(r) == Move(r, {"absent"}, "queued") /\ UNCHANGED output
Start(r)  == Move(r, {"queued", "paused"}, "running") /\ UNCHANGED output
Pause(r)  == Move(r, {"running"}, "paused") /\ UNCHANGED output
Cancel(r) == Move(r, {"queued", "running", "paused"}, "cancelled") /\ UNCHANGED output

\* A worker completes the run and delivers its only change set in one step.
Complete(r) ==
    /\ Move(r, {"running"}, "completed")
    /\ output[r] = 0
    /\ output' = [output EXCEPT ![r] = 1]

\* Only a running run fails: completed, failed and cancelled runs have ended.
Fail(r) == Move(r, {"running"}, "failed") /\ UNCHANGED output

\* Somebody overwrites a change he has not seen: nothing is promised any more.
Overwrite(r) ==
    /\ phase[r] # "absent"
    /\ phase' = [phase EXCEPT ![r] = "overwritten"]
    /\ output' = [output EXCEPT ![r] = 0]

Init == phase = [r \in Runs |-> "absent"] /\ output = [r \in Runs |-> 0]

Next == \E r \in Runs : \/ Create(r) \/ Start(r) \/ Pause(r) \/ Cancel(r)
                        \/ Complete(r) \/ Fail(r) \/ Overwrite(r)

Spec == Init /\ [][Next]_<<phase, output>>
=============================================================================
