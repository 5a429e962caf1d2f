----------------------------- MODULE ZaiClient -----------------------------
(***************************************************************************)
(* Image and video generation by the Zhipu client                          *)
(* (internal/zai/client.go): a request is submitted, a video's task is     *)
(* polled until it ends, and the result is downloaded into a file, with    *)
(* retries.  Calls run concurrently and share the output directory.        *)
(*                                                                         *)
(* Time of a video call is counted in poll intervals: the ticker fires     *)
(* once per interval and the deadline is MaxWait intervals away.  A        *)
(* request that is under way ends: the code gives a video's status request *)
(* no timeout of its own.  What a file holds is named by the call whose    *)
(* result was written.                                                     *)
(***************************************************************************)
EXTENDS Naturals

CONSTANTS
    Job,        \* calls to the client
    Empty,      \* no file
    Wanted,     \* the calls made: of which job, kind, and whether the file is named
    MaxWait,    \* opts.MaxWait, in poll intervals
    MaxRetries, \* download attempts, 3 in both callers
    LastSecond  \* bound on the clock

ASSUME ClientConstants ==
    Wanted \subseteq Job \X {"image", "video"} \X BOOLEAN
    /\ Empty \notin Job /\ MaxWait \in Nat /\ MaxRetries \in Nat \ {0} /\ LastSecond \in Nat
    /\ \A s \in 0 .. LastSecond : <<s>> \notin Job \* no caller's name is one made from the clock

VARIABLES
    job,   \* job[j]: the call
    files, \* files[path]: the output directory
    clock  \* the second, for the names made from time.Now().Unix()

clientVars == <<job, files, clock>>

Seconds == 0 .. LastSecond
Paths == Job \cup {<<s>> : s \in Seconds}

Outcomes == {"none", "file", "error", "timeout", "cancelled"}
JobState ==
    [pc : {"idle", "submit", "wait", "check", "download", "done"},
     kind : {"image", "video"}, named : BOOLEAN, path : Paths,
     task : {"none", "processing", "success", "fail"}, \* at the service
     immediate : BOOLEAN, tick : BOOLEAN, left : 0 .. MaxWait,
     cancelled : BOOLEAN, attempt : 0 .. MaxRetries, lastErr : BOOLEAN,
     outcome : Outcomes]

NoJob == [pc |-> "idle", kind |-> "image", named |-> TRUE, path |-> <<0>>, task |-> "none",
          immediate |-> FALSE, tick |-> FALSE, left |-> MaxWait, cancelled |-> FALSE,
          attempt |-> 0, lastErr |-> FALSE, outcome |-> "none"]

ClientInit == job = [j \in Job |-> NoJob] /\ files = [p \in Paths |-> Empty] /\ clock = 0

To(j, pc) == [job[j] EXCEPT !.pc = pc]
\* What is left of a call that has returned.
Done(j, outcome) ==
    [NoJob EXCEPT !.pc = "done", !.kind = job[j].kind, !.named = job[j].named,
                  !.path = job[j].path, !.outcome = outcome]
Return(j, outcome) == job' = [job EXCEPT ![j] = Done(j, outcome)] /\ UNCHANGED <<files, clock>>
Continue(j, state) == job' = [job EXCEPT ![j] = state] /\ UNCHANGED <<files, clock>>

-----------------------------------------------------------------------------
Call(j, kind, named) ==
    /\ job[j].pc = "idle"
    /\ Continue(j, [To(j, "submit") EXCEPT !.kind = kind, !.named = named])

\* A bug: opts.Filename is not looked at.
FileNameBySecond(j) == <<clock>>

\* opts.Filename, or a name made from the second.
FileName(j) == IF job[j].named THEN j ELSE <<clock>>

SubmitImage(j) ==
    /\ job[j].pc = "submit" /\ job[j].kind = "image"
    /\ \/ Return(j, "error")
       \/ Continue(j, [To(j, "download") EXCEPT !.path = FileName(j)])

SubmitVideo(j) ==
    /\ job[j].pc = "submit" /\ job[j].kind = "video"
    /\ \/ Return(j, "error")
       \/ Continue(j, [To(j, "wait") EXCEPT !.path = FileName(j), !.task = "processing",
                                            !.immediate = TRUE])

\* The branches of the select: any that is ready may be the one taken.
Cancelled(j) == job[j].pc = "wait" /\ job[j].cancelled /\ Return(j, "cancelled")
Expire(j) == job[j].pc = "wait" /\ job[j].left = 0 /\ Return(j, "timeout")
FirstPoll(j) ==
    /\ job[j].pc = "wait" /\ job[j].immediate
    /\ Continue(j, [To(j, "check") EXCEPT !.immediate = FALSE])
NextPoll(j) ==
    /\ job[j].pc = "wait" /\ job[j].tick
    /\ Continue(j, [To(j, "check") EXCEPT !.tick = FALSE])

\* A bug: the deadline is made in the loop, anew for every wait.
StillProcessingAnew(j) ==
    /\ job[j].task = "processing"
    /\ Continue(j, [To(j, "wait") EXCEPT !.left = MaxWait])

StillProcessing(j) == job[j].task = "processing" /\ Continue(j, To(j, "wait"))

\* A success without a URL is an error too.
CheckVideoStatus(j) ==
    /\ job[j].pc = "check"
    /\ \/ Return(j, "error")
       \/ job[j].task = "success" /\ Continue(j, To(j, "download"))
       \/ StillProcessing(j)

-----------------------------------------------------------------------------
\* A bug: every 404 is tried again, the last attempt's too.
NotFoundAgain(j) ==
    Continue(j, [job[j] EXCEPT !.attempt = @ + 1])

\* A 404 is tried again, except that of the last attempt.
NotFound(j) ==
    IF job[j].attempt < MaxRetries - 1
    THEN Continue(j, [job[j] EXCEPT !.attempt = @ + 1])
    ELSE Return(j, "error")

\* An attempt of downloadFile: a network error or a 404 may leave another,
\* another status or a failing read or write returns.
Download(j) ==
    /\ job[j].pc = "download" /\ job[j].attempt < MaxRetries
    /\ \/ Continue(j, [job[j] EXCEPT !.attempt = @ + 1, !.lastErr = TRUE])
       \/ NotFound(j)
       \/ Return(j, "error")
       \/ /\ job' = [job EXCEPT ![j] = Done(j, "file")]
          /\ files' = [files EXCEPT ![job[j].path] = j]
          /\ UNCHANGED clock

\* The loop ends: return lastErr, which is nil when no attempt set it.
Exhausted(j) ==
    /\ job[j].pc = "download" /\ job[j].attempt = MaxRetries
    /\ Return(j, IF job[j].lastErr THEN "error" ELSE "file")

-----------------------------------------------------------------------------
(* The service, the caller and the clock. *)

TaskEnds(j) ==
    /\ job[j].task = "processing"
    /\ \E end \in {"success", "fail"} : Continue(j, [job[j] EXCEPT !.task = end])

Cancel(j) ==
    /\ job[j].pc \in {"wait", "check"}
    /\ ~job[j].cancelled
    /\ Continue(j, [job[j] EXCEPT !.cancelled = TRUE])

\* An interval goes by.  The ticker's channel holds one tick.
Interval(j) ==
    /\ job[j].pc \in {"wait", "check"}
    /\ Continue(j, [job[j] EXCEPT !.tick = TRUE, !.left = IF @ = 0 THEN 0 ELSE @ - 1])

Second == clock < LastSecond /\ clock' = clock + 1 /\ UNCHANGED <<job, files>>

Answered(j) ==
    \/ SubmitImage(j) \/ SubmitVideo(j) \/ CheckVideoStatus(j)
    \/ Download(j) \/ Exhausted(j)
Polled(j) == Cancelled(j) \/ FirstPoll(j) \/ NextPoll(j)

ClientNext ==
    \/ Second
    \/ \E j \in Job :
        \/ \E kind \in {"image", "video"}, named \in BOOLEAN :
            <<j, kind, named>> \in Wanted /\ Call(j, kind, named)
        \/ Answered(j) \/ Expire(j) \/ Polled(j)
        \/ TaskEnds(j) \/ Cancel(j) \/ Interval(j)

\* A request is answered or fails, time goes by, and a select that finds the
\* deadline passed again and again takes it at last: it picks at random.
ClientFairness ==
    \A j \in Job : /\ WF_clientVars(Answered(j)) /\ WF_clientVars(Interval(j))
                   /\ SF_clientVars(Expire(j))

-----------------------------------------------------------------------------
ClientTypeOK ==
    job \in [Job -> JobState] /\ files \in [Paths -> Job \cup {Empty}] /\ clock \in Seconds

\* A call that returns a path and no error has written the file there, and a
\* call that named its file finds its own result in it: retries, lost replies
\* and other calls change nothing about it.  (Two calls that leave the name
\* to the client in one second write the same file.)
SavedIsOwn ==
    \A j \in Job : job[j].outcome = "file" =>
        IF job[j].named THEN files[job[j].path] = j ELSE files[job[j].path] # Empty

\* Every call returns, whatever the service answers and however long a task
\* takes, as long as its requests end.
EveryCallReturns == \A j \in Job : job[j].pc = "submit" ~> job[j].pc = "done"
=============================================================================
