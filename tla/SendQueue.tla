------------------------------ MODULE SendQueue -----------------------------
(***************************************************************************)
(* The Rust send path over one Cspcl instance: send_bundle() on the        *)
(* caller's thread, send_bundle_async() on tokio's blocking pool           *)
(* (cspcl/src/bundle.rs, instance.rs), and the two adapters' wrappers,     *)
(* CspclLink::send() (picod3tn) and Cla::forward() (hardy).                *)
(*                                                                         *)
(* A send is a future the caller awaits or drops, and a task that waits    *)
(* its turn on the instance's send mutex and then is in C until            *)
(* cspcl_send_bundle() returns.  The instance is freed by whoever drops    *)
(* the last Arc to it.  tokio is external.                                 *)
(***************************************************************************)
EXTENDS Errors, Sequences, FiniteSets

CONSTANTS
    Sends,       \* the sends, each called once
    Kinds,       \* what may be called: [api, bundle, to] records
    Workers,     \* threads of the blocking pool
    MaxPanics    \* bound: sends that panic

ASSUME SendQueueAssumption ==
    /\ \A k \in Kinds :
         /\ k.api \in {"blocking", "async", "link", "forward"}
         /\ k.bundle \in {"empty", "fits", "large"}
         /\ k.to \in Seq(0..255)
    /\ Workers \in Nat \ {0}
    /\ MaxPanics \in Nat
    \* every code survives the trip through Rust
    /\ \A c \in 1..17 : code(from_raw(c)) = c

VARIABLES
    kind,        \* what each send is, NoKind before the call
    fut,         \* what its caller sees
    ans,         \* the answer it got
    task,        \* where the work is
    cancelled,   \* the flag CancelOnDrop sets
    result,      \* what the task returned
    holds,       \* the task owns an Arc of the instance
    owner,       \* the application owns one
    instance,    \* "live" or "freed" (cspcl_cleanup ran)
    runtime,     \* the tokio runtime is up
    panics,      \* panics so far
    cret,        \* history: the code C returned, NoCode before
    wire         \* history: fragments of the bundle were sent

sendVars == <<kind, fut, ans, task, cancelled, result, holds>>
vars == <<sendVars, owner, instance, runtime, panics, cret, wire>>

NoKind == [api |-> "none", bundle |-> "fits", to |-> <<>>]
NoCode == 999

Answers == ErrorSet({}) \cup {Ok, Error("none"), Error("panic"), Error("NoNeighbour")}

TypeOK ==
    /\ kind \in [Sends -> Kinds \cup {NoKind}]
    /\ fut \in [Sends -> {"none", "waiting", "answered", "dropped"}]
    /\ ans \in [Sends -> Answers]
    /\ task \in [Sends -> {"none", "queued", "running", "in_c", "finished",
                           "done", "aborted"}]
    /\ cancelled \in [Sends -> BOOLEAN]
    /\ result \in [Sends -> Answers]
    /\ holds \in [Sends -> BOOLEAN]
    /\ owner \in BOOLEAN /\ runtime \in BOOLEAN
    /\ instance \in {"live", "freed"}
    /\ panics \in 0..MaxPanics
    /\ cret \in [Sends -> Nat]
    /\ wire \in [Sends -> BOOLEAN]

Init ==
    /\ kind = [s \in Sends |-> NoKind]
    /\ fut = [s \in Sends |-> "none"]
    /\ ans = [s \in Sends |-> Error("none")]
    /\ task = [s \in Sends |-> "none"]
    /\ cancelled = [s \in Sends |-> FALSE]
    /\ result = [s \in Sends |-> Error("none")]
    /\ holds = [s \in Sends |-> FALSE]
    /\ owner = TRUE /\ runtime = TRUE
    /\ instance = "live"
    /\ panics = 0
    /\ cret = [s \in Sends |-> NoCode]
    /\ wire = [s \in Sends |-> FALSE]

-----------------------------------------------------------------------------
(* Calling *)

\* CspAddress: the two bytes of a ClaAddress::Private.
IsCspAddress(bytes) == Len(bytes) = 2

\* check_size(): at most MAX_BUNDLE_SIZE bytes.
check_size(bundle) == bundle # "large"

\* What the wrappers refuse before any task exists: check_size() in the link,
\* CspAddress::try_from() in forward(), the empty bundle in send_bundle().
Refusal(k) ==
    CASE k.api = "link" /\ ~check_size(k.bundle) -> Error("BundleTooLarge")
      [] k.api = "forward" /\ k.to = <<>> -> Error("NoNeighbour")
      [] k.api = "forward" /\ k.to # <<>> /\ ~IsCspAddress(k.to) ->
           Error("ParseAddress")
      [] k.api = "blocking" /\ k.bundle = "empty" -> Error("InvalidParam")
      [] OTHER -> Ok

\* The caller borrows the application's handle while its call is pending.
Borrowed == \E s \in Sends : fut[s] = "waiting"

Refuse(s, k) ==
    /\ fut[s] = "none" /\ owner
    /\ Refusal(k) # Ok
    /\ kind' = [kind EXCEPT ![s] = k]
    /\ fut' = [fut EXCEPT ![s] = "answered"]
    /\ ans' = [ans EXCEPT ![s] = Refusal(k)]
    /\ UNCHANGED <<task, cancelled, result, holds, owner, instance, runtime,
                   panics, cret, wire>>

\* send_bundle() runs on the calling thread.
CallBlocking(s, k) ==
    /\ fut[s] = "none" /\ owner
    /\ k.api = "blocking" /\ Refusal(k) = Ok
    /\ kind' = [kind EXCEPT ![s] = k]
    /\ fut' = [fut EXCEPT ![s] = "waiting"]
    /\ task' = [task EXCEPT ![s] = "running"]
    /\ UNCHANGED <<ans, cancelled, result, holds, owner, instance, runtime,
                   panics, cret, wire>>

\* Mutant: the task borrows the instance instead of owning an Arc.
CallAsync_Borrows(s, k) ==
    /\ fut[s] = "none" /\ owner
    /\ k.api # "blocking" /\ Refusal(k) = Ok
    /\ kind' = [kind EXCEPT ![s] = k]
    /\ fut' = [fut EXCEPT ![s] = "waiting"]
    /\ task' = [task EXCEPT ![s] = IF runtime THEN "queued" ELSE "aborted"]
    /\ UNCHANGED <<ans, cancelled, result, holds, owner, instance, runtime,
                   panics, cret, wire>>

\* send_bundle_async(): spawn_blocking(), with an Arc of the instance.
CallAsync(s, k) ==
    /\ fut[s] = "none" /\ owner
    /\ k.api # "blocking" /\ Refusal(k) = Ok
    /\ kind' = [kind EXCEPT ![s] = k]
    /\ fut' = [fut EXCEPT ![s] = "waiting"]
    /\ task' = [task EXCEPT ![s] = IF runtime THEN "queued" ELSE "aborted"]
    /\ holds' = [holds EXCEPT ![s] = runtime]
    /\ UNCHANGED <<ans, cancelled, result, owner, instance, runtime, panics,
                   cret, wire>>

-----------------------------------------------------------------------------
(* The task *)

OnPool == {s \in Sends : kind[s].api # "blocking"
                           /\ task[s] \in {"running", "in_c", "finished"}}

\* A pool thread takes the task; an empty bundle is refused there.
StartTask(s) ==
    /\ task[s] = "queued" /\ Cardinality(OnPool) < Workers
    /\ IF kind[s].bundle = "empty"
       THEN /\ task' = [task EXCEPT ![s] = "finished"]
            /\ result' = [result EXCEPT ![s] = Error("InvalidParam")]
       ELSE task' = [task EXCEPT ![s] = "running"] /\ UNCHANGED result
    /\ UNCHANGED <<kind, fut, ans, cancelled, holds, owner, instance, runtime,
                   panics, cret, wire>>

InC == {s \in Sends : task[s] = "in_c"}

\* send_raw(): its turn on the send mutex came, the future is gone.
SkipCancelled(s) ==
    /\ task[s] = "running" /\ InC = {}
    /\ cancelled[s]
    /\ task' = [task EXCEPT ![s] = "finished"]
    /\ result' = [result EXCEPT ![s] = Error("Cancelled")]
    /\ UNCHANGED <<kind, fut, ans, cancelled, holds, owner, instance, runtime,
                   panics, cret, wire>>

\* Mutant: the flag is not looked at once the send has its turn.
EnterC_Unchecked(s) ==
    /\ task[s] = "running" /\ InC = {}
    /\ task' = [task EXCEPT ![s] = "in_c"]
    /\ UNCHANGED <<kind, fut, ans, cancelled, result, holds, owner, instance,
                   runtime, panics, cret, wire>>

\* send_raw(): the flag is read with the mutex held, which C is called under.
EnterC(s) ==
    /\ task[s] = "running" /\ InC = {}
    /\ ~cancelled[s]
    /\ task' = [task EXCEPT ![s] = "in_c"]
    /\ UNCHANGED <<kind, fut, ans, cancelled, result, holds, owner, instance,
                   runtime, panics, cret, wire>>

\* The codes cspcl_send_bundle() returns for a live instance.
SendCodes(k) ==
    IF ~check_size(k.bundle) THEN {Code("BundleTooLarge")}
    ELSE {CSPCL_OK, Code("Connection"), Code("Timeout"), Code("CspSend")}

\* Mutant: a code without a Rust variant is taken for success.
LeaveC_DropsCode(s, c) ==
    /\ task[s] = "in_c"
    /\ task' = [task EXCEPT ![s] = "finished"]
    /\ result' = [result EXCEPT ![s] =
                    IF c = Code("Connection") THEN Ok ELSE from_code(c)]
    /\ cret' = [cret EXCEPT ![s] = c]
    /\ wire' = [wire EXCEPT ![s] =
                  c \in {CSPCL_OK, Code("Timeout"), Code("CspSend")}]
    /\ UNCHANGED <<kind, fut, ans, cancelled, holds, owner, instance, runtime,
                   panics>>

\* C returns; CONNECTION means that it sent nothing.
LeaveC(s, c) ==
    /\ task[s] = "in_c"
    /\ task' = [task EXCEPT ![s] = "finished"]
    /\ result' = [result EXCEPT ![s] = from_code(c)]
    /\ cret' = [cret EXCEPT ![s] = c]
    /\ wire' = [wire EXCEPT ![s] =
                  c \in {CSPCL_OK, Code("Timeout"), Code("CspSend")}]
    /\ UNCHANGED <<kind, fut, ans, cancelled, holds, owner, instance, runtime,
                   panics>>

\* The task panics, e.g. in a log subscriber: before its turn, or after
\* send_raw() when it logs the outcome.  An empty bundle is not logged.
TaskPanics(s) ==
    /\ \/ task[s] = "running"
       \/ /\ task[s] = "finished"
          /\ result[s] \notin {Error("InvalidParam"), Error("panic")}
    /\ panics < MaxPanics
    /\ panics' = panics + 1
    /\ task' = [task EXCEPT ![s] = "finished"]
    /\ result' = [result EXCEPT ![s] = Error("panic")]
    /\ UNCHANGED <<kind, fut, ans, cancelled, holds, owner, instance, runtime,
                   cret, wire>>

LastArc(s) == ~owner /\ \A t \in Sends \ {s} : ~holds[t]

\* Mutant: a task that outlives the application leaks the instance.
EndTask_Leaks(s) ==
    /\ task[s] = "finished"
    /\ task' = [task EXCEPT ![s] = "done"]
    /\ holds' = [holds EXCEPT ![s] = FALSE]
    /\ UNCHANGED <<kind, fut, ans, cancelled, result, owner, instance, runtime,
                   panics, cret, wire>>

\* The closure is dropped, and with the last Arc the instance.
EndTask(s) ==
    /\ task[s] = "finished"
    /\ task' = [task EXCEPT ![s] = "done"]
    /\ holds' = [holds EXCEPT ![s] = FALSE]
    /\ instance' = IF holds[s] /\ LastArc(s) THEN "freed" ELSE instance
    /\ UNCHANGED <<kind, fut, ans, cancelled, result, owner, runtime, panics,
                   cret, wire>>

-----------------------------------------------------------------------------
(* The caller *)

\* flatten_join(): a task that never started is Error::Cancelled.
Joined(s) == IF task[s] = "aborted" THEN Error("Cancelled") ELSE result[s]

\* Mutant: a task that never started is waited for.
Answer_NotAborted(s) ==
    /\ fut[s] = "waiting" /\ task[s] = "done"
    /\ fut' = [fut EXCEPT ![s] = "answered"]
    /\ ans' = [ans EXCEPT ![s] = Joined(s)]
    /\ cancelled' = [cancelled EXCEPT ![s] = kind[s].api # "blocking"]
    /\ UNCHANGED <<kind, task, result, holds, owner, instance, runtime,
                   panics, cret, wire>>

\* The future resolves, or the blocking call returns.
Answer(s) ==
    /\ fut[s] = "waiting" /\ task[s] \in {"done", "aborted"}
    /\ fut' = [fut EXCEPT ![s] = "answered"]
    /\ ans' = [ans EXCEPT ![s] = Joined(s)]
    /\ cancelled' = [cancelled EXCEPT ![s] = kind[s].api # "blocking"]
    /\ UNCHANGED <<kind, task, result, holds, owner, instance, runtime,
                   panics, cret, wire>>

\* What the docs of send_bundle_async() and SendError::Cancelled leave to tokio:
\* a runtime that is down may end the wait for a task that has started, which
\* runs on.  The bundle may still be delivered, unless its turn is yet to come.
AnswerCut(s) ==
    /\ ~runtime
    /\ fut[s] = "waiting" /\ s \in OnPool
    /\ fut' = [fut EXCEPT ![s] = "answered"]
    /\ ans' = [ans EXCEPT ![s] = Error("Cancelled")]
    /\ cancelled' = [cancelled EXCEPT ![s] = TRUE]
    /\ UNCHANGED <<kind, task, result, holds, owner, instance, runtime,
                   panics, cret, wire>>

\* The caller gives up, e.g. on a timeout of its own.
DropFuture(s) ==
    /\ fut[s] = "waiting" /\ kind[s].api # "blocking"
    /\ fut' = [fut EXCEPT ![s] = "dropped"]
    /\ cancelled' = [cancelled EXCEPT ![s] = TRUE]
    /\ UNCHANGED <<kind, ans, task, result, holds, owner, instance, runtime,
                   panics, cret, wire>>

\* tokio drops the tasks that have not started; the others run on.
RuntimeDown ==
    /\ runtime
    /\ runtime' = FALSE
    /\ LET unstarted == {s \in Sends : task[s] = "queued"} IN
         /\ task' = [s \in Sends |->
                       IF s \in unstarted THEN "aborted" ELSE task[s]]
         /\ holds' = [s \in Sends |-> holds[s] /\ s \notin unstarted]
         /\ instance' = IF /\ ~owner
                           /\ \E s \in unstarted : holds[s]
                           /\ \A s \in Sends \ unstarted : ~holds[s]
                        THEN "freed" ELSE instance
    /\ UNCHANGED <<kind, fut, ans, cancelled, result, owner, panics, cret, wire>>

DropOwner ==
    /\ owner /\ ~Borrowed
    /\ owner' = FALSE
    /\ instance' = IF \A s \in Sends : ~holds[s] THEN "freed" ELSE instance
    /\ UNCHANGED <<sendVars, runtime, panics, cret, wire>>

-----------------------------------------------------------------------------
(* Specification *)

Work(s) ==
    \/ StartTask(s) \/ SkipCancelled(s) \/ EnterC(s)
    \/ \E c \in SendCodes(kind[s]) : LeaveC(s, c)
    \/ EndTask(s) \/ Answer(s)

Next ==
    \/ \E s \in Sends :
         \/ \E k \in Kinds : Refuse(s, k) \/ CallBlocking(s, k) \/ CallAsync(s, k)
         \/ Work(s) \/ TaskPanics(s) \/ AnswerCut(s) \/ DropFuture(s)
    \/ RuntimeDown \/ DropOwner

Spec == Init /\ [][Next]_vars

\* Pool threads run, the mutex goes to some waiter, cspcl_send_bundle()
\* returns, and a caller that has not given up polls its future.
Fairness == \A s \in Sends : WF_vars(Work(s))

FairSpec == Spec /\ Fairness

-----------------------------------------------------------------------------
(* Properties *)

\* A send whose future is gone while it waits, for a thread or behind other
\* sends, never starts, whether its caller dropped it or was told "cancelled":
\* a cancelled bundle is delivered only if its send had already started.
DroppedNotSent ==
    [][\A s \in Sends :
         fut[s] \in {"dropped", "answered"} /\ task[s] # "in_c"
           => task'[s] # "in_c"]_vars

\* What the caller is told is what C returned: Ok exactly when the peer
\* acknowledged, otherwise the error of C's code.  The exceptions are a panic,
\* which may hide either, and "cancelled", whose outcome is unknown and which a
\* caller that still waits is told only when the runtime has stopped.
AnswerIsTrue ==
    \A s \in Sends : fut[s] = "answered" =>
        /\ ans[s] = Error("Cancelled") => ~runtime
        /\ ans[s] \notin {Error("panic"), Error("Cancelled")} =>
             /\ ans[s] = Ok <=> cret[s] = CSPCL_OK
             /\ cret[s] \notin {NoCode, CSPCL_OK} => code(ans[s]) = cret[s]

\* A send the BPA is told never to retry (SendError::Permanent) put nothing on
\* the wire, and is none that C would retry: no bundle is dropped for good that
\* the peer may have or may get.
GivenUpNotSent ==
    \A s \in Sends :
        /\ fut[s] = "answered" /\ kind[s].api = "link"
        /\ FailureKind_of(ans[s]) = "Permanent"
        => ~wire[s] /\ ~error_is_retryable(cret[s])

\* cspcl_cleanup() runs after the last send: no task can still enter C.
FreedAfterLastSend ==
    instance = "freed" =>
        \A s \in Sends : task[s] \notin {"queued", "running", "in_c"}

\* Every send that is not given up is answered.
EverySendAnswered ==
    \A s \in Sends : fut[s] = "waiting" ~> fut[s] # "waiting"

\* An instance nobody owns is freed, also when the last owner was a task.
InstanceFreed == ~owner ~> instance = "freed"

=============================================================================
