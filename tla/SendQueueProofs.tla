--------------------------- MODULE SendQueueProofs --------------------------
(***************************************************************************)
(* Proofs about the Rust send path, for any number of sends and pool       *)
(* threads: the instance outlives every send, a dropped send never starts, *)
(* and the caller of any other is told what became of its bundle.          *)
(*                                                                         *)
(* A send that may still enter C has its own Arc, or is a blocking call    *)
(* whose caller borrows the application's (KeptInv); a future that is gone *)
(* has set the flag of a task that may still start (DropInv).  C's code,   *)
(* the task's result and the caller's answer agree all the way, unless the *)
(* task panicked or the runtime cut the wait short (OutcomeInv).           *)
(***************************************************************************)
EXTENDS SendQueue, TLAPS

-----------------------------------------------------------------------------
(* The inductive invariant *)

\* What the proofs need of the types.
ShapeInv ==
    /\ kind \in [Sends -> Kinds \cup {NoKind}]
    /\ fut \in [Sends -> {"none", "waiting", "answered", "dropped"}]
    /\ task \in [Sends -> {"none", "queued", "running", "in_c", "finished",
                           "done", "aborted"}]
    /\ cancelled \in [Sends -> BOOLEAN]
    /\ holds \in [Sends -> BOOLEAN]
    /\ runtime \in BOOLEAN

Active == {"queued", "running", "in_c"}

\* Who keeps the instance: the application, whose handle a waiting caller
\* borrows, and the tasks.
KeptInv ==
    /\ instance = "freed" => ~owner /\ \A s \in Sends : ~holds[s]
    /\ \A s \in Sends :
         /\ fut[s] = "waiting" => owner
         /\ fut[s] = "none" => task[s] = "none"
         /\ task[s] \in Active =>
              holds[s] \/ (kind[s].api = "blocking" /\ fut[s] = "waiting")

\* CancelOnDrop: a task that may still start has the flag of a future that is
\* gone.
DropInv ==
    \A s \in Sends :
        fut[s] \in {"dropped", "answered"} /\ task[s] \in Active => cancelled[s]

SendInv == ShapeInv /\ KeptInv /\ DropInv

-----------------------------------------------------------------------------
(* The steps *)

\* No send has been called.
LEMMA SendInvInit == Init => SendInv
  BY DEF Init, SendInv, ShapeInv, KeptInv, DropInv, Active

\* The calls.
LEMMA CallSteps ==
  ASSUME SendInv, NEW s \in Sends, NEW k \in Kinds,
         Refuse(s, k) \/ CallBlocking(s, k) \/ CallAsync(s, k)
  PROVE  SendInv'
<1> USE DEF SendInv, ShapeInv, KeptInv, DropInv, Active
<1>1. CASE Refuse(s, k) BY <1>1 DEF Refuse
<1>2. CASE CallBlocking(s, k) BY <1>2 DEF CallBlocking
<1>3. CASE CallAsync(s, k) BY <1>3 DEF CallAsync
<1> QED BY <1>1, <1>2, <1>3

\* The task.
LEMMA TaskSteps ==
  ASSUME SendInv, NEW s \in Sends,
         StartTask(s) \/ SkipCancelled(s) \/ EnterC(s)
           \/ (\E c \in SendCodes(kind[s]) : LeaveC(s, c))
           \/ TaskPanics(s) \/ EndTask(s)
  PROVE  SendInv'
<1> USE DEF SendInv, ShapeInv, KeptInv, DropInv, Active
<1>1. CASE StartTask(s) BY <1>1 DEF StartTask
<1>2. CASE SkipCancelled(s) BY <1>2 DEF SkipCancelled
<1>3. CASE EnterC(s) BY <1>3 DEF EnterC
<1>4. ASSUME NEW c \in SendCodes(kind[s]), LeaveC(s, c) PROVE SendInv'
  BY <1>4 DEF LeaveC
<1>5. CASE TaskPanics(s) BY <1>5 DEF TaskPanics
<1>6. CASE EndTask(s) BY <1>6 DEF EndTask, LastArc
<1> QED BY <1>1, <1>2, <1>3, <1>4, <1>5, <1>6

\* The caller, the runtime and the application.
LEMMA CallerSteps ==
  ASSUME SendInv,
         (\E s \in Sends : Answer(s) \/ AnswerCut(s) \/ DropFuture(s))
           \/ RuntimeDown \/ DropOwner
  PROVE  SendInv'
<1> USE DEF SendInv, ShapeInv, KeptInv, DropInv, Active
<1>1. ASSUME NEW s \in Sends, Answer(s) PROVE SendInv'
  BY <1>1 DEF Answer
<1>2. ASSUME NEW s \in Sends, DropFuture(s) PROVE SendInv'
  BY <1>2 DEF DropFuture
<1>3. CASE RuntimeDown BY <1>3 DEF RuntimeDown
<1>4. CASE DropOwner BY <1>4 DEF DropOwner, Borrowed, sendVars
<1>5. ASSUME NEW s \in Sends, AnswerCut(s) PROVE SendInv'
  BY <1>5 DEF AnswerCut, OnPool
<1> QED BY <1>1, <1>2, <1>3, <1>4, <1>5

\* Every step.
LEMMA SendInvNext == SendInv /\ [Next]_vars => SendInv'
<1>1. SendInv /\ UNCHANGED vars => SendInv'
  BY DEF vars, sendVars, SendInv, ShapeInv, KeptInv, DropInv, Active
<1>2. SendInv /\ Next => SendInv'
  BY CallSteps, TaskSteps, CallerSteps DEF Next, Work
<1> QED BY <1>1, <1>2

\* Along every behaviour.
LEMMA SendInvAlways == Spec => []SendInv
  BY SendInvInit, SendInvNext, PTL DEF Spec

-----------------------------------------------------------------------------
(* Theorems *)

\* cspcl_cleanup() never runs under a send: when the last Arc goes, no task is
\* in C or can still enter it, whichever thread dropped it.
THEOREM InstanceOutlivesSends == Spec => []FreedAfterLastSend
<1>1. SendInv => FreedAfterLastSend
  BY DEF SendInv, KeptInv, FreedAfterLastSend, Active
<1> QED BY <1>1, SendInvAlways, PTL

\* A send whose future was dropped, or answered "cancelled", while it waited
\* never enters C: only a send that had started can deliver a cancelled bundle.
THEOREM DroppedNeverStarts == Spec => DroppedNotSent
<1>1. SendInv /\ [Next]_vars
        => [\A s \in Sends :
              fut[s] \in {"dropped", "answered"} /\ task[s] # "in_c"
                => task'[s] # "in_c"]_vars
  <2> SUFFICES ASSUME SendInv, Next, NEW s \in Sends,
                      fut[s] \in {"dropped", "answered"}, task[s] # "in_c"
               PROVE  task'[s] # "in_c"
    BY DEF vars, sendVars
  <2> USE DEF SendInv, ShapeInv, DropInv, Active
  <2>1. ASSUME NEW t \in Sends, NEW k \in Kinds,
               Refuse(t, k) \/ CallBlocking(t, k) \/ CallAsync(t, k)
        PROVE  task'[s] # "in_c"
    BY <2>1 DEF Refuse, CallBlocking, CallAsync
  <2>2. ASSUME NEW t \in Sends, EnterC(t) PROVE task'[s] # "in_c"
    BY <2>2 DEF EnterC
  <2>3. ASSUME NEW t \in Sends,
               StartTask(t) \/ SkipCancelled(t)
                 \/ (\E c \in SendCodes(kind[t]) : LeaveC(t, c))
                 \/ TaskPanics(t) \/ EndTask(t) \/ Answer(t) \/ AnswerCut(t)
                 \/ DropFuture(t)
        PROVE  task'[s] # "in_c"
    BY <2>3 DEF StartTask, SkipCancelled, LeaveC, TaskPanics, EndTask, Answer,
                AnswerCut, DropFuture
  <2>4. CASE RuntimeDown \/ DropOwner
    BY <2>4 DEF RuntimeDown, DropOwner, sendVars
  <2> QED BY <2>1, <2>2, <2>3, <2>4 DEF Next, Work
<1> QED BY <1>1, SendInvAlways, PTL DEF Spec, DroppedNotSent

-----------------------------------------------------------------------------
(* What the caller is told *)

\* The codes of the variants that a send can meet.
LEMMA SendCodeValues ==
  /\ Code("BundleTooLarge") = 3 /\ Code("CspSend") = 4 /\ Code("CspRecv") = 5
  /\ Code("Timeout") = 6 /\ Code("Connection") = 9 /\ Code("PoolFull") = 16
<1>1. DOMAIN Variants = 1..16
  BY DEF Variants
<1>2. /\ Variants[1] = "InvalidParam" /\ Variants[2] = "NoMemory"
      /\ Variants[3] = "BundleTooLarge" /\ Variants[4] = "CspSend"
      /\ Variants[5] = "CspRecv" /\ Variants[6] = "Timeout"
      /\ Variants[7] = "Sfp" /\ Variants[8] = "NotInitialized"
      /\ Variants[9] = "Connection" /\ Variants[10] = "CspInit"
      /\ Variants[11] = "CspStackInit" /\ Variants[12] = "CspZmqhubInit"
      /\ Variants[13] = "CspCanInit" /\ Variants[14] = "CspCanNotSupported"
      /\ Variants[15] = "CspRouter" /\ Variants[16] = "PoolFull"
  BY DEF Variants
<1>3. ASSUME NEW c \in DOMAIN Variants
      PROVE  /\ Variants[c] = "BundleTooLarge" => c = 3
             /\ Variants[c] = "CspSend" => c = 4
             /\ Variants[c] = "CspRecv" => c = 5
             /\ Variants[c] = "Timeout" => c = 6
             /\ Variants[c] = "Connection" => c = 9
             /\ Variants[c] = "PoolFull" => c = 16
  <2>1. c \in 1..16 BY <1>1
  <2>2. \/ c = 1 \/ c = 2 \/ c = 3 \/ c = 4 \/ c = 5 \/ c = 6 \/ c = 7 \/ c = 8
        \/ c = 9 \/ c = 10 \/ c = 11 \/ c = 12 \/ c = 13 \/ c = 14 \/ c = 15
        \/ c = 16
    BY <2>1
  <2> QED BY <2>2, <1>2
<1> QED BY <1>1, <1>2, <1>3 DEF Code

\* Their Rust form.
LEMMA SendErrors ==
  /\ from_code(0) = Ok
  /\ from_code(3) = Error("BundleTooLarge") /\ from_code(4) = Error("CspSend")
  /\ from_code(6) = Error("Timeout") /\ from_code(9) = Error("Connection")
  /\ \A c \in {3, 4, 6, 9} : code(from_code(c)) = c
<1>1. DOMAIN Variants = 1..16
  BY DEF Variants
<1>2. /\ Variants[3] = "BundleTooLarge" /\ Variants[4] = "CspSend"
      /\ Variants[6] = "Timeout" /\ Variants[9] = "Connection"
  BY DEF Variants
<1>3. \A c \in 1..17 : code(from_raw(c)) = c
  BY SendQueueAssumption
<1> QED BY <1>1, <1>2, <1>3 DEF from_code, from_raw, CSPCL_OK

Sent == {0, 4, 6}

\* The caller was told "cancelled" by a runtime that stopped.
Cut(s) == fut[s] = "answered" /\ ans[s] = Error("Cancelled") /\ ~runtime

\* The outcome of each send, from its task to its caller: C's code is the
\* result's unless the task panicked, a send C was not called for put nothing on
\* the wire, and a task that skipped its turn has no caller any more.
OutcomeInv ==
    \A s \in Sends :
        /\ task[s] \notin {"finished", "done"} => cret[s] = NoCode /\ ~wire[s]
        /\ task[s] \in {"finished", "done"} =>
             \/ /\ cret[s] = NoCode /\ ~wire[s]
                /\ \/ result[s] \in {Error("InvalidParam"), Error("panic")}
                   \/ result[s] = Error("Cancelled") /\ (fut[s] = "dropped" \/ Cut(s))
             \/ /\ cret[s] \in {0, 3, 4, 6, 9}
                /\ result[s] \in {from_code(cret[s]), Error("panic")}
                /\ wire[s] <=> cret[s] \in Sent
        /\ task[s] = "aborted" => ~runtime
        /\ cancelled[s] => fut[s] \in {"answered", "dropped"}
        /\ fut[s] = "answered" =>
             \/ /\ task[s] = "none"
                /\ ans[s] \in {Error("BundleTooLarge"), Error("NoNeighbour"),
                               Error("ParseAddress"), Error("InvalidParam")}
             \/ task[s] \in {"done", "aborted"} /\ ans[s] = Joined(s)
             \/ Cut(s)

\* The functions OutcomeInv is about.
OutcomeShape ==
    /\ ans = [s \in Sends |-> ans[s]] /\ result = [s \in Sends |-> result[s]]
    /\ cret = [s \in Sends |-> cret[s]] /\ wire = [s \in Sends |-> wire[s]]

AnswerInv == SendInv /\ OutcomeShape /\ OutcomeInv

\* Nobody has been answered.
LEMMA AnswerInvInit == Init => AnswerInv
  BY SendInvInit DEF Init, AnswerInv, OutcomeShape, OutcomeInv

\* The calls of an application.
LEMMA OutcomeCalls ==
  ASSUME AnswerInv, NEW s \in Sends, NEW k \in Kinds,
         Refuse(s, k) \/ CallBlocking(s, k) \/ CallAsync(s, k)
  PROVE  OutcomeShape' /\ OutcomeInv'
<1> USE DEF AnswerInv, SendInv, ShapeInv, KeptInv, OutcomeShape, OutcomeInv
<1>1. CASE Refuse(s, k)
  <2>1. Refusal(k) \in {Error("BundleTooLarge"), Error("NoNeighbour"),
                        Error("ParseAddress"), Error("InvalidParam")}
    BY <1>1 DEF Refuse, Refusal
  <2> QED BY <1>1, <2>1 DEF Refuse, Joined, Cut
<1>2. CASE CallBlocking(s, k) BY <1>2 DEF CallBlocking, Joined, Cut
<1>3. CASE CallAsync(s, k) BY <1>3 DEF CallAsync, Joined, Cut
<1> QED BY <1>1, <1>2, <1>3

\* The steps of a blocking task.
LEMMA OutcomeTasks ==
  ASSUME AnswerInv, NEW s \in Sends,
         StartTask(s) \/ SkipCancelled(s) \/ EnterC(s)
           \/ (\E c \in SendCodes(kind[s]) : LeaveC(s, c))
           \/ TaskPanics(s) \/ EndTask(s)
  PROVE  OutcomeShape' /\ OutcomeInv'
<1> USE DEF AnswerInv, SendInv, ShapeInv, OutcomeShape, OutcomeInv
<1>1. CASE StartTask(s) BY <1>1 DEF StartTask, Joined, Cut
<1>2. CASE SkipCancelled(s) BY <1>2 DEF SkipCancelled, Joined, Cut
<1>3. CASE EnterC(s) BY <1>3 DEF EnterC, Joined, Cut
<1>4. ASSUME NEW c \in SendCodes(kind[s]), LeaveC(s, c)
      PROVE  OutcomeShape' /\ OutcomeInv'
  <2>1. c \in {0, 3, 4, 6, 9}
    BY SendCodeValues DEF SendCodes, CSPCL_OK
  <2>2. c \in {CSPCL_OK, Code("Timeout"), Code("CspSend")} <=> c \in Sent
    BY SendCodeValues DEF CSPCL_OK, Sent
  <2> QED BY <1>4, <2>1, <2>2 DEF LeaveC, Joined, Cut
<1>5. CASE TaskPanics(s) BY <1>5 DEF TaskPanics, Joined, Cut
<1>6. CASE EndTask(s) BY <1>6 DEF EndTask, Joined, Cut
<1> QED BY <1>1, <1>2, <1>3, <1>4, <1>5, <1>6

\* Answers, dropped futures, and the end of the runtime or of the owner.
LEMMA OutcomeCallers ==
  ASSUME AnswerInv,
         (\E s \in Sends : Answer(s) \/ AnswerCut(s) \/ DropFuture(s))
           \/ RuntimeDown \/ DropOwner
  PROVE  OutcomeShape' /\ OutcomeInv'
<1> USE DEF AnswerInv, SendInv, ShapeInv, OutcomeShape, OutcomeInv
<1>1. ASSUME NEW s \in Sends, Answer(s) PROVE OutcomeShape' /\ OutcomeInv'
  BY <1>1 DEF Answer, Joined, Cut
<1>2. ASSUME NEW s \in Sends, DropFuture(s) PROVE OutcomeShape' /\ OutcomeInv'
  BY <1>2 DEF DropFuture, Joined, Cut
<1>3. CASE RuntimeDown BY <1>3 DEF RuntimeDown, Joined, Cut
<1>4. CASE DropOwner BY <1>4 DEF DropOwner, sendVars, Joined, Cut
<1>5. ASSUME NEW s \in Sends, AnswerCut(s) PROVE OutcomeShape' /\ OutcomeInv'
  BY <1>5 DEF AnswerCut, Joined, Cut
<1> QED BY <1>1, <1>2, <1>3, <1>4, <1>5

\* Along every behaviour.
LEMMA AnswerInvAlways == Spec => []AnswerInv
<1>1. AnswerInv /\ Next => AnswerInv'
  <2>1. AnswerInv /\ Next => OutcomeShape' /\ OutcomeInv'
    BY OutcomeCalls, OutcomeTasks, OutcomeCallers DEF Next, Work
  <2>2. AnswerInv /\ Next => SendInv'
    BY SendInvNext DEF AnswerInv
  <2> QED BY <2>1, <2>2 DEF AnswerInv
<1>2. AnswerInv /\ UNCHANGED vars => AnswerInv'
  <2>1. AnswerInv /\ UNCHANGED vars => OutcomeShape' /\ OutcomeInv'
    BY DEF vars, sendVars, AnswerInv, OutcomeShape, OutcomeInv, Joined, Cut
  <2>2. AnswerInv /\ UNCHANGED vars => SendInv'
    BY SendInvNext DEF AnswerInv
  <2> QED BY <2>1, <2>2 DEF AnswerInv
<1> QED BY <1>1, <1>2, AnswerInvInit, PTL DEF Spec

\* A caller is told what C returned, unless the task panicked, and "cancelled"
\* only by a runtime that stopped.
THEOREM CallersAreTold == Spec => []AnswerIsTrue
<1>1. AnswerInv => AnswerIsTrue
  <2> SUFFICES ASSUME AnswerInv, NEW s \in Sends, fut[s] = "answered"
               PROVE  /\ ans[s] = Error("Cancelled") => ~runtime
                      /\ ans[s] \notin {Error("panic"), Error("Cancelled")} =>
                           /\ ans[s] = Ok <=> cret[s] = CSPCL_OK
                           /\ cret[s] \notin {NoCode, CSPCL_OK} =>
                                code(ans[s]) = cret[s]
    BY DEF AnswerIsTrue
  <2> USE DEF AnswerInv, OutcomeInv, Joined, Error, Ok, NoCode, CSPCL_OK
  <2>1. CASE Cut(s) BY <2>1 DEF Cut
  <2>2. CASE task[s] = "none" /\ ~Cut(s) BY <2>2
  <2>3. CASE task[s] = "aborted" /\ ~Cut(s) BY <2>3
  <2>4. CASE task[s] = "done" /\ ~Cut(s) /\ cret[s] = NoCode BY <2>4
  <2>5. CASE task[s] = "done" /\ ~Cut(s) /\ cret[s] # NoCode
    <3>1. /\ cret[s] \in {0, 3, 4, 6, 9}
          /\ ans[s] \in {from_code(cret[s]), Error("panic")}
      BY <2>5
    <3> QED BY <3>1, SendErrors
  <2> QED BY <2>1, <2>2, <2>3, <2>4, <2>5
<1> QED BY <1>1, AnswerInvAlways, PTL

\* Whatever the daemon drops for good after send() never reached the wire, and
\* is nothing C would have retried.
THEOREM GivenUpNeverSent == Spec => []GivenUpNotSent
<1>1. AnswerInv => GivenUpNotSent
  <2> SUFFICES ASSUME AnswerInv, NEW s \in Sends, fut[s] = "answered",
                      FailureKind_of(ans[s]) = "Permanent"
               PROVE  ~wire[s] /\ ~error_is_retryable(cret[s])
    BY DEF GivenUpNotSent
  <2>1. ~error_is_retryable(NoCode) /\ ~error_is_retryable(3)
    BY SendCodeValues DEF error_is_retryable, NoCode
  <2>2. ans[s] \notin {Ok, Error("panic"), Error("Cancelled")}
    BY DEF FailureKind_of, Error, Ok
  <2>3. CASE cret[s] = NoCode
    BY <2>1, <2>3 DEF AnswerInv, OutcomeInv, NoCode
  <2>4. CASE cret[s] # NoCode
    <3>1. cret[s] \in {0, 3, 4, 6, 9} /\ ans[s] = from_code(cret[s])
          /\ (wire[s] <=> cret[s] \in Sent)
      BY <2>2, <2>4 DEF AnswerInv, OutcomeInv, Joined, Cut
    <3>2. cret[s] = 3
      BY <3>1, SendErrors DEF FailureKind_of, Error, Ok
    <3> QED BY <2>1, <3>1, <3>2 DEF Sent
  <2> QED BY <2>3, <2>4
<1> QED BY <1>1, AnswerInvAlways, PTL

=============================================================================
