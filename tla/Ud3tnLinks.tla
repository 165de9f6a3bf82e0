----------------------------- MODULE Ud3tnLinks -----------------------------
(***************************************************************************)
(* The links of the ud3tn convergence layer (cla_csp.c): the table of      *)
(* links, the task that manages each link, csp_rx_task() that receives for *)
(* all of them, the agent's calls (get_tx_queue, start and end of a        *)
(* contact), csp_cla_launch() and csp_cla_terminate().                     *)
(*                                                                         *)
(* Two kinds of semaphore: param_htab_sem guards the table, and each       *)
(* link's param_semphr guards the link; both are binary and not recursive. *)
(* An action is what a task does between two operations on them.  What a   *)
(* link's buffers hold is left out.                                        *)
(***************************************************************************)
EXTENDS Naturals

CONSTANTS
    Peers,      \* addresses "<addr>,<port>" of links
    MaxLinks    \* bound: links created

Links == 1..MaxLinks

VARIABLES
    param_htab,      \* peer -> its link, 0 if none
    param_htab_sem,  \* can it be taken?
    param_semphr,    \* per link: can it be taken?
    mgr,             \* per link: where its management task is
    made,            \* links created so far
    rx, rxlink,      \* where csp_rx_task() is, and the link it stores into
    rx_running,
    rx_task_sem,     \* can it be taken?
    agent, agentlink,\* where the agent's call is, and the link it looks at
    main             \* launch() and terminate()

htabVars == <<param_htab, made, mgr>>
rxVars == <<rx, rxlink, rx_running, rx_task_sem>>
agentVars == <<agent, agentlink>>
vars == <<htabVars, param_htab_sem, param_semphr, rxVars, agentVars, main>>

Init ==
    /\ param_htab = [p \in Peers |-> 0] /\ param_htab_sem = TRUE
    /\ param_semphr = [l \in Links |-> FALSE]
    /\ mgr = [l \in Links |-> "none"] /\ made = 0
    /\ rx = "off" /\ rxlink = 0 /\ rx_running = FALSE /\ rx_task_sem = FALSE
    /\ agent = "idle" /\ agentlink = 0
    /\ main = "created"

-----------------------------------------------------------------------------
(* Creating a link; the caller holds param_htab_sem. *)

\* launch_connection_management(): its allocations and the task may fail.
Launch(p) ==
    \/ /\ made < MaxLinks
       /\ made' = made + 1
       /\ param_htab' = [param_htab EXCEPT ![p] = made + 1]
       /\ mgr' = [mgr EXCEPT ![made + 1] = "init"]
    \/ UNCHANGED htabVars

-----------------------------------------------------------------------------
(* csp_link_management_task() *)

Manager(l, from, to) == mgr[l] = from /\ mgr' = [mgr EXCEPT ![l] = to]

\* csp_link_init(); then the link is open to the other tasks.
LinkUp(l) ==
    /\ Manager(l, "init", "wait")
    /\ param_semphr' = [param_semphr EXCEPT ![l] = TRUE]
    /\ UNCHANGED <<param_htab, made, param_htab_sem, rxVars, agentVars, main>>

LinkInitFails(l) ==
    /\ Manager(l, "init", "remove")
    /\ UNCHANGED <<param_htab, made, param_htab_sem, param_semphr, rxVars,
                   agentVars, main>>

\* cla_link_wait() returns: the disconnect handler ended the link's tasks.
LinkDown(l) ==
    /\ Manager(l, "wait", "relock")
    /\ UNCHANGED <<param_htab, made, param_htab_sem, param_semphr, rxVars,
                   agentVars, main>>

TakeTable(l) ==
    /\ param_htab_sem
    /\ Manager(l, "relock", "relock_param")
    /\ param_htab_sem' = FALSE
    /\ UNCHANGED <<param_htab, made, param_semphr, rxVars, agentVars, main>>

\* Both are held: csp_link_cleanup(); the table is released, the link is not.
CleanupLink(l) ==
    /\ param_semphr[l]
    /\ Manager(l, "relock_param", "remove")
    /\ param_semphr' = [param_semphr EXCEPT ![l] = FALSE]
    /\ param_htab_sem' = TRUE
    /\ UNCHANGED <<param_htab, made, rxVars, agentVars, main>>

\* cleanup: the link leaves the table, if it is still the one there.
RemoveLink(l) ==
    /\ param_htab_sem
    /\ Manager(l, "remove", "free")
    /\ param_htab' = [p \in Peers |-> IF param_htab[p] = l THEN 0 ELSE param_htab[p]]
    /\ UNCHANGED <<made, param_htab_sem, param_semphr, rxVars, agentVars, main>>

FreeLink(l) ==
    /\ param_semphr[l]
    /\ Manager(l, "free", "freed")
    /\ param_semphr' = [param_semphr EXCEPT ![l] = FALSE]
    /\ UNCHANGED <<param_htab, made, param_htab_sem, rxVars, agentVars, main>>

-----------------------------------------------------------------------------
(* csp_rx_task() *)

\* while (rx_running); the end is signalled to csp_cla_terminate().
RxCheck ==
    /\ rx = "check"
    /\ rx' = IF rx_running THEN "receive" ELSE "ended"
    /\ rx_task_sem' = (rx_task_sem \/ ~rx_running)
    /\ UNCHANGED <<htabVars, param_htab_sem, param_semphr, rxlink, rx_running,
                   agentVars, main>>

\* No bundle within a second, or an error
RxIdle ==
    /\ rx = "receive"
    /\ rx' = "check"
    /\ UNCHANGED <<htabVars, param_htab_sem, param_semphr, rxlink, rx_running,
                   rx_task_sem, agentVars, main>>

\* A bundle of peer p: its link is looked up, or an opportunistic one created.
RxBundle(p) ==
    /\ rx = "receive"
    /\ param_htab_sem
    /\ IF param_htab[p] # 0 THEN UNCHANGED htabVars ELSE Launch(p)
    /\ rxlink' = param_htab'[p]
    /\ rx' = IF rxlink' = 0 THEN "check" ELSE "store"
    /\ UNCHANGED <<param_htab_sem, param_semphr, rx_running, rx_task_sem,
                   agentVars, main>>

\* The link's semaphore is taken for the copy and released.
RxStore ==
    /\ rx = "store"
    /\ param_semphr[rxlink]
    /\ rx' = "check"
    /\ rxlink' = 0
    /\ UNCHANGED <<htabVars, param_htab_sem, param_semphr, rx_running,
                   rx_task_sem, agentVars, main>>

-----------------------------------------------------------------------------
(* The agent's calls *)

\* csp_cla_get_tx_queue(), csp_cla_end_scheduled_contact() and
\* csp_cla_start_scheduled_contact() for a peer that has a link
AgentFinds(p) ==
    /\ agent = "idle" /\ main = "running"
    /\ param_htab_sem /\ param_htab[p] # 0
    /\ param_htab_sem' = FALSE
    /\ agent' = "link" /\ agentlink' = param_htab[p]
    /\ UNCHANGED <<htabVars, param_semphr, rxVars, main>>

\* The link's semaphore is taken while the table's is held; both are released.
AgentLooks ==
    /\ agent = "link"
    /\ param_semphr[agentlink]
    /\ param_htab_sem' = TRUE
    /\ agent' = "idle" /\ agentlink' = 0
    /\ UNCHANGED <<htabVars, param_semphr, rxVars, main>>

\* csp_cla_start_scheduled_contact() for a peer without a link
StartContact(p) ==
    /\ agent = "idle" /\ main = "running"
    /\ param_htab_sem /\ param_htab[p] = 0
    /\ Launch(p)
    /\ UNCHANGED <<param_htab_sem, param_semphr, rxVars, agentVars, main>>

-----------------------------------------------------------------------------
(* csp_cla_launch() and csp_cla_terminate() *)

LaunchCla ==
    /\ main = "created"
    /\ main' = "running"
    /\ rx_running' = TRUE /\ rx' = "check"
    /\ UNCHANGED <<htabVars, param_htab_sem, param_semphr, rxlink, rx_task_sem,
                   agentVars>>

\* hal_task_create() fails; rx_running stays set and launch() says so.  The
\* agent does not use a CLA it could not launch.
LaunchFails ==
    /\ main = "created"
    /\ main' = "failed"
    /\ rx_running' = TRUE
    /\ UNCHANGED <<htabVars, param_htab_sem, param_semphr, rx, rxlink,
                   rx_task_sem, agentVars>>

Terminate ==
    /\ main = "running"
    /\ main' = "terminating"
    /\ rx_running' = FALSE
    /\ UNCHANGED <<htabVars, param_htab_sem, param_semphr, rx, rxlink,
                   rx_task_sem, agentVars>>

TerminateReturnsOk ==
    /\ main = "terminating" /\ rx_task_sem
    /\ main' = "terminated"
    /\ rx_task_sem' = FALSE
    /\ UNCHANGED <<htabVars, param_htab_sem, param_semphr, rx, rxlink,
                   rx_running, agentVars>>

-----------------------------------------------------------------------------
(* Specification *)

ManagerStep(l) ==
    TakeTable(l) \/ CleanupLink(l) \/ RemoveLink(l) \/ FreeLink(l)

RxStep == RxCheck \/ RxIdle \/ (\E p \in Peers : RxBundle(p)) \/ RxStore

Next ==
    \/ \E l \in Links : LinkUp(l) \/ LinkInitFails(l) \/ LinkDown(l) \/ ManagerStep(l)
    \/ RxStep
    \/ \E p \in Peers : AgentFinds(p) \/ StartContact(p)
    \/ AgentLooks
    \/ LaunchCla \/ LaunchFails \/ Terminate \/ TerminateReturnsOk

\* Every task that can go on does, and a semaphore that is released again and
\* again is obtained; the peers need not send and a link need not end.
Fairness ==
    /\ \A l \in Links : SF_vars(ManagerStep(l)) /\ WF_vars(LinkUp(l) \/ LinkInitFails(l))
    /\ WF_vars(RxCheck) /\ SF_vars(RxIdle) /\ SF_vars(RxStore)
    /\ SF_vars(AgentLooks)
    /\ WF_vars(TerminateReturnsOk)

FairSpec == Init /\ [][Next]_vars /\ Fairness

-----------------------------------------------------------------------------
(* Property *)

\* csp_cla_terminate() waits for the receive task to finish and returns.  It
\* need not: a link's manager keeps param_semphr when the link ends, or never
\* releases it when the link cannot be set up, and takes it again to free the
\* link; the receive task, with a bundle for that link, waits with it for ever.
TerminateReturns == main = "terminating" ~> main = "terminated"

=============================================================================
