-------------------------------- MODULE Stack -------------------------------
(***************************************************************************)
(* Starting and stopping instances on the process-wide CSP stack:          *)
(* cspcl_init(), cspcl_open_rx_socket(), cspcl_close_rx_socket() and       *)
(* cspcl_cleanup() (src/cspcl.c), Cspcl::new() and Drop (cspcl), and the   *)
(* two ways an application gets there, picod3tn's CspclLink::new(), which  *)
(* claims the process, and hardy's Cla::new(), which does not.             *)
(*                                                                         *)
(* Each instance is opened by a thread of its own.  An action is a         *)
(* critical section of g_cspcl_global_lock or what lies between two.       *)
(* libcsp is external: a socket is named for the port it is bound to, and  *)
(* a bound port stays bound for the life of the process.                   *)
(***************************************************************************)
EXTENDS LinkConfig, Errors, FiniteSets

CONSTANTS
    Instances,   \* threads that open an instance
    Args,        \* command lines of picod3tn
    ClaConfigs,  \* configurations of hardy: [addr, port, kind, name]
    MaxOpens,    \* bound: calls of new()
    MaxFails     \* bound: failures of libcsp

ASSUME StackAssumption ==
    /\ \A a \in Args : a.iface.param.len \in Nat
    /\ MaxOpens \in Nat
    /\ MaxFails \in Nat

VARIABLES
    pc,          \* where each instance is
    conf,        \* its configuration
    rx_socket,   \* the port its rx_socket is bound to, 0 = NULL
    err,         \* what its last new() returned
    CLAIMED,
    stack,       \* g_cspcl_stack_initialized
    gaddr, gkind,\* g_cspcl_global_addr, g_cspcl_global_iface_type
    gsocket,     \* g_cspcl_global_rx_socket, by its port; 0 = NULL
    bound,       \* ports bound in libcsp
    routers,     \* router tasks started
    opens,       \* calls of new() so far
    fails,       \* failures so far
    links        \* history: links opened successfully

globalVars == <<stack, gaddr, gkind, routers>>
socketVars == <<gsocket, bound>>
vars == <<pc, conf, rx_socket, err, CLAIMED, globalVars, socketVars, opens,
          fails, links>>

NoConf == [via |-> "none", addr |-> 0, port |-> 0, kind |-> "loopback",
           name |-> NoName, cname |-> 0]

Opening == {"init", "lookup", "bind", "publish"}

TypeOK ==
    /\ pc \in [Instances -> Opening \cup {"idle", "live", "closed",
                 "relookup", "rebind", "republish"}]
    /\ \A i \in Instances : conf[i].via \in {"none", "link", "cla"}
                              /\ conf[i].addr \in U8 /\ conf[i].port \in U8
    /\ rx_socket \in [Instances -> bound \cup {0}]
    /\ err \in [Instances -> {"none", "Ok", "Args", "Config", "AlreadyOpen"}
                               \cup {Variants[c] : c \in DOMAIN Variants}]
    /\ CLAIMED \in BOOLEAN /\ stack \in BOOLEAN
    /\ gaddr \in U8 /\ gkind \in {"loopback", "can", "zmqhub"}
    /\ bound \subseteq U8 /\ gsocket \in bound \cup {0}
    /\ routers \in Nat /\ links \in Nat
    /\ opens \in 0..MaxOpens /\ fails \in 0..MaxFails

Init ==
    /\ pc = [i \in Instances |-> "idle"]
    /\ conf = [i \in Instances |-> NoConf]
    /\ rx_socket = [i \in Instances |-> 0]
    /\ err = [i \in Instances |-> "none"]
    /\ CLAIMED = FALSE
    /\ stack = FALSE /\ gaddr = 0 /\ gkind = "loopback"
    /\ gsocket = 0 /\ bound = {}
    /\ routers = 0 /\ opens = 0 /\ fails = 0 /\ links = 0

Faulty == fails < MaxFails /\ fails' = fails + 1

\* A free port that csp_bind() takes: csp_conf.port_max_bind is 31.
CanBind(port) == port <= 31 /\ port \notin bound

-----------------------------------------------------------------------------
(* Opening: CspclLink::new(), Cla::new() *)

Call(i) == pc[i] = "idle" /\ opens < MaxOpens /\ opens' = opens + 1

\* configure(): the cspcl_t, with what it keeps of the name (cname).
configure(via, c) ==
    [via |-> via, addr |-> c.addr, port |-> c.port, kind |-> c.kind,
     name |-> c.name, cname |-> copy_c_string(c.name)]

\* Cspcl::new() is entered; it has not returned yet.
Starts(i) ==
    /\ pc' = [pc EXCEPT ![i] = "init"]
    /\ err' = [err EXCEPT ![i] = "none"]

\* The arguments are refused, or the link is already claimed.
LinkRefused(i, args) ==
    /\ Call(i)
    /\ LET c == args_config(args) IN
         \/ Failed(c) /\ err' = [err EXCEPT ![i] = "Args"]
         \/ /\ ~Failed(c) /\ Failed(validate(c.addr, c.port))
            /\ err' = [err EXCEPT ![i] = "Config"]
         \/ /\ ~Failed(c) /\ ~Failed(validate(c.addr, c.port)) /\ CLAIMED
            /\ err' = [err EXCEPT ![i] = "AlreadyOpen"]
    /\ UNCHANGED <<pc, conf, rx_socket, CLAIMED, globalVars, socketVars,
                   fails, links>>

\* CLAIMED.swap(true) found it free: Cspcl::new() with the configuration.
LinkClaims(i, args) ==
    /\ Call(i)
    /\ ~CLAIMED
    /\ LET c == args_config(args) IN
         /\ ~Failed(c) /\ ~Failed(validate(c.addr, c.port))
         /\ conf' = [conf EXCEPT ![i] = configure("link", c)]
    /\ CLAIMED' = TRUE
    /\ Starts(i)
    /\ UNCHANGED <<rx_socket, globalVars, socketVars, fails, links>>

\* hardy claims nothing and checks nothing.
ClaNew(i, c) ==
    /\ Call(i)
    /\ conf' = [conf EXCEPT ![i] = configure("cla", c)]
    /\ Starts(i)
    /\ UNCHANGED <<rx_socket, CLAIMED, globalVars, socketVars, fails, links>>

\* Mutant: a failed open keeps the claim.
Fails_KeepsClaim(i, e) ==
    /\ err' = [err EXCEPT ![i] = e]
    /\ pc' = [pc EXCEPT ![i] = "idle"]
    /\ rx_socket' = [rx_socket EXCEPT ![i] = 0]
    /\ UNCHANGED CLAIMED

\* cspcl_init() failed, cleaning up after itself: a link gives up its claim.
Fails(i, e) ==
    /\ err' = [err EXCEPT ![i] = e]
    /\ pc' = [pc EXCEPT ![i] = "idle"]
    /\ rx_socket' = [rx_socket EXCEPT ![i] = 0]
    /\ CLAIMED' = (CLAIMED /\ conf[i].via # "link")

-----------------------------------------------------------------------------
(* cspcl_init(): the stack, under the global lock *)

\* The connection pool's mutex cannot be made.
PoolFails(i) ==
    /\ pc[i] = "init"
    /\ Faulty
    /\ Fails(i, "NoMemory")
    /\ UNCHANGED <<conf, globalVars, socketVars, opens, links>>

\* Mutant: the flag that the stack runs is not set.
StartStack_Forgets(i) ==
    /\ pc[i] = "init" /\ ~stack
    /\ gaddr' = conf[i].addr /\ gkind' = conf[i].kind
    /\ routers' = routers + 1
    /\ pc' = [pc EXCEPT ![i] = "lookup"]
    /\ UNCHANGED <<stack, conf, rx_socket, err, CLAIMED, socketVars, opens,
                   fails, links>>

StartStack(i) ==
    /\ pc[i] = "init" /\ ~stack
    /\ stack' = TRUE
    /\ gaddr' = conf[i].addr /\ gkind' = conf[i].kind
    /\ routers' = routers + 1
    /\ pc' = [pc EXCEPT ![i] = "lookup"]
    /\ UNCHANGED <<conf, rx_socket, err, CLAIMED, socketVars, opens, fails, links>>

\* csp_init(), the interface or the router fails; the globals are written
\* before the router is started.
StartStackFails(i, e) ==
    /\ pc[i] = "init" /\ ~stack
    /\ Faulty
    /\ \/ e \in {"CspStackInit", "CspRouter"}
       \/ e = "CspZmqhubInit" /\ conf[i].kind = "zmqhub"
       \/ e \in {"CspCanInit", "CspCanNotSupported"} /\ conf[i].kind = "can"
    /\ Fails(i, e)
    /\ IF e = "CspRouter" THEN gaddr' = conf[i].addr /\ gkind' = conf[i].kind
       ELSE UNCHANGED <<gaddr, gkind>>
    /\ UNCHANGED <<conf, stack, routers, socketVars, opens, links>>

\* The stack runs already, with this address and interface type.
UseStack(i) ==
    /\ pc[i] = "init" /\ stack
    /\ conf[i].addr = gaddr /\ conf[i].kind = gkind
    /\ pc' = [pc EXCEPT ![i] = "lookup"]
    /\ UNCHANGED <<conf, rx_socket, err, CLAIMED, globalVars, socketVars,
                   opens, fails, links>>

StackDiffers(i) ==
    /\ pc[i] = "init" /\ stack
    /\ conf[i].addr # gaddr \/ conf[i].kind # gkind
    /\ Fails(i, "CspInit")
    /\ UNCHANGED <<conf, globalVars, socketVars, opens, fails, links>>

-----------------------------------------------------------------------------
(* cspcl_open_rx_socket(): the lock is dropped between lookup and publish. *)
(* cspcl_accept_conn() calls it too ("re..."), and then an error ends the  *)
(* accept only.                                                            *)

\* Cspcl::new() returns, the link is built; or the accept goes on.
Opened(i) ==
    /\ pc' = [pc EXCEPT ![i] = "live"]
    /\ err' = [err EXCEPT ![i] = "Ok"]
    /\ links' = IF pc[i] \in Opening /\ conf[i].via = "link" THEN links + 1 ELSE links

\* Mutant: the process-wide socket is reused whatever its port.
Reuse_AnyPort(i) ==
    /\ pc[i] \in {"lookup", "relookup"}
    /\ gsocket # 0
    /\ rx_socket' = [rx_socket EXCEPT ![i] = gsocket]
    /\ Opened(i)
    /\ UNCHANGED <<conf, CLAIMED, globalVars, socketVars, opens, fails>>

\* The process-wide socket has our port.
Reuse(i) ==
    /\ pc[i] \in {"lookup", "relookup"}
    /\ gsocket # 0 /\ gsocket = conf[i].port
    /\ rx_socket' = [rx_socket EXCEPT ![i] = gsocket]
    /\ Opened(i)
    /\ UNCHANGED <<conf, CLAIMED, globalVars, socketVars, opens, fails>>

NoReuse(i) ==
    /\ pc[i] \in {"lookup", "relookup"}
    /\ gsocket = 0 \/ gsocket # conf[i].port
    /\ pc' = [pc EXCEPT ![i] = IF @ = "lookup" THEN "bind" ELSE "rebind"]
    /\ UNCHANGED <<conf, rx_socket, err, CLAIMED, globalVars, socketVars,
                   opens, fails, links>>

\* csp_socket(), csp_bind() and csp_listen(), without the lock
Bind(i) ==
    /\ pc[i] \in {"bind", "rebind"}
    /\ CanBind(conf[i].port)
    /\ bound' = bound \cup {conf[i].port}
    /\ rx_socket' = [rx_socket EXCEPT ![i] = conf[i].port]
    /\ pc' = [pc EXCEPT ![i] = IF @ = "bind" THEN "publish" ELSE "republish"]
    /\ UNCHANGED <<conf, err, CLAIMED, globalVars, gsocket, opens, fails, links>>

\* An error of cspcl_open_rx_socket() fails new(), or one accept.
SocketError(i, e) ==
    IF pc[i] \in Opening THEN Fails(i, e)
    ELSE /\ pc' = [pc EXCEPT ![i] = "closed"]
         /\ UNCHANGED <<rx_socket, err, CLAIMED>>

\* The port is out of range, or another socket has it.
BindFails(i) ==
    /\ pc[i] \in {"bind", "rebind"}
    /\ ~CanBind(conf[i].port)
    /\ SocketError(i, "CspRecv")
    /\ UNCHANGED <<conf, globalVars, socketVars, opens, fails, links>>

\* No socket, or csp_listen() fails: then the port stays bound.
ListenFails(i, e) ==
    /\ pc[i] \in {"bind", "rebind"}
    /\ Faulty
    /\ \/ e = "NoMemory" /\ UNCHANGED bound
       \/ e = "CspRecv" /\ CanBind(conf[i].port) /\ bound' = bound \cup {conf[i].port}
    /\ SocketError(i, e)
    /\ UNCHANGED <<conf, globalVars, gsocket, opens, links>>

Publish(i) ==
    /\ pc[i] \in {"publish", "republish"}
    /\ gsocket' = conf[i].port
    /\ Opened(i)
    /\ UNCHANGED <<conf, rx_socket, CLAIMED, globalVars, bound, opens, fails>>

-----------------------------------------------------------------------------
(* Closing *)

\* cspcl_close_rx_socket(): the socket is only forgotten.
CloseRx(i) ==
    /\ pc[i] = "live"
    /\ pc' = [pc EXCEPT ![i] = "closed"]
    /\ rx_socket' = [rx_socket EXCEPT ![i] = 0]
    /\ UNCHANGED <<conf, err, CLAIMED, globalVars, socketVars, opens, fails, links>>

\* cspcl_accept_conn() finds no socket.
Reopen(i) ==
    /\ pc[i] = "closed"
    /\ pc' = [pc EXCEPT ![i] = "relookup"]
    /\ UNCHANGED <<conf, rx_socket, err, CLAIMED, globalVars, socketVars,
                   opens, fails, links>>

\* Drop: cspcl_cleanup(); the stack, the bound port and the claim stay.
DropInstance(i) ==
    /\ pc[i] \in {"live", "closed"}
    /\ pc' = [pc EXCEPT ![i] = "idle"]
    /\ rx_socket' = [rx_socket EXCEPT ![i] = 0]
    /\ UNCHANGED <<conf, err, CLAIMED, globalVars, socketVars, opens, fails, links>>

-----------------------------------------------------------------------------
(* Specification *)

Step(i) ==
    \/ StartStack(i) \/ UseStack(i) \/ StackDiffers(i)
    \/ Reuse(i) \/ NoReuse(i) \/ Bind(i) \/ BindFails(i) \/ Publish(i)

Next ==
    \E i \in Instances :
        \/ \E a \in Args : LinkRefused(i, a) \/ LinkClaims(i, a)
        \/ \E c \in ClaConfigs : ClaNew(i, c)
        \/ Step(i) \/ PoolFails(i)
        \/ \E e \in {"CspStackInit", "CspRouter", "CspZmqhubInit", "CspCanInit",
                     "CspCanNotSupported"} : StartStackFails(i, e)
        \/ \E e \in {"NoMemory", "CspRecv"} : ListenFails(i, e)
        \/ CloseRx(i) \/ Reopen(i) \/ DropInstance(i)

Spec == Init /\ [][Next]_vars

-----------------------------------------------------------------------------
(* Properties *)

\* The process opens at most one link in its life, also when several threads
\* try at once and after it was dropped; and an open that fails anywhere, in the
\* arguments, the stack or the socket, leaves the claim to the next: it is held
\* only by a link that opens or has opened.
OneLink ==
    /\ links <= 1
    /\ CLAIMED => \/ links = 1
                  \/ \E i \in Instances : conf[i].via = "link" /\ pc[i] \in Opening

\* An instance that receives listens on its own port, whatever sockets other
\* instances published in between.
ListensOnItsPort ==
    \A i \in Instances : pc[i] = "live" => rx_socket[i] = conf[i].port

\* The process has one stack with one router, failed starts included, and every
\* instance agrees with it.
StackAgrees ==
    /\ routers <= 1
    /\ \A i \in Instances : pc[i] \notin {"idle", "init"} =>
         stack /\ conf[i].addr = gaddr /\ conf[i].kind = gkind

\* What the command line accepts is usable: the interface name reaches the C
\* library whole, validate() accepts the address, and csp_bind() refuses the
\* port only when it is taken.
ConfigUsable ==
    \A i \in Instances :
        /\ conf[i].via = "link" => conf[i].cname = conf[i].name.len
        /\ err[i] # "Config"
        /\ err[i] = "CspRecv" /\ conf[i].via = "link" => conf[i].port \in bound

=============================================================================
