----------------------------- MODULE StackProofs ----------------------------
(***************************************************************************)
(* Proofs about instances on the process-wide stack, for any number of     *)
(* threads, configurations, calls and failures: one router, agreement with *)
(* the stack, each instance on its own port, one link, and a command line  *)
(* that is usable once accepted.                                           *)
(*                                                                         *)
(* The invariants are independent of one another: each is proved           *)
(* inductive over the shape of the state alone.                            *)
(***************************************************************************)
EXTENDS Stack, TLAPS

-----------------------------------------------------------------------------
(* Invariants *)

Locations == Opening \cup {"idle", "live", "closed", "relookup", "rebind",
                           "republish"}

\* What the proofs need of the types.
ShapeInv ==
    /\ pc \in [Instances -> Locations]
    /\ DOMAIN conf = Instances
    /\ conf = [i \in Instances |-> conf[i]]
    /\ DOMAIN rx_socket = Instances
    /\ rx_socket = [i \in Instances |-> rx_socket[i]]
    /\ stack \in BOOLEAN /\ CLAIMED \in BOOLEAN

\* The router runs exactly when the stack does, and nobody is past the start
\* before that.
StackInv ==
    /\ stack => routers = 1
    /\ ~stack => routers = 0
    /\ \A i \in Instances : pc[i] \notin {"idle", "init"} =>
         stack /\ conf[i].addr = gaddr /\ conf[i].kind = gkind

\* A socket that is about to be published, or used, is on its instance's port.
PortInv ==
    \A i \in Instances : pc[i] \in {"publish", "republish", "live"} =>
        rx_socket[i] = conf[i].port

\* A link that is being opened has the claim, and no other link is open or
\* being opened.
OpensLink(i) == conf[i].via = "link" /\ pc[i] \in Opening

ClaimInv ==
    /\ links \in {0, 1}
    /\ links = 1 => CLAIMED
    /\ CLAIMED => links = 1 \/ \E i \in Instances : OpensLink(i)
    /\ \A i \in Instances : OpensLink(i) => CLAIMED /\ links = 0
    /\ \A i, j \in Instances : OpensLink(i) /\ OpensLink(j) => i = j

Inv == ShapeInv /\ StackInv /\ PortInv /\ ClaimInv

-----------------------------------------------------------------------------
(* The steps *)

\* Nothing is set up.
LEMMA InvInit == Init => Inv
<1> SUFFICES ASSUME Init PROVE Inv
  OBVIOUS
<1>1. ShapeInv BY DEF Init, ShapeInv, Locations, Opening
<1>2. StackInv BY DEF Init, StackInv
<1>3. PortInv BY DEF Init, PortInv
<1>4. ClaimInv BY DEF Init, ClaimInv, OpensLink, Opening
<1> QED BY <1>1, <1>2, <1>3, <1>4 DEF Inv

\* The calls of new().
LEMMA CallSteps ==
  ASSUME Inv, NEW i \in Instances,
         \/ \E a \in Args : LinkRefused(i, a) \/ LinkClaims(i, a)
         \/ \E c \in ClaConfigs : ClaNew(i, c)
  PROVE  Inv'
<1> USE DEF Inv, ShapeInv, StackInv, PortInv, ClaimInv, OpensLink, Locations,
            Opening, globalVars, socketVars
<1>1. ASSUME NEW a \in Args, LinkRefused(i, a) PROVE Inv'
  BY <1>1 DEF LinkRefused
<1>2. ASSUME NEW a \in Args, LinkClaims(i, a) PROVE Inv'
  BY <1>2 DEF LinkClaims, Call, Starts, configure
<1>3. ASSUME NEW c \in ClaConfigs, ClaNew(i, c) PROVE Inv'
  BY <1>3 DEF ClaNew, Call, Starts, configure
<1> QED BY <1>1, <1>2, <1>3

\* A failed open takes its instance back to idle and a link's claim with it.
LEMMA FailsStep ==
  ASSUME Inv, NEW i \in Instances, pc[i] \in Opening, NEW e, Fails(i, e),
         UNCHANGED <<conf, stack, routers, links>>,
         stack => UNCHANGED <<gaddr, gkind>>
  PROVE  Inv'
<1> USE DEF Inv, Fails
<1>1. ShapeInv' BY DEF ShapeInv, Locations
<1>2. StackInv' BY DEF ShapeInv, StackInv
<1>3. PortInv' BY DEF ShapeInv, PortInv
<1>4. ClaimInv'
  <2>1. \A j \in Instances : OpensLink(j)' <=> OpensLink(j) /\ j # i
    BY DEF ShapeInv, OpensLink, Opening
  <2>2. CASE conf[i].via = "link"
    <3>1. OpensLink(i) /\ links = 0
      BY <2>2 DEF ClaimInv, OpensLink
    <3>2. CLAIMED' = FALSE /\ links' = 0
      BY <2>2, <3>1
    <3>3. \A j \in Instances : ~OpensLink(j)'
      BY <2>1, <3>1 DEF ClaimInv
    <3> QED BY <3>2, <3>3 DEF ClaimInv
  <2>3. CASE conf[i].via # "link"
    BY <2>1, <2>3 DEF ShapeInv, ClaimInv, OpensLink
  <2> QED BY <2>2, <2>3
<1> QED BY <1>1, <1>2, <1>3, <1>4

\* cspcl_init(): the stack.
LEMMA StackSteps ==
  ASSUME Inv, NEW i \in Instances,
         \/ PoolFails(i) \/ StartStack(i) \/ UseStack(i) \/ StackDiffers(i)
         \/ \E e \in {"CspStackInit", "CspRouter", "CspZmqhubInit", "CspCanInit",
                      "CspCanNotSupported"} : StartStackFails(i, e)
  PROVE  Inv'
<1>1. CASE PoolFails(i)
  BY <1>1, FailsStep DEF PoolFails, Opening, globalVars
<1>2. CASE StackDiffers(i)
  BY <1>2, FailsStep DEF StackDiffers, Opening, globalVars
<1>3. ASSUME NEW e, StartStackFails(i, e) PROVE Inv'
  BY <1>3, FailsStep DEF StartStackFails, Opening
<1>4. CASE StartStack(i) \/ UseStack(i)
  <2> USE <1>4 DEF Inv, StartStack, UseStack, globalVars
  <2>1. ShapeInv' BY DEF ShapeInv, Locations, Opening
  <2>2. StackInv' BY DEF ShapeInv, StackInv
  <2>3. PortInv' BY DEF ShapeInv, PortInv
  <2>4. ClaimInv' BY DEF ShapeInv, ClaimInv, OpensLink, Opening
  <2> QED BY <2>1, <2>2, <2>3, <2>4
<1> QED BY <1>1, <1>2, <1>3, <1>4

\* Cspcl::new() or an accept got its socket.
LEMMA OpenedStep ==
  ASSUME Inv, NEW i \in Instances,
         pc[i] \in {"lookup", "relookup", "publish", "republish"},
         Opened(i), UNCHANGED <<conf, CLAIMED, globalVars>>,
         rx_socket' = [rx_socket EXCEPT ![i] = conf[i].port]
  PROVE  Inv'
<1> USE DEF Inv, Opened, globalVars
<1>1. ShapeInv' BY DEF ShapeInv, Locations
<1>2. StackInv' BY DEF ShapeInv, StackInv
<1>3. PortInv' BY DEF ShapeInv, PortInv
<1>4. ClaimInv'
  <2>1. \A j \in Instances : OpensLink(j)' <=> OpensLink(j) /\ j # i
    BY DEF ShapeInv, OpensLink, Opening
  <2>2. CASE OpensLink(i)
    BY <2>1, <2>2 DEF ClaimInv, OpensLink
  <2>3. CASE ~OpensLink(i)
    BY <2>1, <2>3 DEF ClaimInv, OpensLink
  <2> QED BY <2>2, <2>3
<1> QED BY <1>1, <1>2, <1>3, <1>4

\* An error of cspcl_open_rx_socket().
LEMMA SocketErrorStep ==
  ASSUME Inv, NEW i \in Instances, NEW e, pc[i] \in {"bind", "rebind"},
         SocketError(i, e), UNCHANGED <<conf, globalVars, links>>
  PROVE  Inv'
<1>1. CASE pc[i] \in Opening
  BY <1>1, FailsStep DEF SocketError, globalVars
<1>2. CASE pc[i] \notin Opening
  <2>1. /\ pc' = [pc EXCEPT ![i] = "closed"]
        /\ UNCHANGED <<rx_socket, CLAIMED, conf, stack, routers, gaddr, gkind, links>>
        /\ pc[i] = "rebind"
    BY <1>2 DEF SocketError, globalVars, Opening
  <2>2. ShapeInv' BY <2>1 DEF Inv, ShapeInv, Locations
  <2>3. StackInv' BY <2>1 DEF Inv, ShapeInv, StackInv
  <2>4. PortInv' BY <2>1 DEF Inv, ShapeInv, PortInv
  <2>5. ClaimInv'
    <3>1. \A j \in Instances : OpensLink(j)' <=> OpensLink(j)
      BY <2>1 DEF Inv, ShapeInv, OpensLink, Opening
    <3> QED BY <2>1, <3>1 DEF Inv, ClaimInv
  <2> QED BY <2>2, <2>3, <2>4, <2>5 DEF Inv
<1> QED BY <1>1, <1>2

\* cspcl_open_rx_socket(), from the lookup to the publication.
LEMMA SocketSteps ==
  ASSUME Inv, NEW i \in Instances,
         \/ Reuse(i) \/ NoReuse(i) \/ Bind(i) \/ BindFails(i) \/ Publish(i)
         \/ \E e \in {"NoMemory", "CspRecv"} : ListenFails(i, e)
  PROVE  Inv'
<1>1. CASE Reuse(i)
  BY <1>1, OpenedStep DEF Reuse
<1>2. CASE Publish(i)
  <2>1. rx_socket' = [rx_socket EXCEPT ![i] = conf[i].port]
    BY <1>2 DEF Publish, Inv, ShapeInv, PortInv
  <2> QED BY <1>2, <2>1, OpenedStep DEF Publish
<1>3. CASE BindFails(i)
  BY <1>3, SocketErrorStep DEF BindFails
<1>4. ASSUME NEW e, ListenFails(i, e) PROVE Inv'
  BY <1>4, SocketErrorStep DEF ListenFails
<1>5. CASE NoReuse(i) \/ Bind(i)
  <2> USE <1>5 DEF Inv, NoReuse, Bind, globalVars
  <2>1. ShapeInv' BY DEF ShapeInv, Locations, Opening
  <2>2. StackInv' BY DEF ShapeInv, StackInv
  <2>3. PortInv' BY DEF ShapeInv, PortInv
  <2>4. ClaimInv' BY DEF ShapeInv, ClaimInv, OpensLink, Opening
  <2> QED BY <2>1, <2>2, <2>3, <2>4
<1> QED BY <1>1, <1>2, <1>3, <1>4, <1>5

\* Closing, reopening, dropping.
LEMMA CloseSteps ==
  ASSUME Inv, NEW i \in Instances, CloseRx(i) \/ Reopen(i) \/ DropInstance(i)
  PROVE  Inv'
<1> USE DEF Inv, CloseRx, Reopen, DropInstance, globalVars
<1>1. ShapeInv' BY DEF ShapeInv, Locations, Opening
<1>2. StackInv' BY DEF ShapeInv, StackInv
<1>3. PortInv' BY DEF ShapeInv, PortInv
<1>4. ClaimInv' BY DEF ShapeInv, ClaimInv, OpensLink, Opening
<1> QED BY <1>1, <1>2, <1>3, <1>4

\* Every step.
LEMMA InvNext == Inv /\ [Next]_vars => Inv'
<1>1. Inv /\ UNCHANGED vars => Inv'
  BY DEF vars, globalVars, Inv, ShapeInv, StackInv, PortInv, ClaimInv, OpensLink
<1>2. Inv /\ Next => Inv'
  BY CallSteps, StackSteps, SocketSteps, CloseSteps DEF Next, Step
<1> QED BY <1>1, <1>2

\* Along every behaviour.
LEMMA InvAlways == Spec => []Inv
  BY InvInit, InvNext, PTL DEF Spec

-----------------------------------------------------------------------------
(* Theorems *)

\* However many threads run cspcl_init() at once and however often it fails,
\* the process has one router and every instance past the start agrees with the
\* stack's address and interface type.
THEOREM OneStack == Spec => []StackAgrees
<1>1. Inv => StackAgrees
  BY DEF Inv, ShapeInv, StackInv, StackAgrees
<1> QED BY <1>1, InvAlways, PTL

\* The race between looking up the process-wide socket and publishing one
\* never leaves an instance on another's port.
THEOREM OwnPort == Spec => []ListensOnItsPort
<1>1. Inv => ListensOnItsPort
  BY DEF Inv, PortInv, ListensOnItsPort
<1> QED BY <1>1, InvAlways, PTL

\* At most one link is opened in the life of the process, and a failed open
\* leaves no claim behind.
THEOREM OneLinkPerProcess == Spec => []OneLink
<1>1. Inv => OneLink
  BY DEF Inv, ClaimInv, OneLink, OpensLink
<1> QED BY <1>1, InvAlways, PTL

-----------------------------------------------------------------------------
(* Configurations *)

\* from_str() of an interface gives a name that copy_c_string() copies whole.
LEMMA NamesFit ==
  ASSUME NEW s, s.param.len \in Nat, ~Failed(iface_from_str(s))
  PROVE  copy_c_string(iface_from_str(s).name) = iface_from_str(s).name.len
<1> USE DEF copy_c_string, CSP_IFACE_PARAM_MAX
<1>1. copy_c_string(NoName) = NoName.len /\ copy_c_string(vcan0) = vcan0.len
      /\ copy_c_string(localhost) = localhost.len
  BY DEF NoName, vcan0, localhost
<1>2. ASSUME ~Failed(checked_param(s.param))
      PROVE  /\ checked_param(s.param) = s.param
             /\ copy_c_string(s.param) = s.param.len
  <2>1. \A e : Failed(Fail(e))
    BY DEF Failed, Fail
  <2>2. /\ s.param.len # 0 /\ ~(s.param.len > MAX_IFACE_PARAM_LEN)
        /\ ~(s.param.nul > 0)
    BY <1>2, <2>1 DEF checked_param
  <2>3. checked_param(s.param) = s.param
    BY <2>2 DEF checked_param
  <2> QED BY <2>2, <2>3 DEF MAX_IFACE_PARAM_LEN
<1>3. \A e : Failed(Fail(e))
  BY DEF Failed, Fail
<1>4. \/ iface_from_str(s) = [kind |-> s.kind, name |-> NoName]
      \/ iface_from_str(s) = [kind |-> s.kind, name |-> vcan0]
      \/ iface_from_str(s) = [kind |-> s.kind, name |-> localhost]
      \/ /\ ~Failed(checked_param(s.param))
         /\ iface_from_str(s) = [kind |-> s.kind, name |-> checked_param(s.param)]
  BY <1>3 DEF iface_from_str
<1> QED BY <1>1, <1>2, <1>4

\* from_str() of an address gives one in range.
LEMMA AddressesInRange ==
  ASSUME NEW a, NEW p, ~Failed(addr_from_str(a, p))
  PROVE  /\ addr_from_str(a, p).addr \in 0..MAX_NODE_ADDR
         /\ addr_from_str(a, p).port \in MIN_PORT..MAX_PORT
<1>1. \A e : Failed(Fail(e))
  BY DEF Failed, Fail
<1>2. parse_node_addr(a) # {} /\ parse_port(p) # {}
  BY <1>1 DEF addr_from_str
<1>3. addr_from_str(a, p) = [addr |-> a.value, port |-> p.value]
  BY <1>2 DEF addr_from_str
<1>4. a.value \in 0..MAX_NODE_ADDR
  BY <1>2 DEF parse_node_addr, parse_u8, U8, MAX_NODE_ADDR
<1>5. p.value \in MIN_PORT..MAX_PORT
  BY <1>2 DEF parse_port, parse_u8, U8, MIN_PORT, MAX_PORT
<1> QED BY <1>3, <1>4, <1>5

\* What CspclArgs::config() accepts, validate() accepts.
LEMMA ArgsUsable ==
  ASSUME NEW args \in Args, ~Failed(args_config(args))
  PROVE  /\ args_config(args).port \in MIN_PORT..MAX_PORT
         /\ copy_c_string(args_config(args).name) = args_config(args).name.len
         /\ ~Failed(validate(args_config(args).addr, args_config(args).port))
<1> DEFINE a == addr_from_str(args.addr, args.port)
           i == iface_from_str(args.iface)
<1>1. args_config(args) =
        IF Failed(a) THEN a
        ELSE IF Failed(i) THEN i
        ELSE [addr |-> a.addr, port |-> a.port, kind |-> i.kind, name |-> i.name]
  BY DEF args_config
<1>2. ~Failed(a) /\ ~Failed(i)
  BY <1>1
<1>3. args_config(args) =
        [addr |-> a.addr, port |-> a.port, kind |-> i.kind, name |-> i.name]
  BY <1>1, <1>2
<1>4. a.addr \in 0..MAX_NODE_ADDR /\ a.port \in MIN_PORT..MAX_PORT
  BY <1>2, AddressesInRange
<1>5. copy_c_string(i.name) = i.name.len
  BY <1>2, NamesFit, StackAssumption
<1> HIDE DEF a, i
<1>6. validate(a.addr, a.port) = [addr |-> a.addr, port |-> a.port]
  BY <1>4 DEF validate, MAX_NODE_ADDR, MIN_PORT, MAX_PORT
<1>7. ~Failed(validate(a.addr, a.port))
  BY <1>6 DEF Failed
<1> QED BY <1>3, <1>4, <1>5, <1>7

\* A link's configuration is usable, and its socket failed only on a bound port.
UsableInv ==
    /\ err = [i \in Instances |-> err[i]]
    /\ \A i \in Instances :
         /\ conf[i].via = "link" =>
              /\ conf[i].cname = conf[i].name.len
              /\ conf[i].port \in MIN_PORT..MAX_PORT
         /\ err[i] # "Config"
         /\ err[i] = "CspRecv" /\ conf[i].via = "link" => conf[i].port \in bound

\* A step that leaves the configurations alone, with at worst one new error.
LEMMA UsableErr ==
  ASSUME ShapeInv, UsableInv, NEW i \in Instances, NEW e, e # "Config",
         err' = err \/ err' = [err EXCEPT ![i] = e],
         conf' = conf, bound \subseteq bound',
         e = "CspRecv" /\ conf[i].via = "link" => conf[i].port \in bound'
  PROVE  UsableInv'
  BY DEF ShapeInv, UsableInv

\* csp_bind() refuses a link's port only when it is taken.
LEMMA RefusedIsBound ==
  ASSUME UsableInv, NEW i \in Instances, ~CanBind(conf[i].port)
  PROVE  conf[i].via = "link" => conf[i].port \in bound
  BY DEF UsableInv, CanBind, MIN_PORT, MAX_PORT

\* The calls that check a configuration.
LEMMA UsableCalls ==
  ASSUME ShapeInv, UsableInv, NEW i \in Instances,
         \/ \E a \in Args : LinkRefused(i, a) \/ LinkClaims(i, a)
         \/ \E c \in ClaConfigs : ClaNew(i, c)
  PROVE  UsableInv'
<1>1. ASSUME NEW a \in Args, LinkRefused(i, a) PROVE UsableInv'
  <2>1. PICK e \in {"Args", "AlreadyOpen"} : err' = [err EXCEPT ![i] = e]
    BY <1>1, ArgsUsable DEF LinkRefused
  <2> QED BY <1>1, <2>1, UsableErr DEF LinkRefused, socketVars
<1>2. ASSUME NEW a \in Args, LinkClaims(i, a) PROVE UsableInv'
  <2> DEFINE c == args_config(a)
  <2>1. /\ c.port \in MIN_PORT..MAX_PORT
        /\ copy_c_string(c.name) = c.name.len
    BY <1>2, ArgsUsable DEF LinkClaims
  <2>2. /\ conf' = [conf EXCEPT ![i] = configure("link", c)]
        /\ err' = [err EXCEPT ![i] = "none"] /\ bound' = bound
    BY <1>2 DEF LinkClaims, Starts, socketVars
  <2> HIDE DEF c
  <2> QED BY <2>1, <2>2 DEF ShapeInv, UsableInv, configure
<1>3. ASSUME NEW c \in ClaConfigs, ClaNew(i, c) PROVE UsableInv'
  BY <1>3 DEF ClaNew, Starts, configure, socketVars, ShapeInv, UsableInv
<1> QED BY <1>1, <1>2, <1>3

\* The steps that use the one they accepted.
LEMMA UsableSteps ==
  ASSUME ShapeInv, UsableInv, NEW i \in Instances,
         \/ Step(i) \/ PoolFails(i)
         \/ \E e \in {"CspStackInit", "CspRouter", "CspZmqhubInit", "CspCanInit",
                      "CspCanNotSupported"} : StartStackFails(i, e)
         \/ \E e \in {"NoMemory", "CspRecv"} : ListenFails(i, e)
         \/ CloseRx(i) \/ Reopen(i) \/ DropInstance(i)
  PROVE  UsableInv'
<1> USE DEF socketVars
<1>1. CASE StartStack(i) \/ UseStack(i) \/ NoReuse(i) \/ CloseRx(i) \/ Reopen(i)
           \/ DropInstance(i) \/ Bind(i)
  <2>1. err' = err /\ conf' = conf /\ bound \subseteq bound'
    BY <1>1 DEF StartStack, UseStack, NoReuse, CloseRx, Reopen, DropInstance, Bind
  <2> QED BY <2>1, UsableErr
<1>2. CASE Reuse(i) \/ Publish(i)
  <2>1. err' = [err EXCEPT ![i] = "Ok"] /\ conf' = conf /\ bound' = bound
    BY <1>2 DEF Reuse, Publish, Opened
  <2> QED BY <2>1, UsableErr
<1>3. CASE PoolFails(i) \/ StackDiffers(i)
  <2>1. PICK e \in {"NoMemory", "CspInit"} : err' = [err EXCEPT ![i] = e]
    BY <1>3 DEF PoolFails, StackDiffers, Fails
  <2>2. conf' = conf /\ bound' = bound
    BY <1>3 DEF PoolFails, StackDiffers
  <2> QED BY <2>1, <2>2, UsableErr
<1>4. ASSUME NEW e \in {"CspStackInit", "CspRouter", "CspZmqhubInit", "CspCanInit",
                        "CspCanNotSupported"},
             StartStackFails(i, e)
      PROVE  UsableInv'
  <2>1. err' = [err EXCEPT ![i] = e] /\ conf' = conf /\ bound' = bound
    BY <1>4 DEF StartStackFails, Fails
  <2> QED BY <2>1, UsableErr
<1>5. CASE BindFails(i)
  <2>1. err' = err \/ err' = [err EXCEPT ![i] = "CspRecv"]
    BY <1>5 DEF BindFails, SocketError, Fails
  <2>2. conf' = conf /\ bound' = bound
    BY <1>5 DEF BindFails
  <2>3. conf[i].via = "link" => conf[i].port \in bound
    BY <1>5, RefusedIsBound DEF BindFails
  <2> QED BY <2>1, <2>2, <2>3, UsableErr
<1>6. ASSUME NEW e \in {"NoMemory", "CspRecv"}, ListenFails(i, e) PROVE UsableInv'
  <2>1. err' = err \/ err' = [err EXCEPT ![i] = e]
    BY <1>6 DEF ListenFails, SocketError, Fails
  <2>2. /\ conf' = conf /\ bound \subseteq bound'
        /\ e = "CspRecv" => conf[i].port \in bound'
    BY <1>6 DEF ListenFails
  <2> QED BY <2>1, <2>2, UsableErr
<1> QED BY <1>1, <1>2, <1>3, <1>4, <1>5, <1>6 DEF Step

\* Along every behaviour.
LEMMA UsableAlways == Spec => []UsableInv
<1>1. Init => UsableInv
  BY DEF Init, UsableInv, NoConf
<1>2. Inv /\ UsableInv /\ [Next]_vars => UsableInv'
  <2>1. Inv /\ UsableInv /\ Next => UsableInv'
    BY UsableCalls, UsableSteps DEF Next, Inv
  <2>2. UsableInv /\ UNCHANGED vars => UsableInv'
    BY DEF UsableInv, vars, socketVars
  <2> QED BY <2>1, <2>2
<1> QED BY <1>1, <1>2, InvAlways, PTL DEF Spec

\* What the command line accepts never fails later for a reason from_str() and
\* validate() are there to catch: the name reaches C whole, the address is
\* accepted, and the port is refused only when it is taken.
THEOREM AcceptedIsUsable == Spec => []ConfigUsable
<1>1. UsableInv => ConfigUsable
  BY DEF UsableInv, ConfigUsable
<1> QED BY <1>1, UsableAlways, PTL

=============================================================================
