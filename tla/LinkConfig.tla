----------------------------- MODULE LinkConfig -----------------------------
(***************************************************************************)
(* What the adapters accept as configuration and what of it reaches the C  *)
(* library: picod3tn-cspcl's addr.rs and config.rs, hardy-cspcl's          *)
(* config.rs, and configure() of cspcl-sys, which copies a name into an    *)
(* array of 64 bytes.                                                      *)
(*                                                                         *)
(* A number in a text is [digits, value]: whether it is made of decimal    *)
(* digits only, and the number they make.  A name is [len, nul]: its       *)
(* length in bytes and the place of its first NUL byte, 0 if it has none.  *)
(***************************************************************************)
EXTENDS Integers

Fail(e) == [error |-> e]
Failed(r) == "error" \in DOMAIN r

-----------------------------------------------------------------------------
(* Addresses *)

MAX_NODE_ADDR == 30
MIN_PORT == 7
MAX_PORT == 31
U8 == 0..255

\* u8::from_str() after the check that there are only digits.
parse_u8(t) == IF t.digits /\ t.value \in U8 THEN {t.value} ELSE {}

parse_node_addr(t) == {a \in parse_u8(t) : a <= MAX_NODE_ADDR}

parse_port(t) == {p \in parse_u8(t) : MIN_PORT <= p /\ p <= MAX_PORT}

\* Config::validate(), CspclAddr::new(): the node address first.
validate(addr, port) ==
    IF addr > MAX_NODE_ADDR THEN Fail("NodeAddr")
    ELSE IF port < MIN_PORT \/ port > MAX_PORT THEN Fail("Port")
    ELSE [addr |-> addr, port |-> port]

\* CspclAddr::from_str(), on the two sides of the colon
addr_from_str(addr, port) ==
    IF parse_node_addr(addr) = {} THEN Fail("NodeAddr")
    ELSE IF parse_port(port) = {} THEN Fail("Port")
    ELSE [addr |-> addr.value, port |-> port.value]

-----------------------------------------------------------------------------
(* Interfaces *)

MAX_IFACE_PARAM_LEN == 63
CSP_IFACE_PARAM_MAX == 64

NoName == [len |-> 0, nul |-> 0]
vcan0 == [len |-> 5, nul |-> 0]
localhost == [len |-> 9, nul |-> 0]

\* Mutant: a name as long as the array is accepted.
checked_param_OffByOne(param) ==
    IF param.len = 0 THEN Fail("EmptyParam")
    ELSE IF param.len > MAX_IFACE_PARAM_LEN + 1 THEN Fail("ParamTooLong")
    ELSE IF param.nul > 0 THEN Fail("Nul")
    ELSE param

\* checked_param() of Interface::from_str()
checked_param(param) ==
    IF param.len = 0 THEN Fail("EmptyParam")
    ELSE IF param.len > MAX_IFACE_PARAM_LEN THEN Fail("ParamTooLong")
    ELSE IF param.nul > 0 THEN Fail("Nul")
    ELSE param

\* Interface::from_str(): a bare kind has its default.
iface_from_str(s) ==
    LET param == IF s.bare THEN (IF s.kind = "can" THEN vcan0 ELSE localhost)
                 ELSE checked_param(s.param)
    IN IF s.kind \notin {"loopback", "can", "zmqhub"} THEN Fail("Unknown")
       ELSE IF s.kind = "loopback"
       THEN IF s.bare THEN [kind |-> s.kind, name |-> NoName]
            ELSE Fail("LoopbackParam")
       ELSE IF Failed(param) THEN param
       ELSE [kind |-> s.kind, name |-> param]

\* copy_c_string(): at most N - 1 bytes, up to the first NUL.
copy_c_string(name) ==
    LET n == IF name.len < CSP_IFACE_PARAM_MAX THEN name.len
             ELSE CSP_IFACE_PARAM_MAX - 1
    IN IF name.nul \in 1..n THEN name.nul - 1 ELSE n

\* CspclArgs::config(): what the command line gives, [addr, port, iface].
args_config(args) ==
    LET a == addr_from_str(args.addr, args.port)
        i == iface_from_str(args.iface)
    IN IF Failed(a) THEN a
       ELSE IF Failed(i) THEN i
       ELSE [addr |-> a.addr, port |-> a.port, kind |-> i.kind, name |-> i.name]

=============================================================================
