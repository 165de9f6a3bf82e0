------------------------------- MODULE MCStack ------------------------------
(* Command lines at the limits of what is accepted, and CLA configurations *)
(* that agree with them, differ in the port, or in the interface.          *)
EXTENDS Stack

Number(v) == [digits |-> TRUE, value |-> v]
Bare(kind) == [kind |-> kind, bare |-> TRUE, param |-> NoName]
Named(kind, len, nul) == [kind |-> kind, bare |-> FALSE,
                          param |-> [len |-> len, nul |-> nul]]
Arg(addr, port, iface) == [addr |-> addr, port |-> port, iface |-> iface]
Cla(addr, port, kind, name) == [addr |-> addr, port |-> port, kind |-> kind, name |-> name]

SomeArgs ==
    {Arg(Number(30), Number(31), Bare("loopback")),
     Arg(Number(30), Number(32), Bare("loopback")),
     Arg(Number(31), Number(31), Bare("loopback")),
     Arg(Number(30), Number(6), Bare("loopback")),
     Arg(Number(30), Number(31), Bare("zmqhub")),
     Arg(Number(30), Number(31), Named("can", 63, 0)),
     Arg(Number(30), Number(31), Named("can", 64, 0))}

SomeClaConfigs ==
    {Cla(30, 31, "loopback", NoName), Cla(30, 10, "loopback", NoName),
     Cla(30, 31, "can", vcan0)}

=============================================================================
