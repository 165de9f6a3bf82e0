----------------------------- MODULE MCSendQueue ----------------------------
(* Sends through every wrapper, each with what it refuses.                 *)
EXTENDS SendQueue

Send(api, bundle, to) == [api |-> api, bundle |-> bundle, to |-> to]

AllKinds ==
    {Send("blocking", "fits", <<2, 10>>), Send("blocking", "empty", <<2, 10>>),
     Send("async", "empty", <<2, 10>>), Send("async", "large", <<2, 10>>),
     Send("link", "fits", <<2, 10>>), Send("link", "large", <<2, 10>>),
     Send("forward", "fits", <<2, 10>>), Send("forward", "fits", <<2>>),
     Send("forward", "fits", <<>>)}

=============================================================================
