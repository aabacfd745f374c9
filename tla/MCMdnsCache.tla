---------------------------- MODULE MCMdnsCache ----------------------------
(***************************************************************************)
(* Instance of MdnsCache: one receiver comes back under another instance   *)
(* and port, the other under another host name and address.  Either table  *)
(* has one place less than there are names.                                *)
(***************************************************************************)
EXTENDS MdnsCache

Is(instance, target, ipv6, port) ==
    [instance |-> instance, target |-> target, ipv6 |-> ipv6, port |-> port]

MCLives ==
    "phone" :> <<Is("i1", "h1", "a1", 1), Is("i2", "h1", "a1", 2)>>
    @@ "laptop" :> <<Is("j1", "g1", "b1", 3), Is("j1", "g2", "b2", 3)>>
=============================================================================
