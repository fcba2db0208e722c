----------------------------- MODULE MCDesired -----------------------------
(* Small instances of Desired. *)
EXTENDS Desired

CONSTANTS na, nb, v1, c1

MCPorts == <<443, 8443>>
Set(p, n, d, o) == [port |-> p, nets |-> n, demux |-> d, ok |-> o]
MCSetBodies == {Set(443, {"tcp"}, FALSE, TRUE), Set(443, {"tcp", "udp"}, FALSE, TRUE), Set(0, {"tcp"}, TRUE, TRUE)}
MCSeeds == {<<>>, na :> Set(443, {"tcp"}, FALSE, TRUE)}
MCHub(on, p, e) == [on |-> on, port |-> p, exit |-> e]
MCHubBodies == {MCHub(TRUE, 8443, NoUser), MCHub(FALSE, 8443, NoUser)}
MCBatches ==
  { (na :> Set(443, {"udp"}, FALSE, TRUE)) @@ ("dns" :> v1),
    (na :> Deleted) @@ (nb :> Set(443, {"tcp"}, FALSE, TRUE)),
    Wg :> MCHub(TRUE, 443, NoUser) }
=============================================================================
