----------------------------- MODULE MCPublish -----------------------------
(* Small instances of Publish. *)
EXTENDS Publish

CONSTANTS grp, lone, dom, prof, sa, sb, sc, c1, c2

MCSlotOf == ("vless_reality" :> "reality") @@ ("trojan_tls" :> "tls") @@ ("naive" :> "dual")
            @@ ("hysteria2" :> "quic") @@ ("tuic" :> "quicSni") @@ ("shadowsocks" :> "plain")
MCPresets == DOMAIN MCSlotOf
Group(n, slots, ssl) == [name |-> n, slots |-> slots, demux |-> TRUE, ssl |-> ssl, over |-> <<>>]
Alone(n, q, ssl)     == [name |-> n, slots |-> <<q>>, demux |-> FALSE, ssl |-> ssl, over |-> <<>>]
MCInstalls ==
  { Group(grp, <<"vless_reality", "trojan_tls", "hysteria2", "shadowsocks">>, None),
    Group(grp, <<"hysteria2", "tuic", "naive">>, None),
    Group(grp, <<"hysteria2", "tuic", "vless_reality">>, None),
    [Group(grp, <<"trojan_tls", "naive">>, None) EXCEPT !.over = ("trojan_tls" :> sa)],
    Alone(lone, "trojan_tls", prof), Alone(lone, "vless_reality", None) }
MCBodies == {[domain |-> dom, acme |-> FALSE], [domain |-> dom, acme |-> TRUE]}

\* Handlers are alike.
ClientSymmetry == Permutations(Clients)
=============================================================================
