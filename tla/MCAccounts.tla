----------------------------- MODULE MCAccounts -----------------------------
(* Small instances of Accounts for TLC. *)
EXTENDS Accounts

CONSTANTS h1, h2, s1, s2

OneName  == {<<"a">>}
\* A local user, or one the hub shares.
OneUser  == {1 :> NewUser(<<"a">>, s) : s \in {NoSync, s1}}

\* A user of the hub and a local one whose name the hub knows for another.
TwoNames  == {<<"a">>, <<"b">>, <<"a", 2>>, <<"b", 2>>}
TwoUsers  == {(1 :> NewUser(<<"a">>, s1)) @@ (2 :> NewUser(<<"b">>, NoSync))}
HubRecord == [sync : {s1, s2}, name : {<<"a">>, <<"b">>}, rev : {1, 2}, deleted : BOOLEAN,
              enabled : {TRUE}]
\* What a hub sends: one record per identity, the two of a pair at the same revision.
HubBatches == {<<r>> : r \in HubRecord} \cup
              {<<r, q>> : <<r, q>> \in {p \in HubRecord \X HubRecord : p[1].sync # p[2].sync /\ p[1].rev = p[2].rev}}

=============================================================================
