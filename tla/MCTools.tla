------------------------------- MODULE MCTools -------------------------------
(* Model-checking instance of Tools: two orders of two clients that have   *)
(* the same order id, the second reported without its account.             *)
EXTENDS Tools

MCIdentity == {<<1, 7>>, <<2, 7>>}
MCAccountOf == <<1, 7>> :> "DU1" @@ <<2, 7>> :> "U2"
MCSymbolOf == <<1, 7>> :> "ACME" @@ <<2, 7>> :> "BOLT"
MCOmits == {<<2, 7>>}
MCDayOf == "f1" :> 1 @@ "f2" :> 2
MCSymbols == <<"ACME", "BOLT">>
=============================================================================
