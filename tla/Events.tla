-------------------------------- MODULE Events --------------------------------
(***************************************************************************)
(* Corporate events (src/src/ibkr/events.rs): resolve the contract, probe  *)
(* the entitlement, fetch, and say what the outcome of both means.         *)
(*                                                                         *)
(* A payload is empty, a list without rows, rows, or text that does not    *)
(* parse; what the rows contain is left out.                               *)
(***************************************************************************)
EXTENDS ToolCall

CONSTANT ConId      \* contract ids, positive

ASSUME ConIdAssumption == ConId # {} /\ ConId \subseteq Nat \ {0} /\ None \notin ConId

Payload == {"empty", "no rows", "rows", "garbage"}

Report(entitlement, status) ==
    Success([conid |-> acc.conid, entitlement |-> entitlement, status |-> status])

(* A positive conid needs no symbol; a symbol is resolved otherwise.  The  *)
(* dates have been parsed by then.                                         *)
CallEvents ==
    \/ \E c \in ConId : Arrives("get_events", [conid |-> c], "events.open",
                                [conid |-> c, entitlement |-> None])
    \/ \E c \in {None, 0} : Arrives("get_events", [conid |-> c], "events.resolve",
                                    [conid |-> None, entitlement |-> None])
    \/ Rejected("get_events", None, "neither symbol nor conid, or a bad date")

EventsResolve ==
    \/ \E c \in ConId :
         /\ Hears("events.resolve", [kind |-> "contract", conid |-> c])
         /\ Goes("events.resolve", "events.open")
         /\ acc' = [acc EXCEPT !.conid = c]
    \/ \E why \in {"not connected", "no contract"} :
         Answers("events.resolve", Failure(why))
    \/ Fails("events.resolve")

EventsResolveTimeout == TimesOut("events.resolve")

EventsOpen ==
    \/ Goes("events.open", "events.probe") /\ UNCHANGED <<heard, acc>>
    \/ Answers("events.open", Failure("not connected"))

(* The probe ends nothing; it only colours the report.                     *)
Probed(entitlement) ==
    /\ Goes("events.probe", "events.fetch")
    /\ acc' = [acc EXCEPT !.entitlement = entitlement]

EventsProbe ==
    \/ Hears("events.probe", [kind |-> "metadata"]) /\ Probed("ok")
    \/ Hears("events.probe", [kind |-> "metadata error"]) /\ Probed("unavailable")
EventsProbeTimeout == Probed("unknown") /\ UNCHANGED heard

MutantPayloadReport(p) ==
    CASE p = "rows" -> Report("ok", "ok")
      [] p = "garbage" -> Report("ok", "unparsed")
      [] OTHER -> Report("ok", "no_events")

PayloadReport(p) ==
    CASE p = "rows" -> Report("ok", "ok")
      [] p = "garbage" -> Report("ok", "unparsed")
      [] OTHER -> Report(acc.entitlement, "no_events")

EventsFetch ==
    \/ \E p \in Payload :
         Settles("events.fetch", [kind |-> "payload", payload |-> p], PayloadReport(p))
    \/ Settles("events.fetch", [kind |-> "fetch error"], Report("unavailable", "not_entitled"))

EventsTimeout == TimesOut("events.fetch")

-----------------------------------------------------------------------------
EventsCall == CallEvents
EventsOwn == EventsResolveTimeout \/ EventsOpen \/ EventsProbeTimeout \/ EventsTimeout
EventsGateway == EventsResolve \/ EventsProbe \/ EventsFetch

-----------------------------------------------------------------------------
(* Properties.                                                             *)

(* A report never claims more than the gateway said: the service is called *)
(* available only if its metadata or a payload with content came, no_events*)
(* only after a payload, not_entitled only after an error, and the report  *)
(* is about the contract asked for.                                        *)
EventReportHonest ==
    pc = "done" /\ tool = "get_events" /\ answer.ok =>
      LET content == {i \in Heard("payload") : heard[i].payload \in {"rows", "garbage"}}
      IN  /\ answer.body.entitlement = "ok" => Heard("metadata") \cup content # {}
          /\ answer.body.status = "no_events" => Heard("payload") # {} /\ content = {}
          /\ answer.body.status = "not_entitled" <=> Heard("fetch error") # {}
          /\ args.conid \in {None, 0, answer.body.conid}
          /\ args.conid \in {None, 0} =>
               \E i \in Heard("contract") : heard[i].conid = answer.body.conid
=============================================================================
