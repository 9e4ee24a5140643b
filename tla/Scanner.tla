------------------------------- MODULE Scanner -------------------------------
(***************************************************************************)
(* Market scans (src/src/ibkr/scanner.rs).  One scan is followed; the      *)
(* other scans of the process share its permits, and some of them, like    *)
(* this one, may give up on a subscription that the gateway has opened.    *)
(*                                                                         *)
(* Of a row remains its rank.  The deadline is looked at between two       *)
(* waits, the idle timer ends a wait: both end the scan with what it has.  *)
(***************************************************************************)
EXTENDS ToolCall, SequencesExt

CONSTANTS
    MaxRows,     \* MAX_SCANNER_ROWS: 50 in the code
    MaxGhosts,   \* bound: subscriptions given up at one time
    MaxRank      \* bound: ranks are 1..MaxRank

ASSUME ScannerAssumption ==
    {MaxRows, MaxGhosts, MaxRank} \subseteq Nat \ {0}

ScanRunning == pc \in {"scan.open", "scan.subscribe", "scan.stream"}
Batch == {b \in UNION {[1..n -> 1..MaxRank] : n \in 1..2} : IsInjective(b)}

-----------------------------------------------------------------------------
(* The other scans, as far as permits go.                                  *)

call == <<frame, pc, heard, acc, answer>>

PeerStarts ==
    /\ tool \in {None, "run_scanner"} /\ permits > 0
    /\ permits' = permits - 1 /\ peers' = peers + 1
    /\ UNCHANGED <<call, ghosts>>

PeerEnds ==
    /\ peers > 0
    /\ permits' = permits + 1 /\ peers' = peers - 1
    /\ \/ UNCHANGED ghosts
       \/ ghosts < MaxGhosts /\ ghosts' = ghosts + 1
    /\ UNCHANGED call

GhostCloses ==
    /\ ghosts > 0 /\ ghosts' = ghosts - 1
    /\ UNCHANGED <<call, permits, peers>>

-----------------------------------------------------------------------------
(* run_scan.                                                               *)

ClampRows(rows) == IF rows < 1 THEN 1 ELSE IF rows > MaxRows THEN MaxRows ELSE rows

MutantPermitFree == permits >= 0
PermitFree == permits > 0

CallScanner == \E rows \in 0..(MaxRows + 1) :
    \/ /\ PermitFree
       /\ Enters("run_scanner", [rows |-> ClampRows(rows)], "scan.open", <<>>)
       /\ permits' = permits - 1 /\ UNCHANGED <<peers, ghosts>>
    \/ ~PermitFree /\ Rejected("run_scanner", None, "scanner limit")

MutantReleasePermit ==
    permits' = permits + (IF pc = "scan.subscribe" THEN 0 ELSE 1) /\ UNCHANGED peers
(* The permit is dropped with the call, on every way out.                  *)
ReleasePermit == permits' = permits + 1 /\ UNCHANGED peers

ScanOver(from, a) == Concludes(from, a) /\ ReleasePermit
ScanFails(from, why) == ScanOver(from, Failure(why)) /\ UNCHANGED <<heard, ghosts>>

ScanOpen ==
    \/ Goes("scan.open", "scan.subscribe") /\ UNCHANGED <<heard, acc>>
    \/ ScanFails("scan.open", "not connected")

ScanSubscribed == Goes("scan.subscribe", "scan.stream") /\ UNCHANGED <<heard, acc>>
ScanSubscribeFails == ScanFails("scan.subscribe", "error")

(* Twenty seconds: the gateway may have opened what is given up here.      *)
ScanSubscribeTimeout ==
    /\ ScanOver("scan.subscribe", Failure("timeout"))
    /\ ghosts' \in {ghosts, ghosts + 1} /\ ghosts' <= MaxGhosts
    /\ UNCHANGED heard

(* The cut comes before the sort.                                          *)
MutantScanRows(out) == SortedBy(out, out)
ScanRows(out) ==
    LET cut == SubSeq(out, 1, Min({Len(out), args.rows})) IN SortedBy(cut, cut)

ScanBatch == \E b \in Batch :
    /\ Hears("scan.stream", [kind |-> "batch", ranks |-> b])
    /\ LET out == acc \o b
       IN  \/ Len(out) < args.rows /\ Goes("scan.stream", "scan.stream") /\ acc' = out
           \/ /\ Len(out) >= args.rows
              /\ ScanOver("scan.stream", Success(ScanRows(out))) /\ UNCHANGED ghosts

ScanNotice ==
    /\ Hears("scan.stream", [kind |-> "notice"])
    /\ Goes("scan.stream", "scan.stream") /\ UNCHANGED acc

ScanFinishes == ScanOver("scan.stream", Success(ScanRows(acc))) /\ UNCHANGED ghosts
(* The end marker, or the stream closed with its session: taken alike.     *)
ScanEnd == ScanFinishes /\ HeardLast([kind |-> "end"])
ScanTimer == ScanFinishes /\ UNCHANGED heard

ScanFail == \E why \in {"error", "subscription required"} : ScanFails("scan.stream", why)

-----------------------------------------------------------------------------
ScannerCall == CallScanner
ScannerOwn == ScanOpen \/ ScanSubscribeTimeout \/ ScanTimer
ScannerGateway == ScanSubscribed \/ ScanSubscribeFails \/ ScanBatch \/ ScanNotice
                  \/ ScanEnd \/ ScanFail
ScannerPeers == PeerStarts \/ PeerEnds \/ GhostCloses

-----------------------------------------------------------------------------
(* Properties.                                                             *)

(* Every way out of a scan, errors and timeouts included, gives back the   *)
(* one permit it took, so the scans in progress never exceed the limit and *)
(* the limit never shrinks; what the gateway may hold beyond that are the  *)
(* subscriptions given up after twenty seconds.                            *)
PermitsAccounted ==
    /\ permits + peers + (IF ScanRunning THEN 1 ELSE 0) = MaxScans
    /\ permits >= 0

RanksOf(item) == IF item.kind = "batch" THEN item.ranks ELSE <<>>
AllRanks == FlattenSeq([i \in 1..Len(heard) |-> RanksOf(heard[i])])

(* If the gateway sends its rows in rank order, in however many batches,   *)
(* the answer is the best rows sent, as many as were asked for.  Out of    *)
(* order it would not be: rows are cut off before they are sorted.         *)
BestRanksFirst ==
    pc = "done" /\ tool = "run_scanner" /\ answer.ok =>
      /\ Len(answer.body) <= args.rows
      /\ \A i \in 1..(Len(answer.body) - 1) : answer.body[i] <= answer.body[i + 1]
      /\ (\A i, j \in DOMAIN AllRanks : i < j => AllRanks[i] <= AllRanks[j]) =>
            answer.body = SubSeq(AllRanks, 1, Min({Len(AllRanks), args.rows}))
=============================================================================
