----------------------------- MODULE SessionUse -----------------------------
(***************************************************************************)
(* Connection together with one user of its sessions: any task that takes  *)
(* a client with get_client and keeps it across awaits, like the account   *)
(* pump or a tool call in progress.  The user changes nothing of the       *)
(* manager's; the manager decides what becomes of the user's streams.      *)
(***************************************************************************)
EXTENDS Connection

CONSTANT Closed   \* a client whose socket is closed
ASSUME ClosedAssumption == Closed \notin Session \cup {None}

VARIABLE use      \* the session the user's client is of, Closed, or None

allVars == <<vars, use>>

(* What is left of a client of s when the sessions are as in `now'.        *)
ClientOf(s, now) == IF s \in Session /\ now[s] \in {"free", "dead"} THEN Closed ELSE s

(* The read lock is all get_client waits for.                              *)
GetClient == Running /\ SlotReadable /\ use' = ClientOf(slot, sess) /\ UNCHANGED vars

(* What a step of the manager does to the user: nothing, unless it closes  *)
(* the socket under its client or ends the process.                        *)
Carried == use' = IF Running' THEN ClientOf(use, sess') ELSE None

UseInit == Init /\ use = None
UseNext == (Next /\ Carried) \/ GetClient
UseSpec == UseInit /\ [][UseNext]_allVars
FairUse == UseSpec /\ Fairness

-----------------------------------------------------------------------------
(* Properties.                                                             *)

Offer ==
    IF slot = None THEN "none"
    ELSE CASE sess[slot] = "open" -> "live"
           [] sess[slot] = "stale" -> "stale"
           [] OTHER -> "dead"

Hold ==
    IF use = None THEN "none"
    ELSE IF use = Closed THEN "closed"
    ELSE IF use = slot THEN "current" ELSE "orphan"

(* Whatever the tasks of the manager interleave to, a client once handed   *)
(* out is of the session on offer, or its streams have ended, or they will *)
(* with the disconnect of the session: it never comes back to life, and it *)
(* never passes for one of a later session.                                *)
Slot == INSTANCE ClientSlot WITH conn <- Offer, hand <- Hold
ImplementsClientSlot == Slot!Spec
=============================================================================
